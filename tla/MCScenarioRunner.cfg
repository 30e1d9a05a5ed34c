SPECIFICATION ScnSpec
CONSTANTS
  Null = Null
  Currencies <- MCCurrencies
  Screens <- MCScreens
  Scenarios <- MCScenarios
  MaxRounds = 2
  StorageMayFail = TRUE
INVARIANTS
  ScnInv
  BlameWindow
  EvidenceStored
  FreshUnlessBrokenOff
PROPERTIES
  ArtifactsWrittenOnce
CHECK_DEADLOCK FALSE
