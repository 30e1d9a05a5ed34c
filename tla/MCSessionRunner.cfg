SPECIFICATION FairSpec
CONSTANTS
  Null = Null
  Currencies <- MCCurrencies
  Screens <- MCScreens
  Library <- MCLibrary
  LLMScenarios <- MCLLMScenarios
  Scenarios <- MCScenarios
  MaxRounds = 3
  StorageMayFail = TRUE
INVARIANTS
  SesInv
  OutcomeConsistent
  RecordedIsSaved
  LibraryFirst
PROPERTIES
  TerminalStatus
  DriverReleased
  ImplementsLifecycle
  FollowsProtocol
  SessionArtifactsWrittenOnce
CHECK_DEADLOCK FALSE
