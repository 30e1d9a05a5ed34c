SPECIFICATION DriverSpec
CONSTANTS
  Null = Null
  Steps <- MCSteps
  Elements <- MCElements
  Trees <- MCTrees
  Malformed <- MCMalformed
INVARIANTS
  BestMatchClicked
  ClickHeard
  RetriedWhenLateOnly
  BestEffort
CHECK_DEADLOCK FALSE
