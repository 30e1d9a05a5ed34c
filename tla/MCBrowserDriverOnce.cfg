SPECIFICATION DriverSpec
CONSTANTS
  Null = Null
  Steps <- MCSteps
  Elements <- MCElements
  Trees <- MCTrees
  Malformed <- MCMalformed
INVARIANT
  OthersDropped
CHECK_DEADLOCK FALSE
