SPECIFICATION CallSpec
CONSTANTS
  Null = Null
  Errors <- MCErrors
  Responses <- MCResponses
INVARIANTS
  TransientSurvived
CHECK_DEADLOCK FALSE
