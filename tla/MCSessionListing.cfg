SPECIFICATION Spec
CONSTANTS
  Null = Null
  NaN = NaN
  Sessions <- MCSessions
  Queries <- MCQueries
  MaxClock = 2
  MaxWrites = 1
INVARIANTS
  ReplyTruthful
  NothingWithheld
CHECK_DEADLOCK FALSE
