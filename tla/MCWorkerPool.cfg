SPECIFICATION FairSpec
CONSTANTS
  Jobs = {j1, j2, j3}
  Concurrency = 2
INVARIANTS
  SharedOnce
  NothingPulledAway
  CleanExit
  PoolInv
PROPERTY
  SignalEndsProcess
CHECK_DEADLOCK FALSE
