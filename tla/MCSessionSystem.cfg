SPECIFICATION FairSpec
CONSTANTS
  Null = Null
  Writers <- MCWriters
  Runs <- MCRuns
  MaxFailures = 3
  DiskMayFail = TRUE
  WorkerMayCrash = TRUE
INVARIANTS
  OneWriter
  AcknowledgedKept
  FinalPageTruth
  SystemInv
PROPERTY
  RecordReachesTerminal
CHECK_DEADLOCK FALSE
