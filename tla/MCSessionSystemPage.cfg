SPECIFICATION FairSpec
CONSTANTS
  Null = Null
  Writers <- MCWriters
  Runs <- MCRuns
  MaxFailures = 1
  DiskMayFail = FALSE
  WorkerMayCrash = FALSE
PROPERTY
  PageReachesTerminal
CHECK_DEADLOCK FALSE
