SPECIFICATION FairSpec
CONSTANTS
  Null = Null
  Writers <- MCRuns
  Runs <- MCRuns
  MaxStalled = 1
  MaxFailures = 1
  DiskMayFail = TRUE
  LockMayBeLost = TRUE
INVARIANTS
  KeptUnlessOvertaken
PROPERTIES
  TerminalIsLastUnlessStalled
  JobSettles
CHECK_DEADLOCK FALSE
