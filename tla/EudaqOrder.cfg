\* Two runs in two worlds: one in which scans fail, stops come early and OnStopRun()
\* may give up, and a calm one.  CHECK_DEADLOCK FALSE: after MaxRun runs nothing is
\* left to do.
CONSTANTS
  MaxConfig = 1
  MaxRun = 2
  MaxPost = 1
SPECIFICATION FairSpec
INVARIANTS
  TypeOK
  RunFramed
  EveryRunHasBore
PROPERTIES
  EoreComplete
  RequestsAnswered
CHECK_DEADLOCK FALSE
