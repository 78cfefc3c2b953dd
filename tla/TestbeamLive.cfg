\* One run in which no board fills up while another one is still asleep after its
\* release: every read-out is completed, and a stop between two rounds ends the
\* run.  CHECK_DEADLOCK FALSE: the end of the run is the end of all activity.
CONSTANTS
  b1 = b1
  b2 = b2
  Boards = {b1, b2}
  StopEvent = StopEvent
  VetoAt = 1
  FullAt = 2
  MaxRun = 1
  MaxStop = 1
  SlowFill = TRUE
SPECIFICATION FairSpec
PROPERTIES
  RoundCompletes
  StopEndsQuietRun
CHECK_DEADLOCK FALSE
