\* One run that is stopped at any moment: does a stopped board stay stopped?
\* CHECK_DEADLOCK FALSE: the end of the run is the end of all activity.
CONSTANTS
  b1 = b1
  b2 = b2
  Boards = {b1, b2}
  StopEvent = StopEvent
  VetoAt = 1
  FullAt = 2
  MaxRun = 1
  MaxStop = 1
  SlowFill = FALSE
SPECIFICATION Spec
PROPERTIES
  StopIsFinal
CHECK_DEADLOCK FALSE
