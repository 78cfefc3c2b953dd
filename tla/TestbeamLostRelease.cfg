\* One run that nobody stops, boards that fill at any speed: does every read-out
\* come to its end?  CHECK_DEADLOCK FALSE: a board that misses its release keeps every
\* other one waiting.
CONSTANTS
  b1 = b1
  b2 = b2
  Boards = {b1, b2}
  StopEvent = StopEvent
  VetoAt = 1
  FullAt = 2
  MaxRun = 1
  MaxStop = 0
  SlowFill = FALSE
SPECIFICATION PersistentSpec
PROPERTIES
  RoundCompletes
CHECK_DEADLOCK FALSE
