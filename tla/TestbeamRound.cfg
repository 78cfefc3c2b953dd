\* Two boards, two runs, the first one stopped at any moment, boards that fill at any
\* speed: the safety of the read-out round.  CHECK_DEADLOCK FALSE: a run may end, and
\* with fast boards all threads may wait for each other (see TestbeamLostRelease).
CONSTANTS
  b1 = b1
  b2 = b2
  Boards = {b1, b2}
  StopEvent = StopEvent
  VetoAt = 1
  FullAt = 2
  MaxRun = 2
  MaxStop = 1
  SlowFill = FALSE
SYMMETRY BoardSymmetry
SPECIFICATION Spec
INVARIANTS
  NothingLeftBehind
  FinishedIsDrained
PROPERTIES
  RefinesBarrier
CHECK_DEADLOCK FALSE
