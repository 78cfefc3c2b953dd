SPECIFICATION FairSpec
CONSTANTS
  List <- McList
  Desks <- McDesks
  Chips = 3
  MaxStart = 3
INVARIANTS TypeOK EveryDieTested AbortHonoured OneScanAtATime StillRunning
PROPERTIES ListEnds
CHECK_DEADLOCK FALSE
