\* Two scans with any set of troubles.
SPECIFICATION FairSpec
CONSTANTS
  Loops = 2
  MaskSteps = 2
  AbortWaits = 2
  MaxScan = 2
  Troubles <- McTroubles
INVARIANTS TypeOK HandsOff OwnLoop Complete
PROPERTIES ScanEnds
CHECK_DEADLOCK FALSE
