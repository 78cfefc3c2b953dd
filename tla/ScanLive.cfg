\* Two groups, one scan of up to two steps; nothing fails.
SPECIFICATION Spec
CONSTANTS
  Groups = {g1, g2}
  g1 = g1
  g2 = g2
  Steps = 2
  MaxScans = 1
  MayFail = {}
  Timely = TRUE
  QuickStop = FALSE
PROPERTIES ScanEnds StopEnds
