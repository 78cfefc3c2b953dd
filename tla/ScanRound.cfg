\* Two groups, two scans of one step each; the hardware of one group may fail.
SPECIFICATION Spec
CONSTANTS
  Groups = {g1, g2}
  g1 = g1
  g2 = g2
  Steps = 1
  MaxScans = 2
  MayFail = {g1}
  Timely = TRUE
  QuickStop = FALSE
INVARIANTS TypeOK StepIsMeasured SavedIsComplete ControllerFree StatusRestored
PROPERTIES EndIsTrue
