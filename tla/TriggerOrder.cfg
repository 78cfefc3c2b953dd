CONSTANTS
  Amount = 3
  Margin = 2
  Layout <- MCLayout
  FirstNumbers = {0, 1, 2}
  MaxTrigger = 7
  MayMiss = {1}
  MaxFailed = 1
SPECIFICATION Spec
INVARIANTS
  RecievedIsExact
  EventAligned
  DummyMeansMissing
  DroppedIsPast
  NothingKept
