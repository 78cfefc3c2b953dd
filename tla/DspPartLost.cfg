SPECIFICATION Spec
CONSTANTS
  Sizes = {1, 2}
  Troubles <- McParts
  Ones = 65535
  MaxCall = 2
PROPERTIES SentIsStarted
CHECK_DEADLOCK FALSE
