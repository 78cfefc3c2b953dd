SPECIFICATION FairSpec
CONSTANTS
  Sizes = {1, 2, 3}
  Troubles <- McTroubles
  Ones = 65535
  MaxCall = 4
INVARIANTS TypeOK StatusIsTrue TakeTurns ReplyIsOwn
PROPERTIES CallReturns RefinesCall
CHECK_DEADLOCK FALSE
