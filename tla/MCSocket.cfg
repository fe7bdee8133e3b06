CONSTANTS
  Exchanges = {"binance", "kis"}
  MaxFailures = 3
  NeedsKey = TRUE
  DialMayThrow = TRUE
SPECIFICATION FairSpec
INVARIANTS RedialInHand SeededOnEveryOpen
PROPERTIES SocketRecovers StopReturns
CHECK_DEADLOCK FALSE
