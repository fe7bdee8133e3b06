CONSTANTS
  Books <- MCBooks
  Modes = {"MID", "VWAP", "FACTOR"}
  Unit = 80
  Cap = 2
  Alpha = 5
  MaxAge = 1
  MaxNow = 2
  MaxFeed = 1
  MaxBreaks = 2
SPECIFICATION Spec
INVARIANTS DeadPriceAgesOut FairNearMid
CHECK_DEADLOCK FALSE
