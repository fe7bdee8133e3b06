CONSTANTS
  Trader = {t1}
  Balance = {0, 1}
  MaxChanges = 2
  MaxDrops = 1
  MaxSubscribes = 3
  MaxFailures = 1
SPECIFICATION Spec
INVARIANT PositionKnown
PROPERTY TickLearned
CHECK_DEADLOCK FALSE
