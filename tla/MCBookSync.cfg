CONSTANTS
  Price = {1, 2}
  MaxQty = 1
  MaxUpdates = 4
  MaxTicks = 1
  MaxDrops = 1
  MaxFailures = 1
  Lag = 2
SPECIFICATION Spec
INVARIANTS BookIsVenues BookIsCurrent
CHECK_DEADLOCK FALSE
