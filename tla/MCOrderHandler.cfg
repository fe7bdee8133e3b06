CONSTANTS
  Product = {p1}
  MaxCid = 2
  MaxQty = 2
  MaxPosition = 1
  MaxPlaces = 2
  OrderNo <- MCOrderNo
  VenueNo <- MCVenueNo
  ForeignProduct <- MCForeignProduct
  EchoesCid = TRUE
  PositionFromFills = FALSE
  HasTickFunc = FALSE
  FlattenOnShutdown = TRUE
  MarketFlatten = TRUE
  None = None
SPECIFICATION Spec
INVARIANTS TypeOK WaitIsTimed RoutingConsistent IndexesInverse
CHECK_DEADLOCK FALSE
