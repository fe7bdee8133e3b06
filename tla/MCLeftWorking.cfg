CONSTANTS
  Product = {p1}
  MaxCid = 4
  MaxQty = 2
  MaxPosition = 4
  MaxPlaces = 2
  OrderNo <- MCOrderNo
  VenueNo <- MCVenueNo
  ForeignProduct <- MCForeignProduct
  EchoesCid = TRUE
  PositionFromFills = FALSE
  HasTickFunc = FALSE
  FlattenOnShutdown = FALSE
  MarketFlatten = FALSE
  Worlds <- MCRefusing
  None = None
SPECIFICATION SysSpec
INVARIANT NothingLeftWorking
