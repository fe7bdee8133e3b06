CONSTANTS
  Product = {p1}
  MaxCid = 5
  MaxQty = 2
  MaxPosition = 6
  MaxPlaces = 2
  OrderNo <- MCOrderNo
  VenueNo <- MCVenueNo
  ForeignProduct <- MCForeignProduct
  EchoesCid = TRUE
  PositionFromFills = FALSE
  HasTickFunc = FALSE
  FlattenOnShutdown = TRUE
  MarketFlatten = TRUE
  Worlds <- MCFaultless
  None = None
SPECIFICATION SysSpec
INVARIANTS BooksAgree NothingLeftWorking NeverTwoQuotes PulledBeforeCrossing NoWaitOutlivesItsOrder
