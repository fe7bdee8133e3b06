CONSTANTS
  Product = {p1}
  MaxCid = 4
  MaxQty = 2
  MaxPosition = 4
  MaxPlaces = 2
  OrderNo <- MCOrderNo
  VenueNo <- MCVenueNo
  ForeignProduct <- MCForeignProduct
  EchoesCid = TRUE
  PositionFromFills = FALSE
  HasTickFunc = FALSE
  FlattenOnShutdown = TRUE
  MarketFlatten = TRUE
  Worlds <- MCFaulty
  None = None
SPECIFICATION FairSpec
PROPERTIES ShutdownCompletes ShutdownSurvivesRepeat TimedOutWaitEnds
