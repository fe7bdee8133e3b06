CONSTANTS
  Touches <- MCTouches
  FairOffsets <- MCFairOffsets
  Vols = {1}
  Tick = 2
  Lot = 1
  Whole = 50
  Strategies <- MCStrategies
  MaxSteps = 4
SPECIFICATION QuotingSpec
INVARIANTS QuotesPassive DecisionSettles WithinLimit OwnQuotesApart
CHECK_DEADLOCK FALSE
