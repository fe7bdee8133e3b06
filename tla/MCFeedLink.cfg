CONSTANTS
  Product = {p1, p2}
  MaxBreaks = 2
  MaxBacklog = 3
SPECIFICATION FairSpec
INVARIANTS BufferOutlivesWrite
PROPERTIES FeedResumes StopReturns
CHECK_DEADLOCK FALSE
