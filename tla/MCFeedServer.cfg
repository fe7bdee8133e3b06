CONSTANTS
  Session = {s1}
  Product = {p1}
  MaxRequests = 2
  MaxVersion = 2
  None = None
SPECIFICATION FairSpec
INVARIANTS NothingDropped ClosedSessionForgotten InfoReplayed
PROPERTY EverythingArrives
CHECK_DEADLOCK FALSE
