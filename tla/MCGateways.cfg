CONSTANTS
  Poster = {t1, t2}
  MaxQueued = 2
  MaxPosts = 3
  MaxAsks = 3
  MaxFailures = 4
SPECIFICATION FairSpec
INVARIANTS BacklogBounded NoRequestIntoDeadSession
PROPERTIES KeepsPromise KeepsContract EveryRequestAnswered SessionRecovers DestructorReturns
CHECK_DEADLOCK FALSE
