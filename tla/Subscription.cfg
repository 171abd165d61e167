CONSTANTS
  Users = {u1, u2}
  MaxNotifs = 2
  MaxBuffer = 1
  Doubtful = {2}
SPECIFICATION FairSpec
CHECK_DEADLOCK FALSE
INVARIANTS
  NoPanic
  UnsubscribeReachesServer
PROPERTIES
  StreamImplemented
  DispatchFree
  UnsubscribeReturns
  ErrReported
  CloseEndsSubscription
  Delivered
