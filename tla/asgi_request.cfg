SPECIFICATION FairSpec
CONSTANTS
  Nobody = Nobody
  r1 = r1
  r2 = r2
  Req <- TwoRequests
  MaxAwaits = 2
  MaxCancels = 2
  Environments <- AllEnvironments
INVARIANTS Consistent NoneAbandoned RunsAsItself
PROPERTIES CancelIsServed WakesUp
CHECK_DEADLOCK FALSE
