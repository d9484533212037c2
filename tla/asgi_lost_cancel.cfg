SPECIFICATION FairSpec
CONSTANTS
  Nobody = Nobody
  r1 = r1
  r2 = r2
  Req <- TwoRequests
  MaxAwaits = 2
  MaxCancels = 2
  Environments <- LateCancel
PROPERTIES CancelNeverLost
CHECK_DEADLOCK FALSE
