SPECIFICATION FairSpec
CONSTANTS
  N = 3
  Threads = {TRUE, FALSE}
  Tls = {TRUE, FALSE}
  MaxSignals = 2
INVARIANTS CleansUp ReturnsOnlyIfAllWell
PROPERTIES StopEndsServe ExitTakesTheWorkers
CHECK_DEADLOCK FALSE
