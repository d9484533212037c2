SPECIFICATION FairSpec
CONSTANTS
  t1 = t1
  t2 = t2
  Task <- TaskSet
  Delays <- DelaySet
  TPM = 2
  MaxTime = 3
  MaxTimers = 2
  MinScheduled = 100
  Environments <- AllEnvironments
INVARIANTS SleepsSoundly BlocksForCause
PROPERTIES EverythingRuns KeepsPolling
CHECK_DEADLOCK FALSE
