SPECIFICATION FairSpec
CONSTANTS
  READ_BUF_SIZE = 4
  TLS_SPILL_SIZE = 3
  MaxSweep = 3
  MaxFlights = 1
  Streams <- MCShortStreams
  Environments <- MCFairEnvironments
PROPERTIES Progress ImplementsReplyOrder
CHECK_DEADLOCK FALSE
