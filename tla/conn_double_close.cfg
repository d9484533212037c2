SPECIFICATION Spec
CONSTANTS
  READ_BUF_SIZE = 4
  TLS_SPILL_SIZE = 5
  MaxSweep = 5
  MaxFlights = 1
  Streams <- MCStreams
  Environments <- MCFlightFails
INVARIANT ClosedOnce
CHECK_DEADLOCK FALSE
