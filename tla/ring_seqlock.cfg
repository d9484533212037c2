SPECIFICATION FairSpec
CONSTANTS
  w1 = w1
  Workers = {w1}
  TLS_TICKET_RING = 2
  TLS_TICKET_SEQ_RETRIES = 2
  MaxKeys = 3
INVARIANTS TypeOK NeverMixed RetiredKeysErased
PROPERTIES ReadsEnd ImplementsAtomicRing
CHECK_DEADLOCK FALSE
