SPECIFICATION FairSpec
CONSTANTS
  w1 = w1
  Workers = {w1}
  TLS_TICKET_RING = 3
  TLS_TICKET_ROTATE = 2
  TLS_TICKET_STALE_GRACE = 1
  TLS_TICKET_LIFETIME = 4
  Late = 1
  Dawdle = 0
  MaxTime = 10
  MaxKicks = 1
INVARIANTS KeysInUse
PROPERTIES KeysAsAsked RingKeepsMoving
CHECK_DEADLOCK FALSE
