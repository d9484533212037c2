SPECIFICATION Spec
CONSTANTS
  c1 = c1
  c2 = c2
  Nobody = Nobody
  Conn <- TwoConns
  POOL_CAP = 1
  HeapSize = 5
  TLS_WBUF_POOL_MAX = 1
  TLS_SPILL_POOL_MAX = 1
  TLS_WSEG_MAX = 2
  TLS_MAX_RECORD_PLAINTEXT = 4
  TLS_WBUF_SIZE = 7
  TLS_BIGBUF_KEEP_MAX = 14
  Overhead = 1
  Shapes <- MCShapes
  Faults <- AllFaults
INVARIANTS HeldByOne CountersHold SendsTheResponse SlotRatchets
SYMMETRY Symmetric
