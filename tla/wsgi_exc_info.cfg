SPECIFICATION Spec
CONSTANTS
  Requests <- MCRequests
  MaxRequests = 3
  MaxStarts = 2
  MaxChunks = 2
  Chunks <- MCChunks
  Lists <- MCLists
  RESP_HDR_SIZE = 4
  hdr_names <- Table
  HDR_CACHE_MAX_LEN = 3
  ContentTypeName <- ContentType
  ContentLengthName <- ContentLength
  CookieName <- Cookie
INVARIANT RefusedOnlyIfSent
CHECK_DEADLOCK FALSE
