SPECIFICATION ReplaySpec
CONSTANTS
  HEADER_LEN = 8
  AGENT_LINE = 0
  BULK_PAYLOAD = 4
  BULK_MS = 1
  RATE_LIMIT = 2
  Lens = {2, 3, 5}
  MaxMesgs = 3
  MaxTime = 2
  MaxSetBacks = 1
  OpenLens = {3}
  TIME_LEN = 6
  BUFSIZ_LONG = 24
  USLEEP = 2
INVARIANTS
  TypeOK
  InOrder
  BufferFits
  RateBound
  ReplayedAsSent
PROPERTIES
  FreshAfterSend
  ImplementsRelay
CHECK_DEADLOCK FALSE
