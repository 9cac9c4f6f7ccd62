SPECIFICATION RxSpec
CONSTANTS
  Hz = 2
  MaxClock = 2
  BURST_SIZE = 2
  RING_ELEMENTS = 5
  RxDesc = 2
  PoolRx = 4
  MaxRx = 3
  IncomingSize = 2
  ForeignTimes = {3}
INVARIANTS
  RxTypeOK
  RxMbufsSafe
  LogIsSound
  RxAccounting
PROPERTY
  QueueKept
CHECK_DEADLOCK FALSE
