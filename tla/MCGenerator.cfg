SPECIFICATION GenFairSpec
CONSTANTS
  Gaps <- MCGaps
  Hz = 2
  MaxClock = 5
  MaxLaunchClock = 0
  nr_elements = 2
  rate = 2
  duration = 1
  RemainingInS = 1
  LateTicks = 1
  TxDesc = 1
  PoolTx = 2
  BURST_SIZE = 1
  RING_ELEMENTS = 5
  RxDesc = 2
  PoolRx = 4
  MaxRx = 3
  MaxStray = 1
  IncomingSize = 2
  ForeignTimes = {6}
  NWorkers = 3
  UIntRange = 1024
  ULongRange = 65536
INVARIANTS
  GenTypeOK
  AnswersKept
  ReportHonest
  AtMostOneBurstLeft
PROPERTIES
  ReportStable
  Terminates
CHECK_DEADLOCK FALSE
