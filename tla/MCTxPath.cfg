SPECIFICATION TxSpec
CONSTANTS
  Hz = 2
  MaxClock = 6
  nr_elements = 4
  Gaps <- MCGaps
  LateTicks = 1
  TxDesc = 2
  PoolTx = 3
INVARIANTS
  TxTypeOK
  TxMbufsSafe
  TxAccounting
PROPERTY
  OpenLoopKept
CHECK_DEADLOCK FALSE
