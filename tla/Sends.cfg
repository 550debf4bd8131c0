SPECIFICATION Spec
CONSTANTS
  Txs <- Mixed
  Coins <- MCCoins
  In <- MCIn
  PaidTo <- MCPaidTo
  Messages <- MCMessages
  Value <- MCValue
  Amount <- MCAmount
  Overlap = FALSE
  MaxGen = 4
  MaxQueue = 2
  MaxStarts = 1
  MaxForeign = 1
INVARIANTS
  TypeOK
  OnRecord
  OnDisk
PROPERTIES
  RetryConflicts
CHECK_DEADLOCK FALSE
