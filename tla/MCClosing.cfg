CONSTANTS
  A = A
  B = B
  h1 = h1
  SecretHash = {h1}
  MaxUint64 = 15
  MAXIMUM_PENDING_TRANSFERS = 160
  ConfirmBlockCount = 0
  MaxBlockDelay = 3
  Deposits <- DepositFirst
  Pending <- LockFirst
  Amounts = {1}
  Totals = {1}
  SettleTimeout = 1
  MaxLag = 1
  MaxInclusion = 1
  MaxHeight = 7
  MaxDirect = 1
  MaxCalls = 2
  Withdrawing = {B}
  MaxRestarts = 1
SPECIFICATION FairSpec
INVARIANTS
  TypeOK
  PaidInFull
  
  StartsAgain
PROPERTIES
  
  ClosedEnds
CHECK_DEADLOCK FALSE
