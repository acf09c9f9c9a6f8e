CONSTANTS
  A = A
  B = B
  SecretHash = {}
  MaxUint64 = 15
  MAXIMUM_PENDING_TRANSFERS = 160
  ConfirmBlockCount = 0
  MaxBlockDelay = 3
  Deposits <- DepositFirst
  Amounts = {1}
  Totals = {1}
  WithdrawTimeout = 0
  MaxHeight = 2
  MaxLag = 1
  MaxDirect = 1
  MaxCalls = 2
  MaxDeposit = 1
  MaxRestarts = 1
SPECIFICATION FairSpec
INVARIANTS
  TypeOK
  CoveredUnlessRaced
  AddUpUnlessRaced
PROPERTIES
  RefusedOnlyWhenBehind
  WithdrawEnds
CHECK_DEADLOCK FALSE
