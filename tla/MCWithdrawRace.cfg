CONSTANTS
  A = A
  B = B
  SecretHash = {}
  MaxUint64 = 15
  MAXIMUM_PENDING_TRANSFERS = 160
  ConfirmBlockCount = 0
  MaxBlockDelay = 3
  Deposits <- DepositOne
  Amounts = {1}
  Totals = {1, 2}
  WithdrawTimeout = 0
  MaxHeight = 2
  MaxLag = 1
  MaxDirect = 1
  MaxCalls = 2
  MaxDeposit = 1
  MaxRestarts = 0
SPECIFICATION Spec
INVARIANT BalancesAddUp
CHECK_DEADLOCK FALSE
