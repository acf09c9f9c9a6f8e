CONSTANTS
  A = A
  B = B
  SecretHash = {h1, h2}
  MaxUint64 = 15
  MAXIMUM_PENDING_TRANSFERS = 160
  ConfirmBlockCount = 0
  MaxBlockDelay = 3
  Deposit <- DepositTwo
  Amounts = {1}
  RevealTimeout = 2
  DefaultNumberOfBlockConfirmations = 1
  MaxHeight = 7
  MaxDirect = 0
  MaxLag = 1
  MaxInclusion = 1
SPECIFICATION Spec
SYMMETRY Symmetry
INVARIANTS
  LedgerInv
  RevealTimeoutSuffices
  PaymentArrives
PROPERTY DuplicatesHarmless
CHECK_DEADLOCK FALSE
