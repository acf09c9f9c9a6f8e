CONSTANTS
  A = A
  B = B
  SecretHash = {h1}
  MaxUint64 = 15
  MAXIMUM_PENDING_TRANSFERS = 160
  ConfirmBlockCount = 0
  MaxBlockDelay = 3
  Deposit <- DepositTwo
  Amounts = {1, 2}
  RevealTimeout = 1
  DefaultNumberOfBlockConfirmations = 1
  MaxHeight = 4
  MaxDirect = 2
  MaxLag = 1
  MaxInclusion = 3
SPECIFICATION Spec
SYMMETRY Symmetry
INVARIANTS
  TypeOK
  BooksAgree
  ProofsCovered
  OnlyLockExpiredRejected
  PaymentAtomic
CHECK_DEADLOCK FALSE
