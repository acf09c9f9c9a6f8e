CONSTANTS
  I = I
  M = M
  C = C
  T = T
  Initiator = I
  Target = T
  Mediators = {M, C}
  Channels <- MCChannels
  Deposits <- MCDeposits
  Route <- MCRoute
  SecretHash = {h1}
  secretHash = h1
  MaxUint64 = 63
  MAXIMUM_PENDING_TRANSFERS = 160
  ConfirmBlockCount = 0
  MaxBlockDelay = 3
  PaymentAmount = 5
  Flat = 1
  Proportional = 1000000
  FeeUnit = 1000000000
  FeeLimitDivisor = 5
  RevealTimeout = 2
  SettleTimeout = 10
  DefaultNumberOfBlockConfirmations = 1
  MaxStart = 1
  MaxHeight = 7
  MaxLag = 1
  MaxInclusion = 1
SPECIFICATION FairSpec
INVARIANTS
  TypeOK
  BooksAgree
  NobodyCheated
  PaymentAtomic
PROPERTIES
  DuplicatesHarmless
  PaymentResolves
  MediatorPaid
CHECK_DEADLOCK FALSE
