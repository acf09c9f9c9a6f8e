CONSTANTS
  MaxMsgQueue = 1
  MAX_RETRY = 1
  QuietStart = FALSE
  Recorded = 1
  MaxMessages = 2
  MaxRestarts = 1
  MaxWork = 3
  MaxInFlight = 1
SPECIFICATION Spec
INVARIANTS
  TypeOK
  NothingForgotten
CHECK_DEADLOCK FALSE
