CONSTANTS
  MaxMsgQueue = 3
  MAX_RETRY = 1
  QuietStart = TRUE
  Recorded = 0
  MaxMessages = 2
  MaxRestarts = 0
  MaxWork = 2
  MaxInFlight = 1
SPECIFICATION FairSpec
PROPERTY KeepsSending
CHECK_DEADLOCK FALSE
