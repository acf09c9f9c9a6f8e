CONSTANTS
  MaxMsgQueue = 3
  MAX_RETRY = 1
  QuietStart = TRUE
  Recorded = 3
  MaxMessages = 3
  MaxRestarts = 0
  MaxWork = 3
  MaxInFlight = 1
SPECIFICATION FairSpec
PROPERTIES
  DeliversInOrder
  AppliedOrStuck
CHECK_DEADLOCK FALSE
