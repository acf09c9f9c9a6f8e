CONSTANTS
  SnapshotStateChangeCount = 2
  MaxHeight = 1
  MaxMessages = 1
  MaxCrashes = 1
  MaxBeside = 0
  MaxBroken = 0
SPECIFICATION Spec
INVARIANT EventsRecorded
CHECK_DEADLOCK FALSE
