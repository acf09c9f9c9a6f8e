CONSTANTS
  SnapshotStateChangeCount = 2
  MaxHeight = 2
  MaxMessages = 2
  MaxCrashes = 2
  MaxBeside = 1
  MaxBroken = 1
SPECIFICATION Spec
INVARIANTS
  
  BlockEventsApplied
  

  
CHECK_DEADLOCK FALSE
