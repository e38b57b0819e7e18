SPECIFICATION DocumentLiveSpec
CONSTANTS
  MaxRev = 4
  Mode <- Modes
CHECK_DEADLOCK FALSE
INVARIANTS NothingMissed CleanIsSaved
PROPERTIES QueueDrains CatchesUp
