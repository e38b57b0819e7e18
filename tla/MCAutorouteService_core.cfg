SPECIFICATION LiveSpec
CONSTANTS
  r1 = r1  j1 = j1
  Editor = Editor  NoRun = NoRun  NoJob = NoJob
  Follower <- OneRun
  Job <- OneJob
  JobOf <- Own
  Kind <- AllKinds
  Refill <- Either
  MaxCopper = 2
  MaxExisting = 1
  MaxForeign = 1
  MaxFaults = 1
CHECK_DEADLOCK FALSE
INVARIANTS Converges OneCommit CancelledUntouched DoneIsSaved
PROPERTIES EveryRunEnds
