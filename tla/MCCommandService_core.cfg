SPECIFICATION LiveSpec
CONSTANTS
  t1 = t1  t2 = t2  u1 = u1  u2 = u2  pad = pad  via = via  here = here
  Absent = Absent  Nobody = Nobody
  Tx <- Tx2
  Undoer <- Undoer2
  Item <- Item2
  Value <- Value1
  Limit = 1
  Failing <- Tx2
  MaxFail = 1
  Mode <- Modes
CHECK_DEADLOCK FALSE
INVARIANTS StoreAgrees StacksMatch TurnIsFree NoOrphan
PROPERTIES CommitIsRecorded EveryCallReturns
