SPECIFICATION LiveSpec
CONSTANTS
  a = a  b = b  e1 = e1  e2 = e2  r1 = r1  r2 = r2
  Id <- TwoItems
  Edit <- TwoEdits
  Reader <- TwoReaders
  MaxRev = 4
  Mode <- Modes
CHECK_DEADLOCK FALSE
INVARIANTS ReflectsRevision NoGhost
PROPERTIES EveryReadEnds
