SPECIFICATION LiveSpec
CONSTANTS
  r1 = r1  r2 = r2  r3 = r3
  Req <- ThreeRequests
  Modes <- Both
CHECK_DEADLOCK FALSE
INVARIANTS EventsAfterReply NothingStranded
PROPERTIES EveryRequestSettles
