SPECIFICATION LiveSpec
CONSTANTS
  s1 = s1  s2 = s2  board = board  sheet = sheet  tab = tab
  Nobody = Nobody
  Session <- TwoSessions
  Name <- TwoNames
  IdOf <- Own
  Client <- OneClient
  Early = FALSE
CHECK_DEADLOCK FALSE
INVARIANTS NoLeak NoStraySubscriber CleanedUp
PROPERTIES NoRevival EveryCallEnds
