SPECIFICATION LiveSpec
CONSTANTS
  r1 = r1  r2 = r2  r3 = r3  c1 = c1  c2 = c2
  NoReq = NoReq
  Req <- ThreeRequests
  Client <- TwoClients
  ClientOf <- Whose
  MaxId = 2
  MaxRestarts = 1
CHECK_DEADLOCK FALSE
INVARIANTS ReplyMatches NothingLost
PROPERTIES EveryRequestSettles
