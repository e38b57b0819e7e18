SPECIFICATION FairSpec
CONSTANTS
  r1 = r1  r2 = r2  r3 = r3  c1 = c1  c2 = c2
  NoReq = NoReq  NoConn = NoConn  Handshake = Handshake  Garbage = Garbage
  Req <- Req3
  Conn <- Conn2
  MaxAttempts = 1
  OnTimeout = "keep"
  IdSpace = 2
  StaleMax = 1
  StaleEvict = 1
  ShortWrites = FALSE
CHECK_DEADLOCK FALSE
INVARIANTS ReplyMatches FreshId
PROPERTIES ImplementsChannel EveryRequestSettles
