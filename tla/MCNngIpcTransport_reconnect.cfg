SPECIFICATION Spec
CONSTANTS
  r1 = r1  r2 = r2  r3 = r3  c1 = c1  c2 = c2
  NoReq = NoReq  NoConn = NoConn  Handshake = Handshake  Garbage = Garbage
  Req <- Req3
  Conn <- Conn2
  MaxAttempts = 2
  OnTimeout = "reconnect"
  IdSpace = 4
  StaleMax = 3
  StaleEvict = 1
  ShortWrites = TRUE
CHECK_DEADLOCK FALSE
SYMMETRY Symmetry
INVARIANTS WellFramed
