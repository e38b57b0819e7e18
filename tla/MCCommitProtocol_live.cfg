SPECIFICATION LiveSpec
CONSTANTS
  o1 = o1  o2 = o2  o3 = o3  p = p  q = q  Flush = Flush
  Op <- Op3
  KeyOf <- Keys
  Caller <- OneCaller
  Mode <- Others
  MaxForeign = 1
  MaxTimeouts = 1
CHECK_DEADLOCK FALSE
PROPERTIES EveryCallEnds
