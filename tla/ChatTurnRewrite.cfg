SPECIFICATION Spec
CONSTANTS
  r1 = r1
  r2 = r2
  r3 = r3
  None = None
  Requests <- TwoRequests
  Offered <- SendAndRewrite
  MaxFaults = 0
PROPERTIES
  EditsLoseNoReply
CHECK_DEADLOCK FALSE
