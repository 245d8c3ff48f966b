SPECIFICATION Spec
CONSTANTS
  Conn = {c1}
  NoConn = NoConn
  Fields = {9, 10}
  CurrentField = 10
  NoRelease = NoRelease
  TaskQueueLen = 8
  MaxRequests = 1
INVARIANTS
  NotDowngraded
