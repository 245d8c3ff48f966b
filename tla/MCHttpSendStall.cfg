SPECIFICATION Spec
CONSTANTS
  Conn = {c1}
  NoPiece = NoPiece
  MaxPending = 16
  MaxSplit = 16
  TaskQueueLen = 8
  Sizes = {3}
  MaxFaults = 2
  MaxMessages = 2
  LateSentCb = FALSE
INVARIANT NeverStalls
CHECK_DEADLOCK FALSE
