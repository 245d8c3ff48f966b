SPECIFICATION LiveSpec
CONSTANTS
  Conn = {c1}
  NoPiece = NoPiece
  MaxPending = 1
  MaxSplit = 2
  TaskQueueLen = 1
  Sizes = {3}
  MaxFaults = 1
  MaxMessages = 2
  LateSentCb = TRUE
  ListElems = {"a", "b"}
  ListSize = 3
  Nodes = {1, 2, 3, 4}
  Deletes = TRUE
PROPERTIES
  Drains
  ListOrder
CHECK_DEADLOCK FALSE
