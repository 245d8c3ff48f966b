SPECIFICATION TransmissionSpec
CONSTANTS
  Conn = {c1, c2}
  NoPiece = NoPiece
  MaxPending = 2
  MaxSplit = 2
  TaskQueueLen = 2
  Sizes = {1, 3}
  MaxFaults = 1
  MaxMessages = 2
  LateSentCb = FALSE
  QueueElems = {"a", "b"}
  QueueSize = 3
INVARIANTS
  FlagOwnsBuffer
  OneSendAtATime
  OwnedOnce
  WakeUp
PROPERTIES
  SentInOrder
  QueueOrder
CHECK_DEADLOCK FALSE
SYMMETRY Symmetry
