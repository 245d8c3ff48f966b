SPECIFICATION RequestsSpec
CONSTANTS
  Conns = {c1, c2}
  Shapes <- RequestShapes
  MaxPending = 2
  MaxRequests = 4
  MaxFaults = 1
  Values = {0, 1}
  Default = 0
  Wrong = 2
  Uploads = {1, 2}
  RtcSize = 7
  Wrap = 16
  One = 4
  Milli = 10
  Half = 2
  Periods = {10, 11}
  Shortest = 10
  Longest = 11
  MaxTime = 72
  Ticks = {1, 3}
  Stamps = {1, 2}
INVARIANTS
  RequestWhole
  Elaborated
  Durable
  SavesWhatWasSet
  DriftBounded
PROPERTY
  ElaboratedOnce
CHECK_DEADLOCK FALSE
SYMMETRY Symmetry
