SPECIFICATION Spec
CONSTANTS
  Conns = {c1, c2}
  Shapes <- WholeHeaders
  MaxPending = 4
  MaxRequests = 4
  MaxFaults = 0
INVARIANT
  ElaboratedOnCompletion
CHECK_DEADLOCK FALSE
