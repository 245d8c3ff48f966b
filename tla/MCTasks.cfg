SPECIFICATION TasksSpec
CONSTANTS
  Conn = {c1, c2}
  NoConn = NoConn
  Fields = {1, 2}
  CurrentField = 1
  NoRelease = NoRelease
  TaskQueueLen = 2
  MaxRequests = 3
  MaxJobs = 2
  Minutes = 2
  Commands = {"plain", "add", "del"}
  Seconds = {0, 29, 30}
  MaxEarly = 1
  MaxLate = 2
INVARIANTS
  NoSpareAnswers
  UpdateOwned
  GoesOn
  EveryMinute
  NoRerun
PROPERTIES
  Answered
  WalkEnds
