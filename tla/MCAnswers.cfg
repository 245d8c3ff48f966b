SPECIFICATION AnswersSpec
CONSTANTS
  Clients = {c1, c2, c3}
  Sizes = {1, 3}
  MaxAssoc = 2
  MaxPending = 2
  MaxRuns = 3
  MaxFaults = 2
  Texts <- SmallTexts
  Edits <- SmallEdits
  Keys <- SmallKeys
  Indexes <- SmallIndexes
  IntRoom = 2
  FloatRoom = 4
  StrRooms = {0, 1}
INVARIANTS
  OneTimer
  Associated
  AnswerWhole
  NotLost
  Accepted
  ValueRead
PROPERTIES
  ContractKept
  CalledBack
CHECK_DEADLOCK FALSE
