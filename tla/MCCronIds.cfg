SPECIFICATION CronSpec
CONSTANTS
  MaxJobs = 30
  Minutes = 1
  Commands = {"plain"}
  Seconds = {0}
  MaxEarly = 0
  MaxLate = 0
INVARIANTS
  UniqueIds
