SPECIFICATION FairSpec
CONSTANTS
  Ip = {a1, a2}
  NoIp = NoIp
  Service = {"mdns"}
  TaskQueueLen = 3
  MaxCommands = 1
INVARIANTS
  Settled
  Announced
  ReachableAsAp
  Retrying
PROPERTIES
  GetsServed
  Restarts
