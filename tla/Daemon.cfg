SPECIFICATION FairSpec
CONSTANTS
  Shards = {s1}
  Clients = {c1}
  IdleTicks = 2
  Chatty = FALSE
  MaxCalls = 1
  MaxCount = 2
  MaxSignals = 2
INVARIANTS
  TypeOK
  FinalSnapshotIsLast
  SocketFile
PROPERTIES
  StopHonoured
