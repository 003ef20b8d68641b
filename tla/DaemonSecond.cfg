SPECIFICATION FairSpec
CONSTANTS
  Shards = {s1}
  Clients = {c1}
  IdleTicks = 1
  Chatty = TRUE
  MaxCalls = 1
  MaxCount = 0
  MaxSignals = 2
PROPERTIES
  SecondSignalKills
