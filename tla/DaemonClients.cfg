SPECIFICATION FairSpec
CONSTANTS
  Shards = {s1}
  Clients = {c1, c2}
  IdleTicks = 2
  Chatty = FALSE
  MaxCalls = 1
  MaxCount = 0
  MaxSignals = 0
PROPERTIES
  RequestsServed
