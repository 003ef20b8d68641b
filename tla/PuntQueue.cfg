SPECIFICATION FairSpec
CONSTANTS
  Depth = 3
  Mtu = 2
  Vports = {1}
  DrainMax = 2
  Asks = {0, 1, 3}
  MaxPush = 5
INVARIANTS
  TypeOK
  DrainedMeansSeen
PROPERTIES
  FifoSpec
  EveryFrameDrained
