SPECIFICATION FairSpec
CONSTANTS
  Shards = {s1}
  Vports = {0, 1}
  Mtu = 2
  Hdr = 1
  RxBatch = 1
  GroMax = 3
  TxBatch = 2
  MaxSegments = 3
  MaxBytes = 5
  Lens = {1, 2, 3}
  MaxFrames = 3
INVARIANTS
  TypeOK
  FrameConservation
  TxPktsExact
  FlowNumbers
  NothingStranded
  RunsLegal
PROPERTIES
  StopEndsShards
