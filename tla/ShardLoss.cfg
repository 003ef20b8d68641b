SPECIFICATION Spec
CONSTANTS
  Shards = {s1}
  Vports = {0, 1}
  Mtu = 2
  Hdr = 1
  RxBatch = 1
  GroMax = 2
  TxBatch = 2
  MaxSegments = 3
  MaxBytes = 8
  Lens = {2}
  MaxFrames = 2
INVARIANTS
  LossIsCounted
