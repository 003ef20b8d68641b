SPECIFICATION FairSpec
CONSTANTS
  Writers = {w1, w2}
  Readers = {r1, r2}
  Keys = {k1, k2}
  Values <- MCValues
  Ops <- MCOps
  Apply <- MCApply
  InitVal <- MCInitVal
  Backends = {"native", "ubpf", "x4c"}
  HotMint = {"native", "x4c"}
  MaxUpdates = 2
INVARIANTS
  TypeOK
  NoLostUpdate
  CacheNotBehindTag
PROPERTIES
  RegisterSpec
  ShardsConverge
