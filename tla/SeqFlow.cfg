SPECIFICATION Spec
CONSTANTS
  Half = 4
  Window = 3
  Lateness = 2
  MaxSend = 9
  MaxRestarts = 1
  MaxDup = 1
INVARIANTS
  TypeOK
  WrapTransparent
  LossAccounting
  RestartRecovers
CHECK_DEADLOCK FALSE
