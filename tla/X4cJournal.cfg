SPECIFICATION Spec
CONSTANTS
  Readers = {r1}
  Tables = {t1}
  Keys = {k1, k2}
  Actions = {a1, a2}
  Slack = 1
  MaxUpdates = 5
INVARIANTS
  TypeOK
  SliceInBounds
  ReplayIsExact
PROPERTIES
  RegisterSpec
SYMMETRY Symmetry
