SPECIFICATION Spec
CONSTANTS
  Key = {k1, k2}
  Value = {v1}
  Seconds = {1, 2}
  None = None
  DelChannelCap = 1
  MaxTime = 3
INVARIANTS TypeOK NothingLeftBehind
PROPERTY TtlSpec
SYMMETRY Symmetry
CHECK_DEADLOCK FALSE
