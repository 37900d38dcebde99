SPECIFICATION Spec
CONSTANTS
  Procs = {p1, p2}
  Blocks = {k1, k2, k3, k4}
  NBUF = 3
  Values = {v0, v1}
  MaxPins = 1
  MaxLost = 0
  None = none
INVARIANTS OneBuffer RefcntCounts ReadsLatest
SYMMETRY Symm
CHECK_DEADLOCK FALSE
