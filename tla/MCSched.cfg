SPECIFICATION Spec
CONSTANTS
  NPROC = 3
  Cpus = {c1, c2}
  None = none
  Rounds = 1
INVARIANTS OneCpu MutualExclusion NoLostWakeup
SYMMETRY Symm
CHECK_DEADLOCK FALSE
