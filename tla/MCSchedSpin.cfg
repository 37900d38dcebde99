SPECIFICATION Spec
CONSTANTS
  NPROC = 2
  Cpus = {c1, c2}
  None = none
  Rounds = 2
INVARIANT NoSpinCycle
CHECK_DEADLOCK FALSE
