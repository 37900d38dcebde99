SPECIFICATION Spec
CONSTANTS
  Procs = {p1, p2, p3}
  Inums = {1, 2, 3}
  NINODE = 2
  None = none
INVARIANTS IputDoesNotBlock InUseNotFree NoLeak
SYMMETRY Symm
CHECK_DEADLOCK FALSE
