SPECIFICATION Spec
CONSTANTS
  NPROC = 4
  NCPU = 2
  None = none
  MaxPid = 6
INVARIANTS ParentAlive NoMissedZombie StackLeft
CHECK_DEADLOCK FALSE
