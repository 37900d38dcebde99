SPECIFICATION LiveSpec
CONSTANTS
  Procs = {p1, p2, p3}
  PIPE_SIZE = 2
  MaxN = 2
  MaxBytes = 3
INVARIANTS InOrder SleepersMustWait
PROPERTIES ClosedPipeFrees
CHECK_DEADLOCK FALSE
