SPECIFICATION FsSpec
CONSTANTS
  Procs = {p1, p2}
  Blocks = {b1, b2}
  Vals = {v0, v1}
  InitVal = v0
  Torn = torn
  MAXOPBLOCKS = 1
  NLOG = 4
  Calls = {"unlink"}
INVARIANTS QuietIsCommitted
SYMMETRY Symm
CHECK_DEADLOCK FALSE
