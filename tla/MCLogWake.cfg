SPECIFICATION FsLiveSpec
CONSTANTS
  Procs = {p1, p2}
  Blocks = {b1, b2}
  Vals = {v0, v1}
  InitVal = v0
  Torn = torn
  MAXOPBLOCKS = 2
  NLOG = 6
  Calls = {"open"}
PROPERTIES WaiterWakes
CHECK_DEADLOCK FALSE
