SPECIFICATION FsSpec
CONSTANTS
  Procs = {p1, p2, p3}
  Blocks = {b1, b2}
  Vals = {v0, v1}
  InitVal = v0
  Torn = torn
  MAXOPBLOCKS = 2
  NLOG = 6
  Calls = {"open", "close", "chdir", "mknod", "mkdir", "exec", "exit"}
INVARIANTS DirtyIsPinned ReservationHolds QuietIsCommitted
PROPERTIES CrashAtomicity
SYMMETRY Symm
CHECK_DEADLOCK FALSE
