SPECIFICATION Spec
CONSTANTS
  Procs = {p1, p2, p3}
  InitProc = p1
  None = none
  NPAGES = 13
  PAGESIZE = 2
  LOWPAGES = 4
  VMAPAGES = 2
  MaxSz = 8
  Deltas <- MCDeltas
  Images = {1, 4}
  MaxVma = 2
INVARIANTS PagesAccounted PagesNotTwice
PROPERTY TablesEmptyWhenDropped
SYMMETRY Symm
CHECK_DEADLOCK FALSE
