SPECIFICATION Spec
CONSTANTS
  NINODES = 4
  DIRSIZ = 4
  Paths <- SomePaths
  p1 = p1
  p2 = p2
  Procs = {p1, p2}
  InitProc = p1
  None = None
  NOFILE = 2
  MAXFILE = 1
  Calls <- SomeCalls
  MapPages = 2
  MaxFiles = 1
  Mappers = {p2}
  MaxNamed = 4
INVARIANTS PathsResolve TreeOK InodeLifetime OffsetsWithinSize NoTypeThroughDotDot MappedPages
CHECK_DEADLOCK FALSE
