SPECIFICATION Spec
CONSTANTS
  END = 20
  PHYSTOP = 136
  NODE = 16
  ALIGN = 8
  Layouts <- WithPages
  MaxLive = 3
INVARIANTS TypeOK Disjoint AskedFor AssertsHold
CHECK_DEADLOCK FALSE
