SPECIFICATION LiveSpec
CONSTANTS
  Procs = {p1, p2, p3}
  NUM = 8
  U16 = 8
  U32 = 16
  None = none
  MaxReqs = 5
INVARIANTS DescsPartition ServedWhenWoken
PROPERTIES RwReturns
CHECK_DEADLOCK FALSE
