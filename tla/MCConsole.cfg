SPECIFICATION Spec
CONSTANTS
  Procs = {p1, p2}
  NUL = NUL
  BS = BS
  NL = NL
  CTRL_D = CTRL_D
  NoProc = NoProc
  Chars = {NUL, BS, NL, CTRL_D, a}
  INPUT_BUF = 3
  MaxN = 2
  MaxTyped = 5
INVARIANTS TypeOK InputKept SleepersMustWait FullIsReadable
CHECK_DEADLOCK FALSE
