SPECIFICATION MkSpec
CONSTANTS
  Files = {1, 2, 3}
  Root = 1
  Lengths <- SomeLengths
  W = 2
  NDIRECT = 1
  NBLOCKS = 17
  MaxN = 3
  MaxCalls = 4
INVARIANTS ImageBlocksOwned ImageReadBack DirectReadBack
CHECK_DEADLOCK FALSE
