SPECIFICATION LiveSpec
CONSTANTS
  NPROC = 4
  NCPU = 1
  None = none
  MaxPid = 4
PROPERTY OrphansReaped
