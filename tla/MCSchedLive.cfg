SPECIFICATION LiveSpec
CONSTANTS
  NPROC = 3
  Cpus = {c1}
  None = none
  Rounds = 2
PROPERTY AllExit
