SPECIFICATION LiveSpec
CONSTANTS
  Procs = {p1}
  Cpus = {c1}
  UART_TX_BUF_SIZE = 2
  FIFO = 3
  MaxBytes = 4
  MaxSync = 1
PROPERTIES WriterGetsOn
CHECK_DEADLOCK FALSE
