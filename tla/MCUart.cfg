SPECIFICATION Spec
CONSTANTS
  Procs = {p1, p2}
  Cpus = {c1, c2}
  UART_TX_BUF_SIZE = 2
  FIFO = 3
  MaxBytes = 3
  MaxSync = 1
INVARIANTS TypeOK BytesKept NoOverrun SomeoneSends
CHECK_DEADLOCK FALSE
