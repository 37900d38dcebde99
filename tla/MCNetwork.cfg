SPECIFICATION Spec
CONSTANTS
  None = None
  Procs = {p1, p2}
  CB_TABLE_SIZE = 1
  BindPorts = {7}
  UsablePorts = {7}
  Peers = {1, 2}
  Senders = {1}
  Writers = {p1}
  TABLE_SIZE = 1
  Gateway = Gateway
  Broadcast = Broadcast
  TX_RING_SIZE = 2
  RX_RING_SIZE = 2
  MaxTx = 3
  MaxRx = 2
INVARIANTS SentInOrder PacketSeen SleepersMustWait AddressedTo ReadInOrder FramesAddressed
CHECK_DEADLOCK FALSE
