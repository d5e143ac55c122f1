CONSTANTS
  Client = Client
  Server = Server
  Data = {d1, d2}
  NSend = 2
  NRec = 2
  AckSize = 2
  AckMax = 1
  ClientPackets = 3
  ServerPackets = 1
  MaxNet = 2
  MaxPackets <- MCMaxPackets
SYMMETRY DataSymmetry
SPECIFICATION Spec
INVARIANTS
  TypeOK
  InOrderDelivery
  NoLoss
  NoReceiveDeadlock
PROPERTY FifoSpec
CHECK_DEADLOCK FALSE
