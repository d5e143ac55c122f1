CONSTANTS
  Client = Client
  Server = Server
  Data = {d1}
  NSend = 2
  NRec = 2
  AckSize = 2
  AckMax = 1
  MaxNet = 20
  MaxPackets <- MCMaxPackets
  TlsClient = TlsClient
  TlsServer = TlsServer
  KeyIdLimit = 3
  Scenarios <- Liveness
SPECIFICATION MCSpec
PROPERTIES
  EventuallyDelivered
  Converges
CHECK_DEADLOCK FALSE
