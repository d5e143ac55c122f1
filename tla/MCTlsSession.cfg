CONSTANTS
  TlsClient = TlsClient
  TlsServer = TlsServer
  KeyIdLimit = 3
  Scenarios <- Safety
  LongForm = TRUE
  SeqBacktrack = 2
  TimeBacktrack = 1
  ReapInterval = 1
  IdLimit = 4
  MaxNow = 4
  Parts = {"tls", "packet_id"}
SPECIFICATION MCSpec
INVARIANTS
  KeysSound
  KeyAgreement
  TypeOK
  AcceptOnce
  WindowInv
PROPERTY SingleSessionKept
CHECK_DEADLOCK FALSE
