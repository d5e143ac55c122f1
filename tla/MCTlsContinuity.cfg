CONSTANTS
  TlsClient = TlsClient
  TlsServer = TlsServer
  KeyIdLimit = 3
  Scenarios <- Continuity
  LongForm = TRUE
  SeqBacktrack = 2
  TimeBacktrack = 1
  ReapInterval = 1
  IdLimit = 4
  MaxNow = 4
  Parts = {"tls"}
SPECIFICATION MCSpec
PROPERTY RenegOffCriticalPath
CHECK_DEADLOCK FALSE
