CONSTANTS
  h0 = h0
  h1 = h1
  h2 = h2
  h3 = h3
  h4 = h4
  wide = wide
  narrow = narrow
  alice = alice
  bob = bob
  carol = carol
  r1 = r1
  r2 = r2
  c1 = c1
  c2 = c2
  None = None
  Client = {c1, c2}
  NIL = NIL
  QueueLimit = 1
  CtlBudget = 1
  MaxEvents = 2
  TcpOptions <- MCTcpOptions
  Protos = {"udp", "tcp", "verify"}
  CertNames = {"ann", "bob"}
  UserNames = {"bob", "cid"}
  VerifyOptions <- MCVerifyOptions
  Nobody = Nobody
  MaxHandshakes = 3
  Cell = {1, 2, 3}
  PoolSize = 2
  PoolAddr <- MCPoolAddr
  Host <- MCHost
  Net <- MCNet
  NetBits <- MCNetBits
  InNet <- MCInNet
  Local = h0
  Bucket <- MCBucket
  NBuckets = 2
  MbufCapacity = 1
  Scenarios <- Safety
SYMMETRY Symmetry
SPECIFICATION MCSpec
INVARIANTS
  MultiInv
  AddressInv
  TcpInv
  VerifyInv
PROPERTY KeepsAddress
CHECK_DEADLOCK FALSE
