CONSTANTS
  Threads <- MCThreads
  t1 = t1
  t2 = t2
  h1 = h1
  h2 = h2
  Loads <- MCLoads
  Addresses = {1, 2}
  DhcpAddr = 3
  Handles <- MCHandles
  PACKET_QUEUE_SIZE = 1
  IRP_QUEUE_SIZE = 2
  BAD_DHCPREQUEST_NAK_THRESHOLD = 1
  OptionLens = {200}
  MaxPackets = 2
  MaxReads = 3
  MaxOpens = 2
  DevProcs = {p1, p2, p3}
  Units = {1, 2}
  DevPlatforms = {"linux", "bsd", "openbsd", "solaris", "windows"}
  DevConfigs <- MCDevConfigs
  MaxLives = 1
  MaxArrivals = 3
  MaxFaults = 2
  ConfigFiles = {"a", "b"}
  Procs = {1, 2}
  MaxServices = 2
  MaxProcRestarts = 1
  MaxFails = 1
SPECIFICATION MCSpec
INVARIANTS
  
  IoInv
  ServiceInv
  
CHECK_DEADLOCK FALSE
