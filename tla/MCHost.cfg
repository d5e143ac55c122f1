CONSTANTS
  LongForm = TRUE
  SeqBacktrack = 0
  TimeBacktrack = 0
  ReapInterval = 2
  IdLimit = 4
  MaxNow = 3
  MaxRestarts = 2
  MaxCrashes = 1
  NSeqId = 4
  NFragBuf = 2
  MaxFrags = 3
  BufSize = 16
  Lens = {4, 7, 16}
  Payloads = {5}
  Starts = {0, 3}
  MaxLag = 4
  MaxDgrams = 5
  MaxSizes = 160
  Lower <- MCLower
  Upper <- MCUpper
  Endpoint = vpn
  OnLink = onlink
  NoAddr = none
  vpn_gateway = vpn_gateway
  net_gateway = net_gateway
  remote_host = remote_host
  Tables <- MCTables
  OptionLists <- MCOptionLists
  Remotes = {11, 12}
  OtherGateway = 2
  RoutePlatforms = {"linux", "bsd", "windows"}
  MAX_ROUTES = 3
  MaxFailures = 1
  MaxEdits = 1
  MaxSessions = 2
  Fds = {0, 2}
  EventMethods = {"we", "ep", "po", "se"}
  EventLimits = {3, 4}
  MaxEvents = {1, 2}
  OutLens = {1, 4}
  MaxReuse = 1
  Plugins <- MCPlugins
  Clients = {"ann", "bob"}
  MaxCalls = 4
  MaxPluginFails = 1
  Entries = {"a", "b", "c"}
  Times = {1, 2, 3}
  Sigma = 1
  MaxPri = 2
  MaxOps = 6
  NoEntry = "null"
  HashKeys = {"a", "b", "c", "d"}
  HashValues = {"x", "y"}
  HashOf <- MCHashOf
  NHashBuckets = 2
  NoElem = "nil"
SPECIFICATION MCSpec
INVARIANTS
  
  FragInv
  TreeInv
  HashInv
  
  
  
PROPERTY RefinesQueue
CHECK_DEADLOCK FALSE
