CONSTANTS
  Entries <- MCEntries
  Proxy <- MCProxy
  Ips <- MCIps
  Strangers <- MCStrangers
  LinkOptions <- MCLinkOptions
  Infinite = 1000
  MaxLen = 7
  Slack = 2
  Packets <- MCPackets
  MaxSent = 4
  ManOptions <- MCManOptions
  Commands <- MCCommands
  MaxOut = 2
  N_PASSWORD_RETRIES = 3
  Opts <- MCOpts
  Replies = {"a", "b"}
  MaxAsync = 2
  MaxSoft = 2
SPECIFICATION MCSpec
INVARIANTS
  CtxInv
  
  StreamInv
  ManInv
PROPERTIES
  
  Rotates
  StreamIsFifo
