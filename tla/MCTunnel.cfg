CONSTANTS
    Configs <- MCConfigs
    OccTries = 3
    LoadTests = 2
    MaxTime = 6
    MaxTun = 2
    LinkPackets = {"handshake", "PUSH_REPLY", "AUTH_FAILED", "tls_error", "data", "ping", "occ_request", "occ_reply", "mtu_reply", "occ_exit", "bad", "reset"}
    MaxLink = 3
    MaxSignals = 1
    Signals = {"TERM", "USR1"}
    OptionFiles <- MCOptionFiles
    TunnelParts = {"loop", "options"}
SPECIFICATION MCSpec
INVARIANTS
  
  OptionsInv
 
CHECK_DEADLOCK FALSE
