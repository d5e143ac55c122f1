CONSTANTS
    Configs <- MCConfigs
    OccTries = 3
    LoadTests = 2
    MaxTime = 6
    MaxTun = 2
    LinkPackets = {"handshake", "PUSH_REPLY", "AUTH_FAILED", "tls_error", "data", "ping", "occ_request", "occ_reply", "mtu_reply", "occ_exit", "bad", "reset"}
    MaxLink = 3
    MaxSignals = 1
    Signals = {"USR2"}
    OptionFiles <- MCOptionFiles
    TunnelParts = {"loop"}
SPECIFICATION MCSpec
INVARIANT TimersServed
CHECK_DEADLOCK FALSE
