CONSTANTS
    a1 = a1
    a2 = a2
    a3 = a3
    x1 = x1
    x2 = x2
    Attempts = {a1, a2, a3}
    Addrs = {x1, x2}
    EnableStealth = TRUE
    Peers = {a1, a2}
    NewPeers = {a3}
    FirstHost = 1
    LastHost = 3
    ServerHost = 1
    NoLease = NoLease
    NoPreference = NoPreference
    NoSession = NoSession
    MaxHandshakes = 3
    MaxTasks = 1
SPECIFICATION FairSpec
INVARIANTS
    TypeOK
    TablesAgree
    AddrsAreLive
    StopClosesEverything
PROPERTIES
    VipIsStable
    TablesImplementLeases
    GoneIsForgotten
CHECK_DEADLOCK FALSE
