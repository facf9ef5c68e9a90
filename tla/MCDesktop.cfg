SPECIFICATION Spec
CONSTANTS
    l1 = l1
    l2 = l2
    r1 = r1
    browser = browser
    LocalAddrs = {l1}
    RemoteAddrs = {}
    Nowhere = Nowhere
    MaxRequests = 3
    MaxLosses = 1
    MaxProfiles = 2
    MaxLaunches = 2
    MaxFaults = 1
    Apps <- MCApps
    Asked <- MCAsked
    TTL = 2
    MaxServed = 3
INVARIANTS
    TypeOK
    NothingOrphaned
    OneEmbeddedServer
    DevicesKept
    PeersKept
    ListingSettles
CHECK_DEADLOCK FALSE
