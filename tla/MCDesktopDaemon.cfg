SPECIFICATION Spec
CONSTANTS
    l1 = l1
    l2 = l2
    r1 = r1
    browser = browser
    LocalAddrs = {l1, l2}
    RemoteAddrs = {r1}
    Nowhere = Nowhere
    MaxRequests = 2
    MaxLosses = 0
    MaxProfiles = 0
    MaxLaunches = 1
    MaxFaults = 0
    Apps <- MCApps
    Asked <- MCAsked
    TTL = 2
    MaxServed = 2
INVARIANTS
    ServedWhenAnswered
CHECK_DEADLOCK FALSE
