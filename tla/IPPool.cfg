CONSTANTS
    Sessions = {s1, s2, s3, s4, s5}
    FirstHost = 1
    LastHost = 5
    ServerHost = 2
    NoLease = NoLease
    NoPreference = NoPreference
SPECIFICATION Spec
INVARIANTS
    TypeOK
    LookupIsUnique
    RefusedOnlyWhenFull
PROPERTY PoolImplementsLeases
