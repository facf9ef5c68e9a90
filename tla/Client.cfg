CONSTANTS
    MaxCalls = 3
    MaxDisconnects = 2
    MaxLosses = 1
SPECIFICATION FairSpec
INVARIANTS
    TypeOK
    ConnectedIsShielded
    ConnectedIsCoherent
    CleanWithoutOverlap
PROPERTY ConnectSettles
CHECK_DEADLOCK FALSE
