CONSTANTS
    MaxCalls = 2
    MaxDisconnects = 2
    MaxLosses = 0
SPECIFICATION Spec
INVARIANT DisconnectCleansUp
CHECK_DEADLOCK FALSE
