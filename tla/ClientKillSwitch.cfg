CONSTANTS
    MaxCalls = 2
    MaxDisconnects = 0
    MaxLosses = 1
SPECIFICATION Spec
PROPERTY KillSwitchHeld
CHECK_DEADLOCK FALSE
