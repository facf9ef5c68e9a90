CONSTANTS
    Threads = {t1, t2}
    NoThread = NoThread
    WindowSize = 3
    MaxSeq = 5
SYMMETRY ThreadSymmetry
SPECIFICATION Spec
INVARIANTS
    TypeOK
    NonceNeverReused
    DeliveredAtMostOnce
    WindowMirrorsHistory
PROPERTY WindowImplementsFilter
CHECK_DEADLOCK FALSE
