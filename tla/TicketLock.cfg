SPECIFICATION FairSpec
CONSTANTS
    Threads = {t1, t2, t3}
    MaxTicket = 3
INVARIANTS
    TypeOK
    MutualExclusion
    NoLostUpdate
    IsLockedFalseIsTrue
PROPERTIES
    ImplementsFifoMutex
    NoStarvation
CHECK_DEADLOCK FALSE
