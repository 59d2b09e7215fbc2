SPECIFICATION FairSpec
CONSTANTS
    NumCores = 2
    Tasks = {t1, t2, t3, t4}
    Pinned = {t1, t2, t3}
    Spawners = {s1}
    Affinity <- MCAffinity
    U64_MAX = 7
    None = None
INVARIANTS
    TypeOK
    LenIsExact
    OnePlace
PROPERTIES
    OnlyOwnerTakesFront
    ImplementsTaskPool
    FrontTaskRuns
