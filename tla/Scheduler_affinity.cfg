SPECIFICATION Spec
CONSTANTS
    NumCores = 2
    Tasks = {t1, t2}
    Pinned = {t1, t2}
    Spawners = {s1}
    Affinity <- MCAffinity
    U64_MAX = 7
    None = None
INVARIANTS
    AffinityRespected
