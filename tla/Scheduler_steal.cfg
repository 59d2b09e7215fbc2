SPECIFICATION StealSpec
CONSTANTS
    NumCores = 3
    Thief = 1
    Tasks = {t1, t2, t3, t4}
    Spawners = {s1}
    Affinity <- MCAffinity
    U64_MAX = 7
    None = None
SYMMETRY TaskSymmetry
CONSTRAINT NobodyIsParked
PROPERTIES
    ThievesFindWork
