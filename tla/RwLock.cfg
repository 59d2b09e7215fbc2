SPECIFICATION FairSpec
CONSTANTS
    Threads = {t1, t2}
    Slots = {s1, s2}
    WRITER_BIT = 3
INVARIANTS
    WriterIsAlone
    NoTornRead
    StateEncodesGuards
PROPERTIES
    ServedWhenOthersStop
    FreeLockIsTaken
CHECK_DEADLOCK FALSE
