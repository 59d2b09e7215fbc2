SPECIFICATION FairSpec
CONSTANTS
    Madt <- MCMadt
    Cores <- MCCores
    BspId = 0
    MAX_CPUS = 4
    Null = Null
    Garbage = Garbage
    LateAnswers = FALSE
    READY_OPERAND = 28
    INDEX_OPERAND = 24
    GDT_DESC_OFFSET = 160
INVARIANTS
    AliveAreCounted
    StackIsOwn
PROPERTIES
    CountsMeet
CHECK_DEADLOCK FALSE
