SPECIFICATION Spec
CONSTANTS
    Madt <- MCMadt
    Cores <- MCCores
    BspId = 0
    MAX_CPUS = 4
    Null = Null
    Garbage = Garbage
    LateAnswers = FALSE
    READY_OPERAND = 24
    INDEX_OPERAND = 20
    GDT_DESC_OFFSET = 128
INVARIANTS
    AliveAreCounted
CHECK_DEADLOCK FALSE
