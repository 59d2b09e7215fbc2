SPECIFICATION Spec
CONSTANTS
    Tasks = {t0, t1, t2}
    Boot = t0
    OperandRegs = {"rcx", "rsi"}
    MaxWork = 2
    InWindow = FALSE
INVARIANTS
    ResumesAsSuspended
    NeverLost
