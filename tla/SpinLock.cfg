SPECIFICATION Spec
CONSTANTS
    Cpus = {c1, c2}
    Locks = {1, 2}
    LifoDrops = TRUE
SYMMETRY CpuSymmetry
INVARIANTS
    TypeOK
    GuardExclusive
    InterruptsOffWhileHeld
    NoSelfDeadlock
    PreviousStateRestored
