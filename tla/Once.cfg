SPECIFICATION OnceFairSpec
CONSTANTS
    Callers = {t1, t2, t3}
    ClosureSteps = 2
INVARIANTS
    RunsOnce
    CompleteWhenTold
PROPERTIES
    CallReturns
