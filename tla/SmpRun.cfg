SPECIFICATION FairSpec
CONSTANTS
    b = b
    a1 = a1
    a2 = a2
    Cores = {b, a1, a2}
    Bsp = b
    CpuIndex <- MCCpuIndex
    MAX_CPUS = 4
    Null = Null
    NoMessage = NoMessage
    Tasks = {t1, t2}
    MAX_COUNT = 5
    DelayMs = 2
    MaxTicks = 6
INVARIANTS
    HandlersHaveGsBase
    AllCpusFindsCount
    CalibrationIsExact
PROPERTIES
    IpiAsAsked
    AnnouncedTaskRuns
    HaltsWhenWoken
