SPECIFICATION FairSpec
CONSTANTS
    Task = {t1, t2}
    Worker = {w1, w2}
    Delays = {0, 2}
    IdleTime = 1
    Flags <- TwoWorkers
INVARIANTS
    AvailableAreIdle
    CalledOnce
    WakesInTime
PROPERTIES
    EveryTaskIsCalled
    DestructorReturns
