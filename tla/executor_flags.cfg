SPECIFICATION Spec
CONSTANTS
    Task = {t1, t2}
    Worker = {w1, w2}
    Delays = {0, 2}
    IdleTime = 1
    Flags <- FewerWorkers
INVARIANT PendingHasWorker
