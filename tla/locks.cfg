SPECIFICATION MCSpec
CONSTANTS
    Streaming = FALSE
    MaxQueue = 1
INVARIANTS
    TypeOK
    NoCircularWait
    QueuedStopsPass
    NoPassDuringReload
    NoLockWithoutMessage
PROPERTY
    SyncRunMeetsItsThread
CHECK_DEADLOCK FALSE
