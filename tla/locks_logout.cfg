SPECIFICATION FairSpec
CONSTANTS
    Streaming = TRUE
    MaxQueue = 1
PROPERTY
    SyncRunReturns
CHECK_DEADLOCK FALSE
