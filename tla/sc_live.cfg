SPECIFICATION FairSpec
CONSTANTS
    Streaming = TRUE
    Kinds = {"u"}
    IsnChoices = {TRUE}
    Batches <- MCBatches
    MaxOps = 2
    MaxBatches = 1
    MaxAborts = 1
    MaxRestarts = 1
    MaxReloads = 1
PROPERTIES ResultsDelivered CatchesUp
CHECK_DEADLOCK FALSE
