SPECIFICATION Spec
CONSTANTS
    Streaming = TRUE
    Kinds = {"m"}
    IsnChoices = {TRUE}
    Batches <- NoBatches
    MaxOps = 1
    MaxBatches = 1
    MaxAborts = 2
    MaxRestarts = 0
    MaxReloads = 0
INVARIANTS NothingSkipped
CHECK_DEADLOCK FALSE
