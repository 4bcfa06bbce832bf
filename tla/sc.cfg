SPECIFICATION MCSpec
CONSTANTS
    Streaming = FALSE
    Kinds = {"u", "n", "m"}
    IsnChoices = {TRUE}
    Batches <- MCBatches
    MaxOps = 2
    MaxBatches = 1
    MaxAborts = 1
    MaxRestarts = 1
    MaxReloads = 1
INVARIANTS TypeOK NothingSkipped ExpectedTagsToCome NoResultLeftBehind SyncsSeeWholeOperations SyncsNeverGoBack
PROPERTIES ResultsInStep ReportedTagsApplied
CHECK_DEADLOCK FALSE
