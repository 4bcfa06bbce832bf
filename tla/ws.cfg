CONSTANTS
    short = short
    exact = exact
    Files = {short, exact}
    Conns = {c1, c2}
    N <- MCN
    ShortTail = {short}
    MaxUploads = 1
    MaxChunkRetries = 1
    ReCompletes = TRUE
    MayFill = TRUE
    NoFile = NoFile
    MaxFaults = 1
SPECIFICATION FairSpec
INVARIANTS InFlightCounted CurrentIsBound NoRecordOutlivesItsFile CreditIsHeld AckedMacKept
PROPERTIES SendsWhileUploading RangesStayCovered UploadEnds
CHECK_DEADLOCK FALSE
