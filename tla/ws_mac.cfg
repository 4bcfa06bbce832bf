CONSTANTS
    short = short
    exact = exact
    Files = {short, exact}
    Conns = {c1, c2}
    N <- MCN
    ShortTail = {short}
    MaxUploads = 1
    MaxChunkRetries = 1
    ReCompletes = TRUE
    MayFill = FALSE
    NoFile = NoFile
    MaxFaults = 1
SPECIFICATION Spec
INVARIANTS KeyCoversFile
CHECK_DEADLOCK FALSE
