SPECIFICATION FairSpec
CONSTANTS
    Fp = {a, b, c}
    UNDEF = UNDEF
    MaxLocal = 2
    MaxCloud = 1
    MaxFails = 1
INVARIANTS TypeOK
PROPERTIES NothingLost LocalChangesStay UnseenVersionsStay RowSettles
CHECK_DEADLOCK FALSE
