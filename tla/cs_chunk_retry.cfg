CONSTANTS
    Cmd = {f}
    BatchSeparately = {f}
    FetchNodes = {f}
    SeqTagged = {}
    LogoutInResult = {}
    MAX_COMMANDS = 2
    Chunks = 2
SPECIFICATION Spec
INVARIANT RetriesAreNeutral
