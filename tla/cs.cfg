CONSTANTS
    Cmd = {a, b, f}
    BatchSeparately = {f}
    FetchNodes = {f}
    SeqTagged = {a, b}
    LogoutInResult = {b}
    MAX_COMMANDS = 2
    Chunks = 2
SPECIFICATION FairSpec
INVARIANTS TypeOK AtMostOnce ResultsMatchCommands BatchLimits
PROPERTIES ImplementsCommandQueue EveryCommandAnswered
