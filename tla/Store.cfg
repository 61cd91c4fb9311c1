CONSTANTS
    NRanks = 3
    Comms <- Groups
    Paths = {"p"}
    Inos = {1}
    OpenFlags <- Flags
    MaxCalls = 2
    MaxWrites = 1
    MaxRemoves = 1
    UnlinkOpen = FALSE
SPECIFICATION FairSpec
INVARIANTS NoForeignBytes NothingLeftBehind HandlersShareIndex
PROPERTIES CutByRootOnly CallsReturn
