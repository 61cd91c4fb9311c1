CONSTANTS
    NRanks = 3
    NodeOf <- TwoAndOne
    FileSizes <- Sizes
    Requests = {0, 3}
SPECIFICATION FairSpec
INVARIANTS RemoteMemoryLives OneSizePerNode AllOrNothing
PROPERTY StoresCreated
