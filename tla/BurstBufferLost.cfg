CONSTANTS
    NRanks = 2
    RingSize = 3
    MaxOffset = 3
    Writes <- EveryExtent
    TruncSizes <- Sizes_None
    FileSizes <- Sizes_1
    MaxWrites = 2
    MaxCalls = 2
SPECIFICATION Spec
INVARIANT SyncPublishes
