CONSTANTS
    NRanks = 2
    RingSize = 3
    MaxOffset = 3
    Writes <- EveryExtent
    TruncSizes <- Sizes_1
    FileSizes <- Sizes_1
    MaxWrites = 2
    MaxCalls = 2
SPECIFICATION Spec
INVARIANTS NoMisdirectedRead Converged
PROPERTY EpochsWhileOnePiece
