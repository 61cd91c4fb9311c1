CONSTANTS
    NRanks = 4
    Placements <- EvenBlocks
    MapSize = 4
    Slots <- Two
SPECIFICATION BlocksSpec
INVARIANT TablesRight
PROPERTIES FlushCompletes ImplementsAsyncReads
