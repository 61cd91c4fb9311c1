CONSTANTS
    NRanks = 2
    Inos = {1}
    RingSize = 3
    MaxWrites = 1
    MaxCrashes = 2
    MaxTorn = 2
SPECIFICATION Spec
INVARIANT BytesIntact
PROPERTY LoadRestores
CHECK_DEADLOCK FALSE
