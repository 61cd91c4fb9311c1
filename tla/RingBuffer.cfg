CONSTANTS
    Word = 16
    RingSize = 3
    BehindSize = 2
    MaxLsn = 7
    Bytes = {b0, b1}
SPECIFICATION Spec
INVARIANT CapacityRespected
PROPERTY LogUntilOverrun
