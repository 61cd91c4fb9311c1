CONSTANTS
    SparseExtents <- MCSparseExtents
    Objects = {o1, o2}
    Fds = {0, 1, 2}
    Payload <- MCPayload
    Offsets = {0, 1}
    MaxFile = 3
    Indices <- MCIndices
    Worlds <- MCWorlds
    WordMod = 256
    BlockSize = 2
    IntraRank = 1
    WordLimit = 65536
    Inputs <- MCInputs
    MaxInputs = 3
    Collectors = 2
    Samples = {0, 1, 5}
    MaxSamples = 3
    Cpus = {p1, p2}
    CyclesPerMs = {1, 2, 7}
    Measurements = 4
    TicksPerUnit = 3
    MaxTime = 5
    MaxLaps = 3
    Items <- MCItems
    Options <- MCOptions
    Holders = {h1, h2, h3}
    MaxHandles = 2
    LocalThreads = {t1, t2}
    LocalValues = {1, 2}
    DefaultValue = 0
    MaxHeap = 3
    Texts <- MCTexts
    SizeLimit = 64
    MaxScopes = 3
    WordBits = 7
    UnitExponent = 1
    MaxWhole = 7
    InitialSize = 2
SPECIFICATION Spec
SYMMETRY Symmetry
INVARIANTS
    SlicesExact
    OwnedOnce
    HandlesOwned
    ArchivesComeBack
    DurableInOwnBlock
    NumbersExact
    MeasurementsSound
    RoundTrips
    ShortRefused
    OwnersFinalise
    ReadsWhole
PROPERTIES
    TransfersInPlace
CHECK_DEADLOCK FALSE
