CONSTANTS
    IndexSize = 3
    AddCalls <- TwoRings
    DeltaCalls <- OneRing
    RemoveCalls <- EveryExtent
SPECIFICATION IndexSpec
INVARIANT TreesWellFormed
PROPERTIES OperationsImplementMap MergeAssigns
