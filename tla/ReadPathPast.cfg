CONSTANTS
    MaxOffset = 5
    LocalTrees <- OwnTrees
    GlobalTrees <- OtherTrees
SPECIFICATION Spec
INVARIANT FillReturns
