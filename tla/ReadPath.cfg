CONSTANTS
    MaxOffset = 5
    LocalTrees <- OwnTrees
    GlobalTrees <- OtherTrees
SPECIFICATION Spec
INVARIANTS HolesExact ReadsRight
PROPERTY LoopsAdvance
