SPECIFICATION BoundedSpec
CONSTANTS
    Size = 3
    MagicMod = 3
    NULL = NULL
    MaxFrees = 4
INVARIANTS
    FreeListSound
    CountExact
    MagicCounts
    SlotsReturned
    CascadeAsOne
    NestingBounded
PROPERTIES
    ImplementsAllocator
