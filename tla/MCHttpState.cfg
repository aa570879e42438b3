SPECIFICATION HttpSpec
CONSTANTS
    listener = listener
    w1 = w1
    w2 = w2
    short = short
    long = long
    Threads <- AllThreads
    Main <- Nobody
    Listener = listener
    Contents <- TwoContents
    Pieces <- TwoLengths
    Size = 3
    MagicMod = 2
    NULL = NULL
    HOLE = HOLE
SYMMETRY Symmetric
INVARIANTS
    OneOwner
    NoneLost
    AnsweredOnce
    WholeFile
PROPERTIES
    ImplementsAllocator
