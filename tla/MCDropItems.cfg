SPECIFICATION BoundedSpec
CONSTANTS
    p1 = p1
    p2 = p2
    Types = 3
    RowLength = 2
    MaxPoints = 1
    MaxIndex = 0
    Positions <- Places
    NONE = NONE
    Players <- TwoPlayers
    Kinds <- TwoKinds
    TypeOf <- ItemType
    Icon = 1
    InitCount <- ItemInit
    MaxCount <- ItemMax
    RefreshTime <- ItemRefresh
    Steps <- OneStep
    MaxRounds = 2
    MaxAlive = 6
    MaxCoins = 1
    MaxGiven = 3
INVARIANTS
    IdsDistinct
    NeverOverfull
    CoinsEarned
    ItemsWhereGiven
PROPERTIES
    LeftoversLast
CHECK_DEADLOCK FALSE
