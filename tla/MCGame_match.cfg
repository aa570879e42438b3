SPECIFICATION Spec
CONSTANTS
    c1 = c1
    c2 = c2
    c3 = c3
    Slots <- ThreeSlots
    TotleTime = 1
    ShowTime = 0
    BalanceTime = 0
    SyncPeriod = 1
    Steps <- OneStep
    MaxStep = 1
    CheckConnection = FALSE
    RestartLimit = 0
SYMMETRY Symmetric
INVARIANTS
    TypeOK
    StillAwaited
    HonestResult
PROPERTIES
    StartNeedsAnswers
    NoInheritedIdentity
    NobodyKeptWaiting
    NoOrphanMatch
    ImplementsMatch
