SPECIFICATION Spec
CONSTANTS
    c1 = c1
    c2 = c2
    c3 = c3
    Slots <- TwoSlots
    TotleTime = 5
    ShowTime = 1
    BalanceTime = 1
    SyncPeriod = 1
    Steps <- OneStep
    MaxStep = 1
    CheckConnection = FALSE
    RestartLimit = 0
INVARIANTS
    BalanceTimeHonest
