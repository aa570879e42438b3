SPECIFICATION Spec
CONSTANTS
    c1 = c1
    c2 = c2
    c3 = c3
    Slots <- TwoSlots
    TotleTime = 2
    ShowTime = 1
    BalanceTime = 3
    SyncPeriod = 1
    Steps <- TwoSteps
    MaxStep = 2
    CheckConnection = TRUE
    RestartLimit = 1
INVARIANTS
    TimeSynced
PROPERTIES
    ScoreShownLongEnough
    MatchEnds
    RankingEnds
    AbandonedServerQuits
\* the process is gone once it has terminated itself
CHECK_DEADLOCK FALSE
