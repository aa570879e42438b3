SPECIFICATION Spec
CONSTANTS
    g1 = g1
    g2 = g2
    g3 = g3
    Guids <- TwoPeers
    Size = 2
    HeartTime = 1
    Steps <- TwoSteps
    NONE = NONE
INVARIANTS
    FreeOnce
    SoleRouted
PROPERTIES
    SoleHeartHonest
    QuietServerEmpties
