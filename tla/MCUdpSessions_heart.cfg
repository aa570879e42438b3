SPECIFICATION Spec
CONSTANTS
    g1 = g1
    g2 = g2
    g3 = g3
    Guids <- TwoPeers
    Size = 2
    HeartTime = 2
    Steps <- OneStep
    NONE = NONE
PROPERTIES
    HeartHonest
