SPECIFICATION Spec
CONSTANTS
    p1 = p1
    p2 = p2
    p3 = p3
    p4 = p4
    Pids <- FourPids
    AsDaemon = TRUE
INVARIANTS
    OneServer
PROPERTIES
    ServerComesBack
