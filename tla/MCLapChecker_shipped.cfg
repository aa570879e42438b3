SPECIFICATION ShippedTrack
CONSTANTS
    EndIndex = 41
    IntBits = 32
    LongBits = 64
INVARIANTS
    ValidLapTouchedHalf
