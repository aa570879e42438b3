SPECIFICATION Spec
CONSTANTS
    EndIndex = 4
    IntBits = 4
    LongBits = 6
INVARIANTS
    TagIsThisLap
    ValidLapTouchedHalf
    InvalidLapMissedHalf
    DirectionFromThisLap
