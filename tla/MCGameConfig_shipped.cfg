SPECIFICATION ScriptSpec
CONSTANTS
    a = a
    b = b
    Types = 6
    RowLength = 50
    MaxPoints = 128
    MaxIndex = 64
    Positions <- TwoPositions
    NONE = NONE
INVARIANTS
    PositionsAsGiven
CHECK_DEADLOCK FALSE
