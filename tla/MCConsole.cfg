SPECIFICATION MCFairSpec
CONSTANTS
    Space = 32
    Half = 16
    BufferSize = 4
    MaxRead = 3
    Starts = {0, 2, 5, 20, 28, 30, 34}
    MaxMore = 8
    Esc = Esc
    QuitKey = QuitKey
    BreakKey = BreakKey
    PlainKeys = {a}
    InputSize = 3
    MaxKeys = 5
CHECK_DEADLOCK FALSE
INVARIANT InputIsFaithful
PROPERTY StreamIsPrinted
PROPERTY SnapshotEnds
