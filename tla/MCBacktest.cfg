SPECIFICATION Spec
CONSTANTS
    Closes = {0, 1, 2, 4}
    ShortWindow = 1
    LongWindow = 2
    AllowShort = TRUE
    Keep <- MCKeep
    MaxRows = 5
    MaxLate = 1
INVARIANTS
    CleanIsLatest
    NoLookahead
    TradesReconcile
    DrawdownIsWorstFall
    LossesAddUp
CHECK_DEADLOCK FALSE
