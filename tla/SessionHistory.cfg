SPECIFICATION HistorySpec
CONSTANTS
    Task = {t1, t2}
    KeepRecent = 2
    MaxMessages = 5
    MaxMarkers = 3
INVARIANTS LiveForgetsNothing NothingForgotten LiveIsReload
CHECK_DEADLOCK FALSE
SYMMETRY Symmetry
