CONSTANTS
    N = 3
    Pool = 0
    Made = {"promise", "flatMap", "timeout"}
    StagePanics = FALSE
    None = None
SPECIFICATION MCSpec
CHECK_DEADLOCK FALSE
PROPERTIES
    FuturesComplete
    DeadlineIsKept
