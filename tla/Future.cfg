\* Programs of three futures, made in any order and of any kind.
CONSTANTS
    N = 3
    Pool = 0
    Made = {"promise", "body", "map", "filter", "recover", "transform", "andThen", "flatMap", "recoverWith", "transformWith", "timeout"}
    StagePanics = TRUE
    None = None
SPECIFICATION Spec
CHECK_DEADLOCK FALSE
INVARIANTS
    CancellationSpreads
    CancellationStays
    AnswersItsSource
    DeadlineIsNotACancellation
