\* Every array of up to three of two futures, which may occur twice and may
\* share their tokens in every way.
CONSTANTS
    Sources = {f1, f2}
    Size = 3
    Ops = {"sequence", "firstCompletedOf", "race"}
    None = None
SPECIFICATION FairSpec
CHECK_DEADLOCK FALSE
INVARIANTS
    AnswerIsRight
PROPERTIES
    GroupEnds
