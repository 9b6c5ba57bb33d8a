\* A race of two futures, each with a token of its own.
CONSTANTS
    Sources = {f1, f2}
    Size = 2
    Ops = {"race"}
    None = None
SPECIFICATION Spec
CHECK_DEADLOCK FALSE
INVARIANTS
    WinnerGoesOn
