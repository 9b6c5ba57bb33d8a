\* Two workers and a channel of one slot, fewer than the code's n * 10, so that
\* five jobs fill the pool: two run and submit two more while the slot is taken.
\* Two clients, so that one may be inside Execute while the other shuts it down.
CONSTANTS
    Workers = {w1, w2}
    Clients = {c1, c2}
    Jobs = {j1, j2, j3, j4, j5}
    Capacity = 1
    JobsSubmit = TRUE
    JobsShutDown = FALSE
    None = None
SPECIFICATION FairSpec
CHECK_DEADLOCK FALSE
INVARIANTS
    RunsOnce
    ShutdownIsFinal
PROPERTIES
    CallsReturn
