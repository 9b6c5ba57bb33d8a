CONSTANTS
    Workers = {w1}
    Clients = {c1, c2}
    Jobs = {j1}
    Capacity = 1
    JobsSubmit = FALSE
    JobsShutDown = FALSE
    None = None
SPECIFICATION Spec
CHECK_DEADLOCK FALSE
INVARIANTS
    ShutdownIsGraceful
