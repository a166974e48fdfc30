SPECIFICATION Spec
CONSTANTS
    SMP = TRUE
    Routing = TRUE
    ThreadFirst = FALSE
    Unload = TRUE
    AmpleWait = FALSE
    Delay <- ShortWait
    MaxPackets = 2
    MaxTime = 3
INVARIANTS
    TypeOK
    InOrder
    FreedOnce
    Armed
CHECK_DEADLOCK FALSE
