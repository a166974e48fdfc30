SPECIFICATION Spec
CONSTANTS
    SMP = FALSE
    Routing = FALSE
    ThreadFirst = TRUE
    Unload = TRUE
    AmpleWait = TRUE
    Delay <- ShortWait
    MaxPackets = 1
    MaxTime = 4
INVARIANT
    DeadBeforeCleanup
CHECK_DEADLOCK FALSE
