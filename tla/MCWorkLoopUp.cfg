SPECIFICATION FairSpec
CONSTANTS
    SMP = FALSE
    Routing = TRUE
    ThreadFirst = TRUE
    Unload = FALSE
    AmpleWait = FALSE
    Delay <- LongWait
    MaxPackets = 2
    MaxTime = 3
INVARIANT
    AddNotPending
PROPERTY
    TimersFire
CHECK_DEADLOCK FALSE
