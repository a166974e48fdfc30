SPECIFICATION FairSpec
CONSTANTS
    SMP = FALSE
    Routing = FALSE
    ThreadFirst = TRUE
    Unload = FALSE
    AmpleWait = FALSE
    Delay <- ShortWait
    MaxPackets = 1
    MaxTime = 4
PROPERTY
    CleanUpHandled
CHECK_DEADLOCK FALSE
