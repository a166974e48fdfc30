SPECIFICATION FairSpec
CONSTANTS
    None = None
    NULL = NULL
    Entries = {1, 2, 3}
    PostRouting = {1, 2}
    Ips = {1, 6}
    Dst <- DstOf
    Contexts = {"thread"}
    MAXLEN = 2
    Cells = {1, 2, 3, 4, 5, 6}
    Addresses = {1, 2, 3, 4, 5, 6}
    LO = 2
    ME = 3
    SUBNET = 5
    SUBNETMASK = {5, 6}
    Hops = {1, 4}
    Dests = {1}
    MaxSeq = 2
    MaxHandlers = 3
    MaxElapses = 1
INVARIANTS TypeOK HeldOnce NoUseAfterFree TakenInOrder WellLinked FindsRoute KernelMirrors CleanUnload
PROPERTIES FeedsBack ReleasedToRoute UnloadEnds
CHECK_DEADLOCK FALSE
