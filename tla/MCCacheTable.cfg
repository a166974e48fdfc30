SPECIFICATION Spec
CONSTANTS
    Files = {1, 2, 3}
    Frags = {1, 2}
    KVAL = 3
    BUF_SIZE = 4
    U32 = 7
    Stored <- MCStored
INVARIANTS
    TypeOK
    Capacity
    ServiceCenterKept
    BelowK
    ScoreFits
    BidHonoured
