SPECIFICATION Spec
CONSTANTS
    a = a
    b = b
    c = c
    Nodes = {a, b, c}
    Neigh <- Line3
    Route <- Route3
    Files = {0}
    Frags = {0, 1, 2}
    KVAL = 3
    BUF_SIZE = 1
    U32 = 8
    Stored <- Overlap0
    THRESHOLD = 2
    ActOn = {}
    NET_DIAMETER = 3
    Asks <- AskOff
    MaxAir = 8
    MaxReloads = 1
INVARIANTS
    KDistinct
    CollectionTimed
CHECK_DEADLOCK FALSE
