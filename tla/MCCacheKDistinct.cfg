SPECIFICATION Spec
CONSTANTS
    a = a
    b = b
    c = c
    Nodes = {a, b, c}
    Neigh <- Line3
    Route <- Route3
    Files = {1}
    Frags = {1, 2, 3}
    KVAL = 3
    BUF_SIZE = 2
    U32 = 8
    Stored <- Apart3
    THRESHOLD = 2
    ActOn = {a, b, c}
    NET_DIAMETER = 3
    Asks <- Ask3B
    MaxAir = 0
    MaxReloads = 0
INVARIANT
    KDistinct
CHECK_DEADLOCK FALSE
