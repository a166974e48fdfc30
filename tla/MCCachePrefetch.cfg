SPECIFICATION Spec
CONSTANTS
    a = a
    b = b
    c = c
    Nodes = {a, b, c}
    Neigh <- Line3
    Route <- Route3
    Files = {0}
    Frags = {0, 1, 2}
    KVAL = 3
    BUF_SIZE = 1
    U32 = 8
    Stored <- Apart0
    THRESHOLD = 2
    ActOn = {a, b, c}
    NET_DIAMETER = 6
    Asks <- Ask0
    MaxAir = 8
    MaxReloads = 0
INVARIANTS
    TypeOK
    PrefetchBudget
    AnsweredOnce
PROPERTY
    TablesRefine
    RetrievalsWhole
CHECK_DEADLOCK FALSE
