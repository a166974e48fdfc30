SPECIFICATION Spec
CONSTANTS
    a = a
    b = b
    c = c
    Nodes = {a, b, c}
    Link <- Line
    Movable <- FarLink
    RREQ_RETRIES = 0
    NET_DIAMETER = 3
    QMAX = 1
    Preempt = TRUE
    Sends <- OneToC
    MaxHellos = 0
    MaxExpiries = 1
    MaxMoves = 1
INVARIANTS TypeOK OwnRoute ValidNotNewer
CHECK_DEADLOCK FALSE
