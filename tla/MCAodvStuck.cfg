SPECIFICATION FairSpec
CONSTANTS
    a = a
    b = b
    c = c
    Nodes = {a, b}
    Link <- Pair
    Movable <- Pair
    RREQ_RETRIES = 1
    NET_DIAMETER = 3
    QMAX = 1
    Preempt = FALSE
    Sends <- OneToB
    MaxHellos = 1
    MaxExpiries = 0
    MaxMoves = 1
PROPERTY FedBack
CHECK_DEADLOCK FALSE
