SPECIFICATION FairSpec
CONSTANTS
    a = a
    b = b
    c = c
    Nodes = {a, b, c}
    Link <- Line
    Movable <- NoLinks
    RREQ_RETRIES = 0
    NET_DIAMETER = 3
    QMAX = 2
    Preempt = FALSE
    Sends <- TwoToC
    MaxHellos = 1
    MaxExpiries = 0
    MaxMoves = 0
PROPERTY FedBack
CHECK_DEADLOCK FALSE
