\* One flow over a fair lossy network that keeps packets in order.
CONSTANTS
    a = a
    b = b
    c = c
    A = A
    B = B
    C = C
    Src = a
    Dst = b
    Hosts <- HostsAB
    Nodes <- NodesAB
    NodeOf <- NodeOfAB
    Flows <- FlowAB
    SeqLimit = 8
    Window = 2
    StartSeqs <- StartTwo
    Lossy = TRUE
    Duplicating = FALSE
    Reordering = FALSE
    MaxMsgs = 4
    MaxInFlight = 6
SPECIFICATION FairSpec
INVARIANTS
    TypeOK
    InFlightInWindow
PROPERTIES
    ImplementsStream
    AllAcknowledged
CHECK_DEADLOCK FALSE
