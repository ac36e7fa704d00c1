\* The first packet of a stream is lost and the second one gets through.
CONSTANTS
    a = a
    b = b
    c = c
    A = A
    B = B
    C = C
    Src = a
    Dst = b
    Hosts <- HostsAB
    Nodes <- NodesAB
    NodeOf <- NodeOfAB
    Flows <- FlowAB
    SeqLimit = 8
    Window = 2
    StartSeqs <- StartZero
    Lossy = TRUE
    Duplicating = FALSE
    Reordering = FALSE
    MaxMsgs = 2
    MaxInFlight = 2
SPECIFICATION Spec
INVARIANTS
    Reliable
CHECK_DEADLOCK FALSE
