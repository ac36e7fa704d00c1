\* Two senders and one receiver; the network loses, duplicates and reorders.
CONSTANTS
    a = a
    b = b
    c = c
    A = A
    B = B
    C = C
    Src = a
    Dst = c
    Hosts <- HostsABC
    Nodes <- NodesABC
    NodeOf <- NodeOfABC
    Flows <- FlowsToC
    SeqLimit = 8
    Window = 2
    StartSeqs <- StartTwo
    Lossy = TRUE
    Duplicating = TRUE
    Reordering = TRUE
    MaxMsgs = 3
    MaxInFlight = 3
SPECIFICATION Spec
INVARIANTS
    InOrder
    NumbersAgree
    BeginsInFirstWindow
CHECK_DEADLOCK FALSE
