\* A line of three nodes with traffic both ways; the one between the ends has not
\* heard of its neighbours and finds them with ARP.
CONSTANTS
    A = A
    B = B
    C = C
    NoPath = NoPath
    NoMac = NoMac
    Nodes <- NodesABC
    Links <- LineABC
    Routes <- OnLine
    Traffic <- EndToEnd
    CACHE_TABLE_LEN = 2
    TTL = 3
    TTLs <- DefaultTtl
    Clients = {"miptp"}
    Warm = {A, C}
    Lossy = {}
    Restarting = {}
    MaxMsgs = 2
    MaxBacklog = 0
SPECIFICATION FairSpec
INVARIANTS
    RightNextHop
    QueueAligned
    AllUp
PROPERTIES
    AllDelivered
CHECK_DEADLOCK FALSE
