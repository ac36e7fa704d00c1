\* The routing daemon of B knows no path to C.
CONSTANTS
    A = A
    B = B
    C = C
    NoPath = NoPath
    NoMac = NoMac
    Nodes <- NodesABC
    Links <- LineABC
    Routes <- CUnknown
    Traffic <- FromB
    CACHE_TABLE_LEN = 4
    TTL = 3
    TTLs <- DefaultTtl
    Clients = {"miptp"}
    Warm = {A, B, C}
    Lossy = {}
    Restarting = {}
    MaxMsgs = 2
    MaxBacklog = 0
SPECIFICATION Spec
INVARIANTS
    RightNextHop
CHECK_DEADLOCK FALSE
