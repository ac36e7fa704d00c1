\* A routing loop between A and B, caches that are too small, frames that are lost
\* and a routing daemon that ends and is started again.
CONSTANTS
    A = A
    B = B
    C = C
    NoPath = NoPath
    NoMac = NoMac
    Nodes <- NodesABC
    Links <- LineABC
    Routes <- InLoop
    Traffic <- EndToEnd
    CACHE_TABLE_LEN = 2
    TTL = 3
    TTLs <- SomeTtls
    Clients = {"miptp"}
    Warm = {A, B, C}
    Lossy <- FromA
    Restarting = {B}
    MaxMsgs = 2
    MaxBacklog = 0
SPECIFICATION Spec
INVARIANTS
    TypeOK
    HopsBounded
    AnswersFindPackets
CHECK_DEADLOCK FALSE
