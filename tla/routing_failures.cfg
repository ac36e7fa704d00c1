\* A line of four nodes; the neighbours of B fall silent and come back, the
\* routing daemon of D is started again, and D loses what it sends.
CONSTANTS
    A = A
    B = B
    C = C
    D = D
    Nodes <- NodesABCD
    Links <- LinksLineD
    MAX_DISTANCE = 4
    Lossy <- FromD
    Expiring = {B}
    Restarting = {D}
    MaxBacklog = 0
    MaxInFlight = 0
    MaxHops = 4
SPECIFICATION Spec
INVARIANTS
    TypeOK
    LoopFree
    NextHopsCached
PROPERTIES
    NoBrokenNextHop
CHECK_DEADLOCK FALSE
