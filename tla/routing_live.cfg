\* A line of three nodes over fair lossy links: the tables converge.
CONSTANTS
    A = A
    B = B
    C = C
    D = D
    Nodes <- NodesABC
    Links <- LinksLine
    MAX_DISTANCE = 5
    Lossy <- LinksLine
    Expiring = {}
    Restarting = {}
    MaxBacklog = 0
    MaxInFlight = 9
    MaxHops = 4
SPECIFICATION FairSpec
INVARIANTS
    AllUp
PROPERTIES
    ConvergesOnLine
CHECK_DEADLOCK FALSE
