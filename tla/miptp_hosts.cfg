\* A file server that may end at any time and two senders of the same node, with
\* packets for the server's port and for port 0, and an array with room for two of
\* the three.
CONSTANTS
    a = a
    b = b
    c = c
    NoApp = NoApp
    Apps <- AppsABC
    Wanted <- WantedABC
    Tries <- TriesABC
    Dst <- DstABC
    Msgs <- MsgsABC
    Leaving = {a}
    PacketPorts = {0, 1}
    Sources <- OneSource
    MaxPackets = 2
    MAX_NODES = 4
    BACKLOG = 2
SPECIFICATION FairSpec
INVARIANTS
    TypeOK
    HandedItsOwn
    OwnPort
    MisledByPortZero
PROPERTIES
    Served
CHECK_DEADLOCK FALSE
