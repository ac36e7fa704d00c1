\* Three senders whose messages reach the server in any order.
CONSTANTS
    Senders <- SendersOfTwo
    Length <- Lengths
    Zeros <- ZeroBytes
    Late <- LateSenders
    ChunkAsSize = {0, 1, 60}
    CHUNK = 4
    UINT32 = 64
SPECIFICATION FairSpec
INVARIANTS
    TypeOK
    CompleteFiles
    NoWriteAfterClose
    NoUnderflow
PROPERTIES
    Completed
CHECK_DEADLOCK FALSE
