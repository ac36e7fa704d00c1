\* One file whose last chunk has one byte.
CONSTANTS
    Senders <- OneSender
    Length <- FiveBytes
    Zeros <- NoZeroBytes
    Late = {}
    ChunkAsSize = {}
    CHUNK = 4
    UINT32 = 64
SPECIFICATION Spec
INVARIANTS
    FileIntact
CHECK_DEADLOCK FALSE
