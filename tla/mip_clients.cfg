\* A routing daemon that may end, and a ping client and a ping server in one slot.
CONSTANTS
    r = r
    c = c
    v = v
    None = None
    Programs <- ThreePrograms
    Kind <- KindOfThree
    Leaving = {r}
    FrameSlots = {2, 3}
    MaxFrames = 1
    MaxMsgs = 1
    BACKLOG = 2
SPECIFICATION FairSpec
INVARIANTS
    TypeOK
    LatestInSlot
    MessagesKept
PROPERTIES
    Attended
    LossNeedsTwo
CHECK_DEADLOCK FALSE
