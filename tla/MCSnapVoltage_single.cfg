CONSTANTS
    PacketsPerFrame = 1
    MaxMissedSets = 2
    NetBufSize = 3
    MmsgLength = 2
    Foreign = {}
    Reordering = FALSE
    Zero = Zero
    Stray = Stray
    None = None
    FirstTime = 1
    LastTime = 7
    MaxFaults = 5
    SockSize = 2
    MaxOut = 2
SPECIFICATION Spec
INVARIANTS WorkBufferBound OutputExact TagsTrue
