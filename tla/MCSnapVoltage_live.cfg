CONSTANTS
    PacketsPerFrame = 2
    MaxMissedSets = 4
    NetBufSize = 4
    MmsgLength = 2
    Foreign = {}
    Reordering = FALSE
    Zero = Zero
    Stray = Stray
    None = None
    FirstTime = 1
    LastTime = 4
    MaxFaults = 6
    SockSize = 2
    MaxOut = 2
SPECIFICATION FairSpec
INVARIANTS MissedLedger
PROPERTIES StreamSpec PacketsDelivered
