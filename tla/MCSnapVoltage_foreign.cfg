CONSTANTS
    PacketsPerFrame = 2
    MaxMissedSets = 1
    NetBufSize = 3
    MmsgLength = 2
    Foreign = {2}
    Reordering = FALSE
    Zero = Zero
    Stray = Stray
    None = None
    FirstTime = 1
    LastTime = 2
    MaxFaults = 1
    SockSize = 2
    MaxOut = 2
SPECIFICATION Spec
INVARIANTS OnlyConfiguredChannels
