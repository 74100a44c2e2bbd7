CONSTANTS
    PacketsPerFrame = 2
    MaxMissedSets = 1
    NetBufSize = 3
    MmsgLength = 2
    Foreign = {2}
    Reordering = TRUE
    Zero = Zero
    Stray = Stray
    None = None
    FirstTime = 1
    LastTime = 3
    MaxFaults = 2
    SockSize = 2
    MaxOut = 2
SPECIFICATION Spec
INVARIANTS TypeOK PopSafe TagsLockstep SyncHeaderFirst FrameCoherent
