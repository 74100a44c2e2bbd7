CONSTANTS
    PacketsPerFrame = 2
    MaxMissedSets = 1
    NetBufSize = 5
    MmsgLength = 1
    Foreign = {2}
    Reordering = FALSE
    Zero = zero
    Stray = stray
    None = none
    FirstTime = 1
    LastTime = 6
    MaxFaults = 0
    SockSize = 0
    MaxOut = 3
    Files <- MCFiles
    Other = other
    MinQueue = 2
    ReloadSize = 3
    MaxRepeats = 1
SPECIFICATION FairPlaybackSpec
INVARIANTS PlaybackTypeOK NothingOverwritten WholeFileTaken TailBound PlayedExactly WrapsAround
PROPERTIES PlaybackEnds
CHECK_DEADLOCK FALSE
