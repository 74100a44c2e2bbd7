CONSTANTS
    Inputs = {1, 2, 3}
    OnePacket = TRUE
    MaxMissedSets = 1
    FirstTime = 1
    LastStart = 3
    LastTime = 4
    MaxGap = 1
    BufferSize = 2
    MaxOut = 2
    None = None
SPECIFICATION FairSpec
INVARIANTS TypeOK TagsWhenNeeded OutputsAligned EarliestSync
PROPERTIES StreamsSpec Synchronizes AllPassedOn
CHECK_DEADLOCK FALSE
