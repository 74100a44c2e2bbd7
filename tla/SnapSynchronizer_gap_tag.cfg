CONSTANTS
    Inputs = {1, 2}
    OnePacket = FALSE
    MaxMissedSets = 1
    FirstTime = 1
    LastStart = 3
    LastTime = 6
    MaxGap = 1
    BufferSize = 3
    MaxOut = 2
    None = None
SPECIFICATION Spec
INVARIANTS OutputsAligned
CHECK_DEADLOCK FALSE
