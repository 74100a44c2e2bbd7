CONSTANTS
    MaxAntennas = 4
    MaxChannels = 3
    MaxBlocks = 3
    TemplateBaselines = 3
    None = none
SPECIFICATION Spec
INVARIANTS TypeOK EveryBlockOnce RowsLabelled PhasedByOwn
CHECK_DEADLOCK FALSE
