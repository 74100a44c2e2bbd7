CONSTANTS
    Ids = {i1}
    RaDecs = {}
    AzEls = {a2}
    High = {}
    cfreq = TRUE
    Offset = offset
    None = None
    Scans = {s1}
    Handler = handler
    Gui = gui
    Stowed = stowed
    Elsewhere = elsewhere
    Setups <- MCSetups
    MaxActs = 3
    MaxOverlaps = 1
    SetWhileRunning = FALSE
SPECIFICATION FairSpec
INVARIANTS TypeOK TunedBeforePointing Settles
PROPERTIES CalmCommands CalmScanCompletes
CHECK_DEADLOCK FALSE
