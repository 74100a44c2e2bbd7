CONSTANTS
    Ids = {i1}
    RaDecs = {r1}
    AzEls = {a1}
    High = {a1}
    cfreq = TRUE
    Offset = offset
    None = None
    Scans = {s1}
    Handler = handler
    Gui = gui
    Stowed = stowed
    Elsewhere = elsewhere
    Setups <- MCSetups
    MaxActs = 3
    MaxOverlaps = 0
    SetWhileRunning = FALSE
SPECIFICATION Spec
PROPERTIES StartsOnSource
CHECK_DEADLOCK FALSE
