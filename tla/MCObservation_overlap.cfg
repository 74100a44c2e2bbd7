CONSTANTS
    Ids = {i1}
    RaDecs = {r1}
    AzEls = {a2}
    High = {}
    cfreq = TRUE
    Offset = offset
    None = None
    Scans = {s1, s2}
    Handler = handler
    Gui = gui
    Stowed = stowed
    Elsewhere = elsewhere
    Setups <- MCSetups
    MaxActs = 2
    MaxOverlaps = 1
    SetWhileRunning = TRUE
SPECIFICATION Spec
PROPERTIES OnSourceFirst
CHECK_DEADLOCK FALSE
