CONSTANTS
    Threads = {t1, t2, t3}
    NoThread = nothread
SPECIFICATION FairSpec
INVARIANTS TypeOK ResourcesHeld RestartedIsDeaf CleansUp
PROPERTIES StopReturns TerminatesFailedOnly
CHECK_DEADLOCK FALSE
