SPECIFICATION FairSpec
CONSTANTS
    Tickets = {t1, t2}
    MaxCloses = 2
    ReopenWindow = 0
    None = None
CHECK_DEADLOCK FALSE
INVARIANTS TimerIsOfPending OpeningReads
PROPERTIES ClosesOnce EveryCloseEnds
