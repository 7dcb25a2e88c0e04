SPECIFICATION Spec
CONSTANTS
    None = None
    ReopenWindow = 0
    Tickets = {t1}
    Clients = {c1}
    Staff = {s1, s2}
    Messages = {m1}
    Ratings = {five}
    ApiSlots = {a1, a2}
    Bot = bot
    MaxTime = 1
    MaxCommits = 5
SYMMETRY Symmetry
CHECK_DEADLOCK FALSE
INVARIANTS SnapshotHolds HistoryTellsStatus ReactedOnce
PROPERTIES AssigneeKept ClientIsHeard MessageIsUnread ImplementsContract
