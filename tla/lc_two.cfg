SPECIFICATION Spec
CONSTANTS
    None = None
    ReopenWindow = 0
    Tickets = {t1, t2}
    Clients = {c1, c2}
    Staff = {s1}
    Messages = {m1}
    Ratings = {five}
    ApiSlots = {a1}
    Bot = bot
    MaxTime = 1
    MaxCommits = 5
CHECK_DEADLOCK FALSE
INVARIANTS ClosedAtTellsClosed ActiveTicketIsOwn MessageStoredOnce
PROPERTIES ClientReopensInTime
