SPECIFICATION Spec
CONSTANTS
    None = None
    ReopenWindow = 0
    Tickets = {t1}
    Clients = {c1}
    Staff = {s1}
    Messages = {m1}
    Ratings = {five}
    ApiSlots = {a1, a2}
    Bot = bot
    MaxTime = 0
    MaxCommits = 4
CHECK_DEADLOCK FALSE
PROPERTIES StaffWritesToOpen
