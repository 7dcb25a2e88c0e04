SPECIFICATION FairSpec
CONSTANTS
    Users = {u1, u2}
    Tokens = {k1, k2, k3}
    MaxSignIns = 2
    Start = "tickets"
    None = None
CHECK_DEADLOCK FALSE
INVARIANTS TypeOK MeIsOwner
PROPERTIES PagesKeepTheirUser GateSettles EveryoneLands
