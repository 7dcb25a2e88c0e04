SPECIFICATION Spec
CONSTANTS
    Admins = {adm1, adm2}
    MaxBroadcasts = 1
    MaxRecipients = 2
    SaveEvery = 2
    None = None
SYMMETRY Symmetry
CHECK_DEADLOCK FALSE
INVARIANTS SendingHasTask
