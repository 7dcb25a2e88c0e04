SPECIFICATION FairSpec
CONSTANTS
    Admins = {adm1, adm2}
    MaxBroadcasts = 2
    MaxRecipients = 3
    SaveEvery = 2
    None = None
CHECK_DEADLOCK FALSE
INVARIANTS OneAtATime CountersHonest WrittenOnce
PROPERTIES OutcomeIsFinal TaskEnds
