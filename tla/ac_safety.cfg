SPECIFICATION Spec
CONSTANTS
    Users = {u1, u2}
    Slots = {a1, a2}
    Sockets = {k1}
    None = None
SYMMETRY Symmetry
CHECK_DEADLOCK FALSE
INVARIANTS TypeOK RemovedAreCut
PROPERTIES LastAdminGoesByRaceOnly ConfiguredAdminStays
