SPECIFICATION Spec
CONSTANTS
    MaxRows = 3
    MaxTitle = 3
    MaxCalls = 2
    Limit = 2
    Calls = {c1, c2}
    None = None
SYMMETRY Symmetry
INVARIANTS TypeOK ShowsWhatItChanged
PROPERTIES RulesBreakByRaceOnly OrderIsAsked
