SPECIFICATION Spec
CONSTANTS
    MaxStored = 2
    MaxVersion = 1
    MaxBreaks = 1
    Queries = {"messages", "detail"}
    None = None
CHECK_DEADLOCK FALSE
INVARIANTS TypeOK ChatIsTrue ShowsWhatItIsOwed
