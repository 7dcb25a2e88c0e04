SPECIFICATION Spec
CONSTANTS
    Kinds = {"composer", "section", "theme", "broadcast"}
    MaxTyped = 2
    MaxImages = 1
    MaxSends = 2
    OthersAfter = 1
    None = None
CHECK_DEADLOCK FALSE
INVARIANTS EditorShowsDraft
