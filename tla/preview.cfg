SPECIFICATION Spec
CONSTANTS
    Fields   = {"user", "items"}
    Methods  = {"items"}
    None     = None
    Error    = Error
    Kinds    = {"text", "bool", "null"}
    MaxPath  = 2
    MaxParts = 1
    MaxRestarts = 1
CHECK_DEADLOCK FALSE
INVARIANTS
    MissingIsShown
    PreviewIsSent
