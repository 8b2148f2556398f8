SPECIFICATION Spec
CONSTANTS
    NoData      = NoData
    Servers     = {"gateway", "mock"}
    Vendors     = {"crm"}
    Limit       = 1
    MaxAttempts = 2
    MaxRows     = 2
    MaxClicks   = 2
    MaxFailures = 2
CHECK_DEADLOCK FALSE
INVARIANTS
    TypeOK
    ShownRowAgrees
PROPERTIES
    DeadLettersStay
