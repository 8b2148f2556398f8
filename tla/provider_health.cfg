SPECIFICATION FairSpec
CONSTANTS
    NoData       = NoData
    Threshold    = 1
    OpenDuration = 4
    Minute       = 3
    Pages        = {"home", "providers", "list"}
    MaxOutcomes  = 3
    MaxFailures  = 2
    MaxClicks    = 2
CHECK_DEADLOCK FALSE
INVARIANTS
    TypeOK
    OpenHasCountdown
    CountdownNotEarly
PROPERTIES
    BadgeCatchesUp
