SPECIFICATION FairSpec
CONSTANTS
    NoData    = NoData
    Servers   = {"gateway", "mock"}
    Vendors   = {"crm"}
    Bodies    = {"sample", "other"}
    Sample    = "sample"
    Searches  = {}
    OldRows  <- MCOldRows
    DeadRows  = {1}
    PageSize  = 1
    Pages     = {"list", "dead", "new"}
    MaxFailures = 2
    MaxClicks = 2
    MaxPosts  = 2
    MaxRows   = 3
    MaxEffort = 5
CHECK_DEADLOCK FALSE
INVARIANTS
    TypeOK
    AcceptedIsListed
    ShownAnswersUrl
PROPERTIES
    AnsweredIsConfirmed
    LoadingEnds
