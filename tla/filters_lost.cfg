SPECIFICATION Spec
CONSTANTS
    NoData    = NoData
    Servers   = {"gateway"}
    Vendors   = {"crm"}
    Bodies    = {"sample"}
    Sample    = "sample"
    Searches  = {"sample"}
    OldRows  <- MCOldRows
    DeadRows  = {1}
    PageSize  = 1
    Pages     = {"list"}
    MaxFailures = 2
    MaxClicks = 2
    MaxPosts  = 0
    MaxRows   = 2
    MaxEffort = 5
CHECK_DEADLOCK FALSE
PROPERTIES
    FiltersAreKept
