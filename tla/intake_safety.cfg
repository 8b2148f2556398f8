CONSTANTS
    Submissions = {"p", "p2", "q", "u"}
    Processes = {w1, w2}
    Header <- MCHeader
    Provider <- MCProvider
    Payload <- MCPayload
    Registered = {"ads", "crm"}
    Oversized = {"huge"}
    NoHeader = NoHeader
    NoJob = NoJob
    MaxFaults = 1
    MaxTimeouts = 1
    MaxRestarts = 1
SPECIFICATION Spec
SYMMETRY MCSymmetry
INVARIANTS OneIdPerKey FreshOnce HeaderlessKeepsContent
PROPERTIES ImplementsStore
CHECK_DEADLOCK FALSE
