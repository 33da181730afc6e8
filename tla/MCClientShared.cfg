CONSTANTS
    Callers = {a, b}
    Ids = {1, 2}
    Requests <- SomeRequests
    SessParams = TRUE
    ElectionIDs = {1, 2}
    ElectionID = None
    FIBAck = TRUE
    ModifyBuffer = 1
    Timeout = FALSE
    Graceful = TRUE
    MaxCalls = 2
    MaxStrays = 1
    None = None
SPECIFICATION Spec
SYMMETRY Symmetry
CHECK_DEADLOCK FALSE
INVARIANTS
    ConvergedMeansSettled
    NothingLost
    NoPanic
