CONSTANTS
    Callers = {a}
    Ids = {1}
    Requests <- OneRequest
    SessParams = TRUE
    ElectionIDs = {1, 2}
    ElectionID = 1
    FIBAck = FALSE
    ModifyBuffer = 1
    Timeout = FALSE
    Graceful = FALSE
    MaxCalls = 3
    MaxStrays = 0
    None = None
SPECIFICATION FluentSpec
CHECK_DEADLOCK FALSE
INVARIANTS
    FluentTypeOK
    ParamsFirst
    StampedAsAnnounced
PROPERTIES
    ImplementsSendQueue
    AwaitReturns
