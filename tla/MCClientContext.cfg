CONSTANTS
    Callers = {a, b}
    Ids = {1}
    Requests <- OneRequest
    SessParams = FALSE
    ElectionIDs = {1, 2}
    ElectionID = None
    FIBAck = FALSE
    ModifyBuffer = 1
    Timeout = TRUE
    Graceful = FALSE
    MaxCalls = 2
    MaxStrays = 0
    None = None
SPECIFICATION Spec
CHECK_DEADLOCK FALSE
PROPERTIES
    AwaitObeysContext
