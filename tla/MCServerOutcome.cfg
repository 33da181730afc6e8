CONSTANTS
    Clients = {c1}
    ElectionIDs <- AllIDs
    SessionParameters <- AllParams
    Operations <- OutcomeOps
    Messages <- OutcomeMessages
    KnownNIs = {"DEFAULT"}
    MaxMessages = 3
    MaxOps = 2
    Absent = Absent
SPECIFICATION Spec
CHECK_DEADLOCK FALSE
PROPERTIES
    Progress
    OperationsAccounted
