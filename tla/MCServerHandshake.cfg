CONSTANTS
    Clients = {c1, c2}
    ElectionIDs <- AllIDs
    SessionParameters <- AllParams
    Operations <- HandshakeOps
    Messages <- HandshakeMessages
    KnownNIs = {"DEFAULT"}
    MaxMessages = 2
    MaxOps = 2
    Absent = Absent
SPECIFICATION Spec
CHECK_DEADLOCK FALSE
INVARIANTS
    TypeOK
    ParamsAgree
    NoOrphanState
PROPERTIES
    ParamsFixed
