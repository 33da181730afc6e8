CONSTANTS
    NetworkInstances = {"DEFAULT", "VRF"}
    DefaultNI = "DEFAULT"
    IPv4Prefixes = {"p4"}
    IPv6Prefixes = {"p6"}
    MPLSLabels = {}
    NHGs = {"g1"}
    NHs = {"h1"}
    OpIDs = {1, 2, 3, 4, 5, 6, 7, 8}
    Absent = Absent
    Ops <- CrossInstanceOps
    DisableForwardReferences = FALSE
SPECIFICATION Spec
INVARIANTS
    TypeOK
    RefCountsExact
    GroupsResolved
    NoneResolvableLeft
    AckedOnce
PROPERTIES
    DanglingOnlyByFlush
    PendingUntilInstalled
    ImplementsNaiveRib
