CONSTANTS
    NetworkInstances = {"DEFAULT", "VRF"}
    DefaultNI = "DEFAULT"
    IPv4Prefixes = {}
    IPv6Prefixes = {"p6"}
    MPLSLabels = {"l"}
    NHGs = {"g1", "g2"}
    NHs = {"h1", "h2"}
    OpIDs = {1, 2, 3, 4, 5, 6, 7, 8, 9}
    Absent = Absent
    Ops <- ReplaceOps
    DisableForwardReferences = FALSE
SPECIFICATION Spec
INVARIANTS
    RefCountsExact
    GroupsResolved
PROPERTIES
    AddEntryAccounts
