CONSTANTS
    NetworkInstances = {"DEFAULT", "VRF", "LAB"}
    TargetNIs = {"DEFAULT", "VRF"}
    DefaultNI = "DEFAULT"
    IPv4Prefixes = {"p"}
    IPv6Prefixes = {}
    MPLSLabels = {}
    NHGs = {"g1", "g2"}
    NHs = {"h1", "h2"}
    OpIDs <- AllIDs
    Absent = Absent
    Ops <- AllOps
    DisableForwardReferences = FALSE
    IntendedRIBs <- Intentions
    ExplicitReplace = {}
    OtherOps <- Others
    MaxChanges = 2
SPECIFICATION RoundSpec
INVARIANTS
    RoundTypeOK
    NothingRefused
    RoundReconciles
    MakeBeforeBreak
PROPERTIES
    Converges
