CONSTANTS
    Callers = {a, b}
    Modifiers = {a, b}
    Names <- TwoInstances
    AtFirst = {"A"}
    Groups = {1}
    Calls <- AllCalls
    Hook = TRUE
    Breaks = TRUE
    MaxCalls = 4
    ElectionIDs <- TwoElections
    None = None
SPECIFICATION Spec
CHECK_DEADLOCK FALSE
INVARIANTS
    TypeOK
    GetConsistent
    FlushEmpties
PROPERTIES
    CallsReturn
