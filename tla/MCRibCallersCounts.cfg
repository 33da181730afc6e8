CONSTANTS
    Callers = {a, b}
    Modifiers = {a}
    Names <- TwoInstances
    AtFirst = {"A", "B"}
    Groups = {1}
    Calls <- ModifyAndFlush
    Hook = FALSE
    Breaks = FALSE
    MaxCalls = 4
    ElectionIDs <- NoElections
    None = None
SPECIFICATION Spec
CHECK_DEADLOCK FALSE
INVARIANTS
    CountsNeverShort
