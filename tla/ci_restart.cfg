SPECIFICATION Spec
CONSTANTS
    ByteMod = 3
    WordMod = 1
    None = None
    Faults = {"restart"}
    Latency = "late"
    Timeout = 1
    InboxCap = 2
    FilterReplies = TRUE
    NCases = 2
    InitialCounters <- HasCounted
    RejectCases <- MCRejectCases
    HealthCommand = "process"
INVARIANTS
    AcceptMeansPlusOne
CHECK_DEADLOCK FALSE
