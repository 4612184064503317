SPECIFICATION Spec
CONSTANTS
    ByteMod = 2
    WordMod = 2
    None = None
    Faults = {"lose", "send_error", "foreign", "malformed", "health_error"}
    Latency = "late"
    Timeout = 1
    InboxCap = 2
    FilterReplies = TRUE
    NCases = 3
    InitialCounters <- AboutToWrap
    RejectCases <- MCRejectCases
    HealthCommand = "process"
INVARIANTS
    EvidenceIsFresh
    ConclusiveVerdictExact
CHECK_DEADLOCK FALSE
