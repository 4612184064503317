SPECIFICATION Spec
CONSTANTS
    ByteMod = 3
    WordMod = 2
    None = None
    Faults = {"lose", "malformed", "send_error", "receive_error", "recover", "health_error"}
    Latency = "unbounded"
    Timeout = 1
    InboxCap = 2
    FilterReplies = TRUE
    NCases = 3
    InitialCounters <- AboutToWrap
    RejectCases <- MCRejectCases
    HealthCommand = "process"
INVARIANTS
    TypeOK
    ErrorsAreReported
    VerdictHasCause
    NoEffectCountedTwice
CHECK_DEADLOCK FALSE
