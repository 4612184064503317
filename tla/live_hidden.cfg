SPECIFICATION Spec
CONSTANTS
    ByteMod = 1
    WordMod = 1
    None = None
    Faults = {"lose", "send_error", "receive_error", "foreign"}
    Latency = "unbounded"
    Timeout = 1
    InboxCap = 2
    FilterReplies = TRUE
    NCases = 3
    InitialCounters <- OneValue
    HealthCommand = "process"
INVARIANTS
    TypeOK
    ErrorsAreReported
    CrashIsReal
    MissedCrashesAreBounded
CHECK_DEADLOCK FALSE
