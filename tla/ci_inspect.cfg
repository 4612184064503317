SPECIFICATION Spec
CONSTANTS
    ByteMod = 2
    WordMod = 2
    None = None
    Faults = {}
    Latency = "timely"
    Timeout = 1
    InboxCap = 2
    FilterReplies = TRUE
    NCases = 1
    InitialCounters <- AboutToWrap
    RejectCases <- MCRejectCases
    HealthCommand = "inspect"
INVARIANTS
    HangIsNotCrash
CHECK_DEADLOCK FALSE
