SPECIFICATION TimelySpec
CONSTANTS
    ByteMod = 2
    WordMod = 2
    None = None
    Faults = {"malformed"}
    Latency = "timely"
    Timeout = 1
    InboxCap = 2
    FilterReplies = TRUE
    NCases = 2
    InitialCounters <- AboutToWrap
    RejectCases <- MCRejectCases
    HealthCommand = "none"
PROPERTIES
    VerdictsAreRetained
CHECK_DEADLOCK FALSE
