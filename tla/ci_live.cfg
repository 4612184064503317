SPECIFICATION FairSpec
CONSTANTS
    ByteMod = 2
    WordMod = 1
    None = None
    Faults = {"lose", "foreign", "recover", "restart", "others"}
    Latency = "unbounded"
    Timeout = 2
    InboxCap = 1
    FilterReplies = TRUE
    NCases = 1
    InitialCounters <- AboutToWrap
    RejectCases <- MCRejectCases
    HealthCommand = "process"
PROPERTIES
    EveryCaseJudged
CHECK_DEADLOCK FALSE
