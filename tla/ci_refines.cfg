SPECIFICATION TimelySpec
CONSTANTS
    ByteMod = 2
    WordMod = 2
    None = None
    Faults = {}
    Latency = "timely"
    Timeout = 1
    InboxCap = 1
    FilterReplies = TRUE
    NCases = 4
    InitialCounters <- AboutToWrap
    RejectCases <- MCRejectCases
    HealthCommand = "process"
PROPERTIES
    ImplementsCampaign
CHECK_DEADLOCK FALSE
