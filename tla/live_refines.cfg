SPECIFICATION TimelySpec
CONSTANTS
    ByteMod = 1
    WordMod = 1
    None = None
    Faults = {}
    Latency = "timely"
    Timeout = 1
    InboxCap = 1
    FilterReplies = TRUE
    NCases = 4
    InitialCounters <- OneValue
    HealthCommand = "process"
PROPERTIES
    ImplementsCampaign
CHECK_DEADLOCK FALSE
