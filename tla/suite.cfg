SPECIFICATION Spec
CONSTANTS
    LengthBits = 8
    None = None
    ReachableSize = 64
    Surplus = 100
    Categories <- AllCategories
    Builds <- AllBuilds
    HostIp <- MCHostIp
    Configs <- AllConfigs
    EXPECTED_APID <- DefaultApid
    MAX_COMMAND_SIZE = 32
    UdpLimit = 227
    ByteMod = 256
    FirstCounts = {250}
CHECK_DEADLOCK FALSE
INVARIANTS
    TypeOK
    OneDefectEach
    StaysOnTarget
    WellBehavedTargetIsSafe
    BuggyTargetIsCaught
    ControlTellsReach
    GoodBuildReachesSuite
    PassedOnItsOwnTarget
PROPERTY
    ImplementsCampaign
