SPECIFICATION FairSpec
CONSTANTS
    Local = {l1}
    Sandbox = {s1, s2}
    Names = {"cfs-ci-lab", "cfs-other"}
    MaxPolls = 2
    HkPatience = 2
    NoOne = NoOne
INVARIANTS
    TypeOK
    SandboxOnOwnTarget
PROPERTIES
    OnlyOwnContainerRemoved
    EveryScriptEnds
CHECK_DEADLOCK FALSE
