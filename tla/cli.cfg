SPECIFICATION Spec
CONSTANTS
    None = None
    Runs = {r1, r2}
    Compares = {c1}
    Suite <- Names
    CategoryOf <- Categories
    Judgeable = {"clean_reject", "hang"}
    Settings <- MCSettings
    File = {"baseline.json", "report.json", "report.xml"}
    Compared <- CIFiles
    ComparisonFile = "report.json"
    Archived <- MCArchived
SYMMETRY Interchangeable
INVARIANTS
    TypeOK
    PassIsEarned
    OnlySupportedProfilesRun
    ReportsAreOfWholeSuites
    JUnitAgreesWithExit
    NoVacuousPass
    ComparisonIsExact
    RegressionsAreCaught
PROPERTIES
    EarlierReportsKept
CHECK_DEADLOCK FALSE
