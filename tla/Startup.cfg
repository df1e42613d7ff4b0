CONSTANTS
    NULL = NULL
    Start <- MCStart
    NewValues <- MCNewValues
    Meaning <- MCMeaning
    Bare <- MCBare
    Atoi <- MCAtoi
    Modules <- MCModules
    ScanModules = {"ondemand", "onaccess"}
    Functions <- MCFunctions
    ConfTable <- MCConfTable
    Supports <- MCSupports
    Types = {"y1", "y2"}
    Threads = {t1, t2}
SYMMETRY ThreadSymmetry
SPECIFICATION Spec
CHECK_DEADLOCK FALSE
INVARIANTS LoadedRight RoundTrip ModulesInOrder ScansAsConfigured
