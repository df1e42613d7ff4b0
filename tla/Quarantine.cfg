CONSTANTS
    NULL = NULL
    Threads = {t1, t2}
    Paths = {p1, p2}
    Base <- MCBase
    Statuses = {"MALWARE", "SUSPICIOUS"}
    MaxFiles = 2
    MaxNames = 3
    MaxTime = 1
    MaxStops = 1
SYMMETRY Symmetry
SPECIFICATION Spec
CHECK_DEADLOCK FALSE
INVARIANTS QuarantineHolds WellDescribed ActionTells
