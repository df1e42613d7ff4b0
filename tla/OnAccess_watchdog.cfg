CONSTANTS
    Requests = {r1, r2}
    Fds = {3, 4}
    NoReq = none
    Verdicts = {"CLEAN", "MALWARE"}
    EnablePermission = TRUE
    EnableWatchdog = TRUE
    MagicMarked = FALSE
    N_FD = 2
SPECIFICATION HungScanSpec
CHECK_DEADLOCK FALSE
INVARIANTS NoStrayAnswer NoDescriptorLost
PROPERTIES EveryOpenAnswered
