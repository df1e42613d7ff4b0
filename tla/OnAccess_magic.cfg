CONSTANTS
    Requests = {r1, r2}
    Fds = {3, 4}
    NoReq = none
    Verdicts = {"CLEAN"}
    EnablePermission = TRUE
    EnableWatchdog = FALSE
    MagicMarked = TRUE
    N_FD = 2
SPECIFICATION Spec
CHECK_DEADLOCK FALSE
INVARIANT MonitorNeverWaits
