\* A clean file is answered as a suspicious one is, and fires nothing: it is left to the
\* run with the watchdog.
CONSTANTS
    Requests = {r1, r2, r3}
    Fds = {3}
    NoReq = none
    Verdicts = {"SUSPICIOUS", "MALWARE"}
    EnablePermission = TRUE
    EnableWatchdog = FALSE
    MagicMarked = FALSE
    N_FD = 2
SPECIFICATION FairSpec
CHECK_DEADLOCK FALSE
INVARIANTS AnswerFitsFile DescriptorHeld
PROPERTIES ImplementsGate DenialReported
