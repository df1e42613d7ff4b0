CONSTANTS
    Threads = 2
    Opens <- MCOpens
    Verdict <- MCVerdict
    Device <- MCDevice
    Drives <- MCDrives
    Occurs <- MCOccurs
    MaxStarts = 2
    MaxFaults = 1
SPECIFICATION FairSpec
CHECK_DEADLOCK FALSE
INVARIANTS AnswersFitOpens ContextFollowsPort
PROPERTIES PortProgress
