CONSTANTS
    Clients <- MCClients
    Wants <- MCWants
    Ids = {1, 2}
    IdsOf <- MCIdsOf
    ListenMask <- MCListenMask
    ScanScript <- MCScanScript
    MonitorScript <- MCMonitorScript
SPECIFICATION FairSpec
CHECK_DEADLOCK FALSE
INVARIANTS CallbackListSound EventsOfOwnScan
PROPERTIES CompletedReaches
