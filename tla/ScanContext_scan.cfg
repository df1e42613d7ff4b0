CONSTANTS
    MaxModules = 3
    ModuleResults = {"UNDECIDED", "CLEAN", "UNKNOWN_TYPE", "EINVAL", "IERROR", "SUSPICIOUS", "WHITE_LISTED", "MALWARE"}
SPECIFICATION Spec
INVARIANTS WorstVerdict MalwareDetected DescriptorClosedOnce AbortExplained
