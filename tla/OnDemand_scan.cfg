CONSTANTS
    Places <- AllPlaces
    Verdicts = {"CLEAN", "SUSPICIOUS", "MALWARE"}
    Inputs <- ScanInputs
    MaxThreads = 2
SPECIFICATION FairSpec
INVARIANTS CompletedTotals ShownConsistent ProgressTrue QuietAfterReturn
PROPERTIES Returns
