\* The table starts with four slots instead of 64, so that calls that are never answered
\* collide with later ones and make it grow. 11400712997709160919 is 7 modulo 8.
CONSTANTS
    InitialSize = 4
    Multiplier = 7
    NULL = NULL
    MaxCalls = 5
    MaxPlain = 1
    MaxNotify = 1
    WireLimit = 2
    Long = {"result"}
SPECIFICATION FairSpec
CHECK_DEADLOCK FALSE
INVARIANTS CallbacksAccounted NoOverflow
PROPERTIES ImplementsMap CallsEnd
