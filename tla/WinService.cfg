CONSTANTS
    Callers <- MCCallers
    Commands <- MCCommands
    MaxCommands = 3
SPECIFICATION FairSpec
CHECK_DEADLOCK FALSE
INVARIANTS LoadedFitsState InstalledHasKey
PROPERTIES ServiceProgress
