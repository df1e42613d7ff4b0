CONSTANTS
    Dirs = {d1, d2}
    Root = root
    Outside = outside
    Nil = nil
    Names = {"a"}
    Points = {p, q}
    ConfMounts = {p}
    Settings <- Both
    Modules = {onaccess, clamav}
    OnAccessMod = onaccess
    MaxOps = 4
    QueueLimit = 3
SPECIFICATION FairSpec
CHECK_DEADLOCK FALSE
INVARIANTS MarksFitTree MediumFollowed NoMarkBeforeMainLoop
PROPERTIES MonitorProgress
