SPECIFICATION Spec
CONSTANTS
    Cron = cron
    Handlers = {}
    KeepLast = 2
    PruneIntervalParses = TRUE
    PruneInterval = 24
    OperatorForgets = FALSE
    MaxSnapshots = 4
    MaxOrphans = 2
INVARIANTS
    RetentionHolds
PROPERTIES
    GoodSnapshotSurvives
