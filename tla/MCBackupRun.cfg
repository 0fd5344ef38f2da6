SPECIFICATION Spec
CONSTANTS
    Cron = cron
    Handlers = {h1}
    KeepLast = 1
    PruneIntervalParses = TRUE
    PruneInterval = 24
    OperatorForgets = FALSE
    MaxSnapshots = 2
    MaxOrphans = 1
INVARIANTS
    TypeOK
    OneRunAtATime
    GaugesTellTheRun
    RetentionHolds
PROPERTIES
    CommandFailureIsReported
    GoodSnapshotSurvives
    KeepsContract
