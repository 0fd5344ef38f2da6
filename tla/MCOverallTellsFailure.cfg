SPECIFICATION Spec
CONSTANTS
    Cron = cron
    Handlers = {h1}
    KeepLast = 2
    PruneIntervalParses = TRUE
    PruneInterval = 24
    OperatorForgets = FALSE
    MaxSnapshots = 3
    MaxOrphans = 1
PROPERTY OverallTellsFailure
