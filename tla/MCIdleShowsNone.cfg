SPECIFICATION Spec
CONSTANTS
    Cron = cron
    Handlers = {h1, h2}
    KeepLast = 1
    PruneIntervalParses = TRUE
    PruneInterval = 24
    OperatorForgets = FALSE
    MaxSnapshots = 2
    MaxOrphans = 1
INVARIANT IdleShowsNone
