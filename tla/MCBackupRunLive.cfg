SPECIFICATION FairSpec
CONSTANTS
    Cron = cron
    Handlers = {h1}
    KeepLast = 1
    PruneIntervalParses = TRUE
    PruneInterval = 24
    OperatorForgets = TRUE
    MaxSnapshots = 1
    MaxOrphans = 0
PROPERTIES
    CallersReturn
