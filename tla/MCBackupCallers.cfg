SPECIFICATION Spec
CONSTANTS
    Cron = cron
    Handlers = {h1, h2}
    KeepLast = 1
    PruneIntervalParses = TRUE
    PruneInterval = 24
    OperatorForgets = FALSE
    MaxSnapshots = 1
    MaxOrphans = 1
SYMMETRY HandlerSymmetry
INVARIANTS
    TypeOK
    OneRunAtATime
    GaugesTellTheRun
PROPERTIES
    CommandFailureIsReported
