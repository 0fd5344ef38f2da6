SPECIFICATION ClientSpec
CONSTANTS
    Requests = {r1, r2}
    Cron = cron
    None = none
    Nil = nil
SYMMETRY Symmetry
INVARIANTS
    ClientTypeOK
    AloneIsClean
    FlushFunctionsAreLive
    VerdictIsOwn
