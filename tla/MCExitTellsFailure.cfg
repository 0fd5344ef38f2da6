SPECIFICATION ClientSpec
CONSTANTS
    Requests = {r1, r2}
    Cron = cron
    None = none
    Nil = nil
INVARIANTS ExitTellsFailure
