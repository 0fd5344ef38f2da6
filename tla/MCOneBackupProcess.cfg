SPECIFICATION Spec
CONSTANTS
    Calls = {b1, b2}
    Piped = {}
    OddLines = TRUE
INVARIANT OneBackupProcess
CHECK_DEADLOCK FALSE
