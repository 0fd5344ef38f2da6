SPECIFICATION FairSpec
CONSTANTS
    Calls = {b1, b2}
    Piped = {b1}
    OddLines = TRUE
INVARIANTS
    FailureIsTakenBack
    OrphanOnlyOfAbandonedCall
    NobodyWaitsInVain
PROPERTIES
    KeepsCall
    BackupReturns
    ScriptIsReaped
CHECK_DEADLOCK FALSE
