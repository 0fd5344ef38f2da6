SPECIFICATION RestoreFairSpec
CONSTANTS
    PipeCap = 1
    MaxLines = 3
    MaxId = 2
    Chunks = 2
INVARIANTS
    RestoreTypeOK
    HookIsOver
    PostRestoreOnlyComplete
PROPERTIES
    HookReturns
CHECK_DEADLOCK FALSE
