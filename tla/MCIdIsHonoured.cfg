SPECIFICATION RestoreSpec
CONSTANTS
    PipeCap = 1
    MaxLines = 3
    MaxId = 2
    Chunks = 2
INVARIANTS
    IdIsHonoured
