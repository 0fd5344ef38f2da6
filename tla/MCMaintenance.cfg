SPECIFICATION FairSpec
CONSTANTS
    Windows = {w1, w2, w3}
    Durations = {1, 3, 4}
    TicksPerSecond = 2
    MaxTime = 7
INVARIANTS
    TypeOK
    NoLostReactivation
PROPERTIES
    NoEarlyReactivation
    AutoReactivated
CHECK_DEADLOCK FALSE
