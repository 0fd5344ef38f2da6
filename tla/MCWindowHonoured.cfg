SPECIFICATION FairSpec
CONSTANTS
    Windows = {w1, w2}
    Durations = {1, 3, 4}
    TicksPerSecond = 2
    MaxTime = 7
PROPERTY WindowHonoured
