SPECIFICATION Spec
CONSTANTS
    Callers = {c1}
    Others = {o1}
    Dead = dead
    AutoUnlockAfter = 2
    RefreshEvery = 1
    MaxDead = 2
PROPERTY YoungLocksStay
