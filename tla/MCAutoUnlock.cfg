SPECIFICATION RunFairSpec
CONSTANTS
    Callers = {svc, c2}
    Others = {bk}
    Service = svc
    BackupProc = bk
    Dead = dead
    AutoUnlockAfter = 2
    RefreshEvery = 1
    MaxDead = 2
    MaxKills = 2
INVARIANTS
    RunTypeOK
    AloneUnlessSwept
PROPERTIES
    SweepHasCause
    CommandsReturn
    SharedLocksGo
