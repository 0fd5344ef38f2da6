SPECIFICATION MetricsSpec
CONSTANTS
    NumKeys <- MCNumKeys
    Dirs = {"app"}
    Top = "bucket"
    DirOf <- MCDirOf
    KindOf <- MCKindOf
    SizeOf <- MCSizeOf
    None = none
    MaxMishaps = 2
INVARIANTS
    MetricsTypeOK
    SumsAreBounded
    SuccessMeansFresh
    InfluxAgrees
