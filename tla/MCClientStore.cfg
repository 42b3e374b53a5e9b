SPECIFICATION Spec
CONSTANTS
    Topics = {t1, t2}
    Tasks = {i1, i2}
    Size <- MCSize
    WallBuf = 20
    SubsBuf = 1
    Expiry = 1
    MaxSessions = 2
    MaxLines = 5
    MaxCrashes = 2
    MaxTime = 1
    NULL = NULL
INVARIANTS
    TypeOK
    RestoredIsOneSession
    EachEndRestoresOnce
PROPERTY
    RestoreLosesNothing
SYMMETRY Symmetry
CHECK_DEADLOCK FALSE
