SPECIFICATION Spec
CONSTANTS
    Topics = {t1, t2}
    Tasks = {i1, i2}
    Size <- MCSize
    WallBuf = 20
    SubsBuf = 1
    Expiry = 2
    MaxSessions = 2
    MaxLines = 5
    MaxCrashes = 1
    MaxTime = 3
    NULL = NULL
INVARIANT
    RecoversSession
SYMMETRY Symmetry
CHECK_DEADLOCK FALSE
