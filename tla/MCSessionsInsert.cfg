SPECIFICATION Spec
CONSTANTS
    Ids = {i1}
    KeepAlives = {2}
    Expiries = {2}
    MinKeepAlive = 2
    U16 = 16
    MaxConns = 2
    MaxTime = 6
    MaxLate = 0
    LastSend = 6
    NULL = NULL
INVARIANT
    CheckedIdIsFree
