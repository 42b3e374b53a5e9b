SPECIFICATION Spec
CONSTANTS
    Ids = {i1}
    KeepAlives = {2}
    Expiries = {2}
    MinKeepAlive = 2
    U16 = 16
    MaxConns = 2
    MaxTime = 5
    LastSend = 5
    MaxLate = 0
    NULL = NULL
INVARIANTS
    TypeOK
    EndIsLogged
PROPERTIES
    ProlongsFromLastButOne
