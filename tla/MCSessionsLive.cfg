SPECIFICATION FairSpec
CONSTANTS
    Ids = {i1}
    KeepAlives = {0, 2, 11}
    Expiries = {0}
    MinKeepAlive = 2
    U16 = 16
    MaxConns = 1
    MaxTime = 12
    LastSend = 3
    MaxLate = 1
    NULL = NULL
PROPERTIES
    TasksEnd
