SPECIFICATION Spec
CONSTANTS
    a = a
    b = b
    c1 = c1
    Tasks = {t1, t2}
    Parts = {a, b, c1}
    Topics <- MCTopics
    Requests <- MCRequests
    QoS = {0, 1}
    MaxNodes = 7
    MaxSubs = 1
    MaxRemoves = 0
    Spurious = FALSE
    NULL = NULL
INVARIANTS
    AckedIsRouted
