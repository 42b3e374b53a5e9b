SPECIFICATION FairSpec
CONSTANTS
    a = a
    b = b
    c1 = c1
    Tasks = {t1, t2}
    Parts = {a, b, c1}
    Topics <- MCTopics
    Requests <- MCRequests
    QoS = {0, 1}
    MaxNodes = 7
    MaxSubs = 1
    MaxRemoves = 1
    Spurious = TRUE
    NULL = NULL
INVARIANTS
    TypeOK
    RoutedAsked
PROPERTIES
    SubscribesEnd
    CleanKeepsRoutes
