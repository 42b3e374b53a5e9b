SPECIFICATION FairSpec
CONSTANTS
    p1 = p1
    Appenders = {p1, p2}
    Takers = {obs}
    Observer = obs
    Addrs = {n1, n2, n3}
    NULL = NULL
    MaxAppends <- MCMaxAppends
INVARIANTS
    TypeOK
    AtMostOnce
    ObserverNeverDangles
    ClearLeavesNothing
    FaultsOnlyAfterTake
PROPERTIES
    LostOnlyToRaces
    ImplementsChannel
    WokenTakes
    AppendsReturn
CHECK_DEADLOCK FALSE
