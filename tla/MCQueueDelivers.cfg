SPECIFICATION FairSpec
CONSTANTS
    p1 = p1
    Appenders = {p1}
    Takers = {obs}
    Observer = obs
    Addrs = {n1, n2}
    NULL = NULL
    MaxAppends <- MCMaxAppends
PROPERTY EnqueuedIsTaken
CHECK_DEADLOCK FALSE
