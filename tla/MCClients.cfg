SPECIFICATION Spec
CONSTANTS
    Ids = {1, 2, 3, 4}
    Forwarders = {f1}
    MaxConns = 5
    NULL = NULL
INVARIANTS
    TypeOK
    StrictlySorted
    ListedIsAllocated
    OwnedOnce
PROPERTIES
    ImplementsRegistry
CHECK_DEADLOCK FALSE
