SPECIFICATION Spec
CONSTANTS
    Capacity = 4
    A = A
    B = B
    Default = A
    T <- MCT
    Key <- MCKey
    Other <- MCOther
INVARIANTS
    TypeOK
    InOrder
    ViewsAgree
PROPERTIES
    IsQueue
    OperationsKeepPromises
    IsSortedQueue
    InsertAddsOne
