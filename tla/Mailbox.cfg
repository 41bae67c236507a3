SPECIFICATION FairSpec
CONSTANTS
    T1 = T1
    T2 = T2
    D1 = D1
    M1 = M1
    M2 = M2
    Nobody = Nobody
    Thread <- MCThread
    Delegate <- MCDelegate
    Msg <- MCMsg
    Default = M1
    Capacity = 3
    MaxDepth = 2
INVARIANTS
    TypeOK
    DelegateToldTheTruth
    ClearedIsQuiet
PROPERTIES
    IsQueue
    LockReleased
