SPECIFICATION FairSpec
CONSTANTS
    PageSize = 2
    MaxSize = 3
    Zero = Zero
    Junk = Junk
    A = A
    Value <- MCValue
    Faults <- FaultKinds
    MaxFaults = 2
    KeepViews = FALSE
INVARIANTS
    IndInv
    TypeOK
    DirtyCountExact
    CleanUnlessTorn
    InitialisedUnlessTorn
PROPERTIES
    OnlyModifiedWritten
    LooksLikeImage
    RetryUnlessStuck
