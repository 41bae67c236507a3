SPECIFICATION Spec
CONSTANTS
    PageSize = 2
    MaxSize = 2
    Zero = Zero
    Junk = Junk
    A = A
    Value <- MCValue
    Faults <- NoFaults
    MaxFaults = 0
    KeepViews = TRUE
INVARIANTS
    ViewWritesTracked
