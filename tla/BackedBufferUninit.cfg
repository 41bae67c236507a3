SPECIFICATION Spec
CONSTANTS
    PageSize = 2
    MaxSize = 3
    Zero = Zero
    Junk = Junk
    A = A
    Value <- MCValue
    Faults <- OnlyComplete
    MaxFaults = 1
    KeepViews = FALSE
INVARIANTS
    NothingUninitialised
