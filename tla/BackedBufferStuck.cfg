SPECIFICATION FairSpec
CONSTANTS
    PageSize = 2
    MaxSize = 2
    Zero = Zero
    Junk = Junk
    A = A
    Value <- MCValue
    Faults <- OnlyWrite
    MaxFaults = 1
    KeepViews = FALSE
PROPERTIES
    RetrySucceeds
