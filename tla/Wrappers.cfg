SPECIFICATION FairSpec
CONSTANTS
    Thread = {T1, T2, T3}
    Nobody = Nobody
    MaxWakeUps = 2
    Sharer = {T1, T2}
    Nothing = Nothing
    MaxChanges = 2
    T = {0, 1, 2}
    Default = 0
    Stickiness = 3
    MaxTime = 8
    Maxima = {0, 12}
    One = 12
    MaxSteps = 3
INVARIANTS
    TypeOK
    NobodySleepsOn
    OneWaitPerWakeUp
    SnapshotIsFresh
    FadeArrives
PROPERTIES
    FlagIsTaken
    StaysVisible
    CountsRunningTime
