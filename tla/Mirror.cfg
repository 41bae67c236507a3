SPECIFICATION Spec
CONSTANTS
    Null = Null
    Cell = {0, 1}
    Addr = {1, 2, 3}
    MaxSize = 2
    Object = {A, B}
    Entry = {E1}
    Handle = {H1, H2}
    MaxTmp = 2
    Builder = Builder
    Name = {N1, N2, N3}
    Attempts = 2
    Path = {"d", "d/x", "f"}
    Root = "."
    Parent <- MCParent
    Data = {"one", "two"}
    Size <- MCSize
    Old = "old"
    Partial = "part"
    MaxTime = 3
    Capacity = 3
    Key = {1, 2, 3}
    OtherArray <- MCArrays
    MaxArrivals = 4
    Capacities = {2, 3, 4}
    Item = {1, 2}
    Default = 1
    OtherRing <- MCRings
    Ns = {2, 3}
    Largest = 2
    MaxLength = 7
    Width = 2
    Bytes = 3
INVARIANTS
    MirrorExact
