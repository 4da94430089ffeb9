SPECIFICATION ReaderSpec
CONSTANTS
    a = a
    b = b
    v = v
    w = w
    Nil = Nil
    Keys <- TwoKeys
    Values <- TwoValues
    KeyLen <- UnitKeyLen
    ValLen <- UnitValLen
    RegionSize = 10
    MaxKeyId = 2
    ConfigBlank = TRUE
    AllowDelete = FALSE
    AllowReformat = FALSE
    Faults = {}
    MaxFaults = 0
    MaxCrashes = 0
INVARIANTS OkMeansSet
