SPECIFICATION ReaderSpec
CONSTANTS
    a = a
    b = b
    v = v
    w = w
    Nil = Nil
    Keys <- TwoKeys
    Values <- TwoValues
    KeyLen <- UnitKeyLen
    ValLen <- LongValLen
    RegionSize = 14
    MaxKeyId = 2
    ConfigBlank = TRUE
    AllowDelete = TRUE
    AllowReformat = FALSE
    Faults = {}
    MaxFaults = 0
    MaxCrashes = 0
SYMMETRY Symmetry
INVARIANTS GetIsLinearizable NoForeignValue IterationComplete
