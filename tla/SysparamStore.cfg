SPECIFICATION Spec
CONSTANTS
    a = a
    b = b
    c = c
    v = v
    w = w
    Nil = Nil
    Keys <- ThreeKeys
    Values <- TwoValues
    KeyLen <- UnitKeyLen
    ValLen <- MixedValLen
    RegionSize = 12
    MaxKeyId = 2
    ConfigBlank = TRUE
    AllowDelete = FALSE
    AllowReformat = FALSE
    Faults = {}
    MaxFaults = 0
    MaxCrashes = 0
INVARIANTS FullMeansFull
PROPERTIES ImplementsStore
