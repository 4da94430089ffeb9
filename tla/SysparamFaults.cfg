SPECIFICATION Spec
CONSTANTS
    a = a
    b = b
    c = c
    v = v
    w = w
    Nil = Nil
    Keys <- TwoKeys
    Values <- TwoValues
    KeyLen <- UnitKeyLen
    ValLen <- UnitValLen
    RegionSize = 10
    MaxKeyId = 3
    ConfigBlank = TRUE
    AllowDelete = FALSE
    AllowReformat = TRUE
    Faults = {"heap", "entry", "zero", "boot"}
    MaxFaults = 1
    MaxCrashes = 1
SYMMETRY Symmetry
INVARIANTS WritesHitBlankFlash OkIsDurable
PROPERTIES OthersUntouched
