SPECIFICATION Spec
CONSTANTS
    a = a
    b = b
    c = c
    v = v
    w = w
    Nil = Nil
    Keys <- TwoKeys
    Values <- TwoValues
    KeyLen <- UnitKeyLen
    ValLen <- UnitValLen
    RegionSize = 10
    MaxKeyId = 3
    ConfigBlank = TRUE
    AllowDelete = TRUE
    AllowReformat = FALSE
    Faults = {}
    MaxFaults = 0
    MaxCrashes = 1
SYMMETRY Symmetry
INVARIANTS TypeOK MountedIsRecovered LogWellFormed WritesHitBlankFlash KeyIdsInOrder OkIsDurable
PROPERTIES StaysRecoverable OthersUntouched
