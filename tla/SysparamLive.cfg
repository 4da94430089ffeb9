SPECIFICATION FairSpec
CONSTANTS
    a = a
    b = b
    c = c
    v = v
    w = w
    Nil = Nil
    Keys <- TwoKeys
    Values <- TwoValues
    KeyLen <- UnitKeyLen
    ValLen <- HugeValLen
    RegionSize = 10
    MaxKeyId = 1
    ConfigBlank = TRUE
    AllowDelete = TRUE
    AllowReformat = FALSE
    Faults = {"header"}
    MaxFaults = 1
    MaxCrashes = 2
INVARIANTS IdsInRange
PROPERTIES Settles RecoveryMounts
