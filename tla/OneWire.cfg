SPECIFICATION FairSpec
CONSTANTS
    Bits = 4
    FamilyBits = 2
    AddrCount = 3
    MaxFaults = 2
    MaxScans = 1
INVARIANTS ScanIsComplete FamilyComesFirst
PROPERTIES NoPhantom ScanEnds
CHECK_DEADLOCK FALSE
