SPECIFICATION Spec
CONSTANTS
    NumSlots = 3
    NumBlocks = 3
    IromBlocks = 2
    SlotBlocks = 4
    BlocksPerSector = 2
    MaxRetries = 0
    MboxSize = 2
    TempRoms = {2}
    Files = {"good", "old"}
    MaxSessions = 2
    MaxTries = 0
    MaxDups = 0
    MaxFaults = 1
    MaxCrashes = 1
INVARIANTS TypeOK StandardBootWorks ConfiguredRomIsComplete NeverOverprinted AckedBlocksStored
CHECK_DEADLOCK FALSE
