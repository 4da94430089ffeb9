SPECIFICATION Spec
CONSTANTS
    NumSlots = 2
    NumBlocks = 3
    IromBlocks = 2
    SlotBlocks = 4
    BlocksPerSector = 2
    MaxRetries = 1
    MboxSize = 2
    TempRoms = {0, 1}
    Files = {"good", "corrupt", "long"}
    MaxSessions = 1
    MaxTries = 1
    MaxDups = 1
    MaxFaults = 1
    MaxCrashes = 1
INVARIANTS NeverOverwritesRunning
CHECK_DEADLOCK FALSE
