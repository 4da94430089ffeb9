SPECIFICATION FairSpec
CONSTANTS
    NumSlots = 2
    NumBlocks = 3
    IromBlocks = 2
    SlotBlocks = 4
    BlocksPerSector = 2
    MaxRetries = 1
    MboxSize = 2
    TempRoms = {}
    Files = {"good", "old", "corrupt", "long"}
    MaxSessions = 1
    MaxTries = 1
    MaxDups = 1
    MaxFaults = 0
    MaxCrashes = 0
PROPERTIES LastAckMeansStored TransferEnds SwitchTakesEffect
CHECK_DEADLOCK FALSE
