SPECIFICATION FairSpec
CONSTANTS
    UART = UART
    FRC1 = FRC1
    Tasks = {shell, lamp}
    Reader = shell
    PwmTask = lamp
    FifoSize = 2
    SemMax = 3
    MaxLen = 2
    MaxBytes = 2
    MaxCalls = 2
INVARIANTS TypeOK NoLostWakeup GhostsBounded
PROPERTIES OutputFrozen ReaderServed PwmTurnsOver
CHECK_DEADLOCK FALSE
