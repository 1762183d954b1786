SPECIFICATION FairSpec
CONSTANTS
    Firmware <- Machines
    MAX_CPUS = 2
    MAX_IOAPICS = 2
    PGSIZE = 4
    NULL = NULL
    Copy = Copy
    MaxPages = 3
    BspId = 1
    Aps = {0}
    MaxKeys = 2
INVARIANTS
    NoFault
    TablesFound
    OnlyKeyboardUnmasked
PROPERTIES
    KeysAreRead
    TimerKeepsTicking
CHECK_DEADLOCK FALSE
