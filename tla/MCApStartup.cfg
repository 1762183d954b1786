SPECIFICATION OwnStackSpec
CONSTANTS
    Madt <- Machine
    BspId = 1
INVARIANTS
    OwnPercpu
    ReportIsTrue
    ThreadsKept
PROPERTIES
    BootCompletes
CHECK_DEADLOCK FALSE
