SPECIFICATION Spec
CONSTANTS
    Madt <- SmallMachine
    BspId = 1
INVARIANTS
    OwnStack
CHECK_DEADLOCK FALSE
