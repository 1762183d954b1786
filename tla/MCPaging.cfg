SPECIFICATION FairSpec
CONSTANTS
    LEVELS = 3
    ENTRIES = 2
    PGSIZE = 2
    Pool = {10, 11, 12}
    KvmEnd = 10
    Requests <- KernelRequests
    MaxCalls = 2
INVARIANTS
    TablesFormTree
    TlbCoherent
PROPERTIES
    ImplementsAddrSpace
    CallsReturn
CHECK_DEADLOCK FALSE
