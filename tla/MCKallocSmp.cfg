SPECIFICATION Spec
CONSTANTS
    PGSIZE = 4
    KEND = 5
    INIT_PHYSTOP = 16
    PHYSTOP = 32
    Cpus <- TwoCpus
    Junk = Junk
INVARIANTS
    DistinctPages
