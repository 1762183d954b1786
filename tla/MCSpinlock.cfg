SPECIFICATION FairSpec
CONSTANTS
    sched_lock = sched_lock
    serial_lock = serial_lock
    printf_lock = printf_lock
    print_lock = print_lock
    Cpus = {c0, c1}
    Locks = {sched_lock, serial_lock, printf_lock, print_lock}
    Nesting <- KernelNesting
    MaxOps = 2
INVARIANTS
    LockHasOneHolder
    InterruptedHoldsNothing
    NcliIsNestingDepth
    InterruptFlagTransparent
PROPERTIES
    SpinEnds
