SPECIFICATION QueueSpec
CONSTANTS
    Threads = {t1, t2}
    Nil = Nil
SYMMETRY Symmetry
INVARIANTS
    CircularList
CHECK_DEADLOCK FALSE
