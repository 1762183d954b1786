SPECIFICATION OneCpuSpec
CONSTANTS
    PGSIZE = 4
    KEND = 5
    INIT_PHYSTOP = 16
    PHYSTOP = 32
    Cpus = {0, 1}
    Junk = Junk
    Threads = {t1, t2, t3, t4}
    Nil = Nil
    Entries = {e1, e2, e3, e4}
    lst = lst
    ListNodes = {n1, n2, n3, n4, n5}
    Elements = {0, 1}
    NULL = NULL
    p1 = p1
    p2 = p2
    u1 = u1
    u2 = u2
    u3 = u3
    u4 = u4
    Processes = {p1, p2}
    Tasks = {u1, u2, u3, u4}
    ProcessOf <- MCProcessOf
    Mutexes = {m1, m2}
    NoTask = NoTask
    Coroutines = {c1, c2}
    Scheduler = Scheduler
    StackWords = 18
SYMMETRY Symmetry
INVARIANTS
    DistinctPages
    ListIsSound
    NoFault
    RunQueueSound
    ListsKeepShape
    SchedulerFindsRunnable
    MutexExclusive
    ContextKept
PROPERTIES
    ImplementsPageAlloc
    ImplementsSequence
CHECK_DEADLOCK FALSE
