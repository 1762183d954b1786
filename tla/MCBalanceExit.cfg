SPECIFICATION BalanceSpec
SYMMETRY Symmetry
CONSTANTS
    ncpu = 3
    Started = {0, 1}
    Threads = {t1, t2}
    NoThread = NoThread
    Idle = Idle
    Boot = Boot
INVARIANTS
    ExitedNeverRuns
