SPECIFICATION FairSpec
CONSTANTS
    ncpu = 3
    Started = {0, 1}
    Threads = {t1, t2, t3}
    NoThread = NoThread
    Idle = Idle
    Boot = Boot
INVARIANTS
    OneCpuPerThread
    LinkedOnce
    AdmittedIsLinked
    ExitIsFinal
PROPERTIES
    NoOvertaking
    ImplementsThreadLife
    RunnableRuns
