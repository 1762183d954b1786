------------------------------ MODULE SmpSched ------------------------------
(***************************************************************************)
(* The SMP scheduler (sched/smp_sched.c): per-CPU run queues, the          *)
(* scheduler loop of each CPU, and what thread code calls: sched_yield,    *)
(* sched_exit, sched_add_thread, sched_remove_thread and sched_balance.    *)
(*                                                                         *)
(* A run queue is a circular list entered through percpu.run_queue.  Here  *)
(* it is the sequence read off the list from that node on, and an          *)
(* operation on it is one step; module RunQueue opens that step up to the  *)
(* single pointer writes.  num_threads is the length of the sequence.      *)
(*                                                                         *)
(* CPU 0 starts in kernel_main, which adds threads and then enters         *)
(* sched_run; the other CPUs are in their loops if they came up, and never *)
(* run if they did not: ncpu counts every CPU of the MADT, also one that   *)
(* is disabled or whose start failed.  (Module ApStartup has the CPUs      *)
(* coming up meanwhile.)  The kernel contains no call of sched_balance:    *)
(* Spec is the kernel as it is, and BalanceSpec is the kernel with calls   *)
(* of it in thread code.                                                   *)
(***************************************************************************)
EXTENDS Integers, Sequences

CONSTANTS
    ncpu,           \* number of CPUs, numbered from 0 as in percpus[]
    Started,        \* the CPUs whose percpu.started is set
    Threads,        \* the threads create_thread makes
    NoThread,       \* a null struct thread pointer
    Idle,           \* the idle thread of the CPU at hand
    Boot            \* kernel_main, running on CPU 0 before its scheduler

ASSUME SchedAssumption ==
    /\ ncpu \in Nat \ {0}
    /\ Started \subseteq 0..(ncpu - 1) /\ 0 \in Started
    /\ {NoThread, Idle, Boot} \cap Threads = {}
    /\ NoThread # Idle /\ NoThread # Boot /\ Idle # Boot

Cpus == 0..(ncpu - 1)

(* smp_sched.h *)
LOAD_BALANCE_THRESHOLD == 2

VARIABLES
    run_queue,      \* run_queue[c]: the threads on CPU c's ring, from its head
    state,          \* state[t]: the scheduling state of thread t
    current_thread, \* current_thread[c]: percpu.current_thread
    pc,             \* pc[c]: where CPU c is
    next,           \* next[c]: the local of sched_run; once switched to, the
                    \* thread whose stack CPU c is on
    sched_lock,     \* the lock word: 1 while a CPU holds sched_lock
    call,           \* call[c]: the thread and CPU of the sched_add_thread call
    scan,           \* scan[c]: the locals of sched_balance
    removed,        \* threads sched_remove_thread took off (history)
    stranded        \* threads a caller put on a CPU that is not started (history)

vars == <<run_queue, state, current_thread, pc, next, sched_lock, call, scan,
          removed, stranded>>

States == {"NEW", "RUNNABLE", "ON_CPU", "EXIT"}
SchedulerLabels == {"loop", "picked", "current"}
ThreadLabels == {"run", "yield", "exit", "unlinked", "push", "scan", "migrate"}

num_threads(c) == Len(run_queue[c])

-----------------------------------------------------------------------------
(* Operations on a ring, seen from its head. *)

(* Mistakes: the head stays where it is; the ring is cut at its end. *)
HeadStays(q, i) == q
HeadCut(q, i) == [j \in 1..Len(q) |-> IF j + i <= Len(q) THEN q[j + i] ELSE q[j]]

(* The ring with the node behind position i as its head. *)
HeadAfter(q, i) ==
    [j \in 1..Len(q) |-> IF j + i <= Len(q) THEN q[j + i] ELSE q[j + i - Len(q)]]

(* Mistake: the node unlinked is the one behind. *)
unlinkNext(q, i) ==
    LET k == IF i = Len(q) THEN 1 ELSE i + 1 IN
    [j \in 1..(Len(q) - 1) |-> IF j < k THEN q[j] ELSE q[j + 1]]

(* The ring without the node at position i.  The head node's successor     *)
(* becomes the head when the head itself goes.                             *)
unlink(q, i) == [j \in 1..(Len(q) - 1) |-> IF j < i THEN q[j] ELSE q[j + 1]]

Contains(q, t) == \E i \in 1..Len(q) : q[i] = t

(* The position of the first member of S on the ring, or 0. *)
FirstIn(q, S) ==
    IF \E i \in 1..Len(q) : q[i] \in S
    THEN CHOOSE i \in 1..Len(q) : q[i] \in S /\ \A j \in 1..(i - 1) : q[j] \notin S
    ELSE 0

runqueue_remove_unlocked(q, t) ==
    IF Contains(q, t) THEN unlink(q, FirstIn(q, {t})) ELSE q

Runnable(st) == {t \in Threads : st[t] = "RUNNABLE"}

(* The position runqueue_get_next stops at, or 0. *)
runqueue_get_next(q, st) == FirstIn(q, Runnable(st))

(* Mistake: started is not tested. *)
FindLeastLoadedOfAll ==
    CHOOSE c \in Cpus : \A d \in Cpus :
        \/ num_threads(c) < num_threads(d)
        \/ num_threads(c) = num_threads(d) /\ c <= d

sched_find_least_loaded ==
    CHOOSE c \in Started : \A d \in Started :
        \/ num_threads(c) < num_threads(d)
        \/ num_threads(c) = num_threads(d) /\ c <= d

-----------------------------------------------------------------------------
NoCall == [thread |-> NoThread, cpu |-> 0]
NoScan == [i |-> 0, max_load |-> 0, max_cpu |-> 0, min_load |-> -1, min_cpu |-> 0]

Init ==
    /\ run_queue = [c \in Cpus |-> <<>>]
    /\ state = [t \in Threads |-> "NEW"]
    /\ current_thread = [c \in Cpus |-> NoThread]
    /\ pc = [c \in Cpus |-> IF c \notin Started THEN "off" ELSE IF c = 0 THEN "run" ELSE "loop"]
    /\ next = [c \in Cpus |-> IF c = 0 THEN Boot ELSE NoThread]
    /\ sched_lock = 0
    /\ call = [c \in Cpus |-> NoCall]
    /\ scan = [c \in Cpus |-> NoScan]
    /\ removed = {} /\ stranded = {}

Goto(c, label) == pc' = [pc EXCEPT ![c] = label]

-----------------------------------------------------------------------------
(* The loop of sched_run. *)

(* Mistake: every CPU looks at the boot CPU's queue. *)
PickFromBsp(c) ==
    LET i == runqueue_get_next(run_queue[0], state) IN
    /\ pc[c] = "loop"
    /\ IF i = 0
       THEN next' = [next EXCEPT ![c] = Idle] /\ UNCHANGED run_queue
       ELSE /\ next' = [next EXCEPT ![c] = run_queue[0][i]]
            /\ run_queue' = [run_queue EXCEPT ![0] = HeadAfter(@, i)]
    /\ Goto(c, "picked")
    /\ UNCHANGED <<state, current_thread, sched_lock, call, scan, removed, stranded>>
(* sched_get_next: a runnable thread, the head moving behind it, or idle. *)
Pick(c) ==
    LET i == runqueue_get_next(run_queue[c], state) IN
    /\ pc[c] = "loop"
    /\ IF i = 0
       THEN next' = [next EXCEPT ![c] = Idle] /\ UNCHANGED run_queue
       ELSE /\ next' = [next EXCEPT ![c] = run_queue[c][i]]
            /\ run_queue' = [run_queue EXCEPT ![c] = HeadAfter(@, i)]
    /\ Goto(c, "picked")
    /\ UNCHANGED <<state, current_thread, sched_lock, call, scan, removed, stranded>>

SetCurrent(c) ==
    /\ pc[c] = "picked"
    /\ current_thread' = [current_thread EXCEPT ![c] = next[c]]
    /\ Goto(c, "current")
    /\ UNCHANGED <<run_queue, state, next, sched_lock, call, scan, removed, stranded>>

(* state = ON_CPU and switch_context to the thread. *)
SwitchTo(c) ==
    /\ pc[c] = "current"
    /\ state' = [t \in Threads |-> IF t = next[c] THEN "ON_CPU" ELSE state[t]]
    /\ Goto(c, "run")
    /\ UNCHANGED <<run_queue, current_thread, next, sched_lock, call, scan, removed, stranded>>

-----------------------------------------------------------------------------
(* The idle thread: after a timer interrupt ends hlt, idle_yield. *)
IdleYield(c) ==
    /\ pc[c] = "run" /\ next[c] = Idle
    /\ Goto(c, "loop")
    /\ UNCHANGED <<run_queue, state, current_thread, next, sched_lock, call, scan,
                   removed, stranded>>

(* kernel_main enters sched_run. *)
StartScheduler(c) ==
    /\ pc[c] = "run" /\ next[c] = Boot
    /\ Goto(c, "loop")
    /\ UNCHANGED <<run_queue, state, current_thread, next, sched_lock, call, scan,
                   removed, stranded>>

(* sched_yield and sched_exit return at once when the CPU has no current   *)
(* thread or is idle.                                                      *)
HasThread(c) == pc[c] = "run" /\ current_thread[c] \notin {NoThread, Idle}

sched_yield(c) ==
    /\ HasThread(c)
    /\ state' = [state EXCEPT ![current_thread[c]] = "RUNNABLE"]
    /\ Goto(c, "yield")
    /\ UNCHANGED <<run_queue, current_thread, next, sched_lock, call, scan, removed, stranded>>

YieldSwitch(c) ==
    /\ pc[c] = "yield"
    /\ Goto(c, "loop")
    /\ UNCHANGED <<run_queue, state, current_thread, next, sched_lock, call, scan,
                   removed, stranded>>

(* sched_exit takes no lock: the state, then the ring, then the switch. *)
sched_exit(c) ==
    /\ HasThread(c)
    /\ state' = [state EXCEPT ![current_thread[c]] = "EXIT"]
    /\ Goto(c, "exit")
    /\ UNCHANGED <<run_queue, current_thread, next, sched_lock, call, scan, removed, stranded>>

(* Mistake: the node is left on the ring. *)
ExitWithoutUnlink(c) ==
    /\ pc[c] = "exit"
    /\ current_thread' = [current_thread EXCEPT ![c] = NoThread]
    /\ Goto(c, "unlinked")
    /\ UNCHANGED <<run_queue, state, next, sched_lock, call, scan, removed, stranded>>

ExitUnlink(c) ==
    /\ pc[c] = "exit"
    /\ run_queue' = [run_queue EXCEPT ![c] =
                        runqueue_remove_unlocked(@, current_thread[c])]
    /\ current_thread' = [current_thread EXCEPT ![c] = NoThread]
    /\ Goto(c, "unlinked")
    /\ UNCHANGED <<state, next, sched_lock, call, scan, removed, stranded>>

ExitSwitch(c) ==
    /\ pc[c] = "unlinked"
    /\ Goto(c, "loop")
    /\ UNCHANGED <<run_queue, state, current_thread, next, sched_lock, call, scan,
                   removed, stranded>>

-----------------------------------------------------------------------------
(* sched_add_thread and sched_remove_thread, called by kernel_main or by   *)
(* thread code.                                                            *)
MayCall(c) == pc[c] = "run" /\ next[c] # Idle

(* The lock is taken and the target chosen: the CPU asked for, or the      *)
(* least loaded one when cpu_index is -1.                                  *)
sched_add_thread(c, t, cpu_index) ==
    /\ MayCall(c) /\ state[t] = "NEW"
    /\ sched_lock = 0 /\ sched_lock' = 1
    /\ call' = [call EXCEPT ![c] =
                   [thread |-> t,
                    cpu |-> IF cpu_index < 0 THEN sched_find_least_loaded
                                             ELSE cpu_index]]
    /\ stranded' = stranded \cup (IF cpu_index \in Cpus \ Started THEN {t} ELSE {})
    /\ Goto(c, "push")
    /\ UNCHANGED <<run_queue, state, current_thread, next, scan, removed>>

(* Mistake: the new node goes in front of the head. *)
AddPushAtHead(c) ==
    LET t == call[c].thread  d == call[c].cpu IN
    /\ pc[c] = "push"
    /\ state' = [state EXCEPT ![t] = "RUNNABLE"]
    /\ run_queue' = [run_queue EXCEPT ![d] = <<t>> \o @]
    /\ sched_lock' = 0
    /\ call' = [call EXCEPT ![c] = NoCall]
    /\ Goto(c, "run")
    /\ UNCHANGED <<current_thread, next, scan, removed, stranded>>

(* runqueue_add_unlocked puts the node before the head, which is the end   *)
(* of the round; then the lock is released.                                *)
AddPush(c) ==
    LET t == call[c].thread  d == call[c].cpu IN
    /\ pc[c] = "push"
    /\ state' = [state EXCEPT ![t] = "RUNNABLE"]
    /\ run_queue' = [run_queue EXCEPT ![d] = Append(@, t)]
    /\ sched_lock' = 0
    /\ call' = [call EXCEPT ![c] = NoCall]
    /\ Goto(c, "run")
    /\ UNCHANGED <<current_thread, next, scan, removed, stranded>>

(* Under the lock, the first queue that holds the thread loses it. *)
sched_remove_thread(c, t) ==
    /\ MayCall(c) /\ sched_lock = 0
    /\ \E d \in Cpus :
          /\ Contains(run_queue[d], t)
          /\ \A e \in 0..(d - 1) : ~Contains(run_queue[e], t)
          /\ run_queue' = [run_queue EXCEPT ![d] = runqueue_remove_unlocked(@, t)]
    /\ removed' = removed \cup {t}
    /\ UNCHANGED <<state, current_thread, pc, next, sched_lock, call, scan, stranded>>

-----------------------------------------------------------------------------
(* sched_balance: the loads are read one CPU at a time and without a lock. *)
sched_balance(c) ==
    /\ MayCall(c)
    /\ scan' = [scan EXCEPT ![c] = NoScan]
    /\ Goto(c, "scan")
    /\ UNCHANGED <<run_queue, state, current_thread, next, sched_lock, call, removed, stranded>>

(* One iteration of the scan.  min_load starts at UINT32_MAX, here -1. *)
ScanCpu(c) ==
    LET s == scan[c]  load == num_threads(s.i)
        more == load > s.max_load
        less == s.min_load = -1 \/ load < s.min_load
    IN
    /\ pc[c] = "scan" /\ s.i < ncpu
    /\ scan' = [scan EXCEPT ![c] =
                   IF s.i \notin Started THEN [s EXCEPT !.i = @ + 1] ELSE
                   [i        |-> s.i + 1,
                    max_load |-> IF more THEN load ELSE s.max_load,
                    max_cpu  |-> IF more THEN s.i ELSE s.max_cpu,
                    min_load |-> IF less THEN load ELSE s.min_load,
                    min_cpu  |-> IF less THEN s.i ELSE s.min_cpu]]
    /\ UNCHANGED <<run_queue, state, current_thread, pc, next, sched_lock, call,
                   removed, stranded>>

EndScan(c) ==
    /\ pc[c] = "scan" /\ scan[c].i = ncpu
    /\ Goto(c, IF scan[c].max_load - scan[c].min_load < LOAD_BALANCE_THRESHOLD
               THEN "run" ELSE "migrate")
    /\ UNCHANGED <<run_queue, state, current_thread, next, sched_lock, call, scan,
                   removed, stranded>>

(* The first thread of the source that may move, or position 0. *)
Migratable(src) ==
    IF num_threads(src) > 1
    THEN FirstIn(run_queue[src], Runnable(state) \ {current_thread[src]})
    ELSE 0

(* Under the lock: one thread goes from the source to the destination. *)
Migrate(c) ==
    LET src == scan[c].max_cpu  dst == scan[c].min_cpu
        i == Migratable(src)    q == run_queue[src]
    IN
    /\ pc[c] = "migrate" /\ sched_lock = 0
    /\ run_queue' = IF i = 0 THEN run_queue
                    ELSE [run_queue EXCEPT ![src] = unlink(q, i),
                                           ![dst] = Append(@, q[i])]
    /\ Goto(c, "run")
    /\ UNCHANGED <<state, current_thread, next, sched_lock, call, scan, removed, stranded>>

-----------------------------------------------------------------------------
ThreadStep(c) ==
    \/ IdleYield(c) \/ StartScheduler(c)
    \/ sched_yield(c) \/ YieldSwitch(c)
    \/ sched_exit(c) \/ ExitUnlink(c) \/ ExitSwitch(c)
    \/ \E t \in Threads, i \in -1..(ncpu - 1) : sched_add_thread(c, t, i)
    \/ AddPush(c)

SchedulerStep(c) == Pick(c) \/ SetCurrent(c) \/ SwitchTo(c)

BalanceStep(c) == sched_balance(c) \/ ScanCpu(c) \/ EndScan(c) \/ Migrate(c)

CpuStep(c) == SchedulerStep(c) \/ ThreadStep(c)

Next ==
    \E c \in Cpus :
        \/ CpuStep(c)
        \/ \E t \in Threads : sched_remove_thread(c, t)

Spec == Init /\ [][Next]_vars

BalanceSpec == Init /\ [][Next \/ \E c \in Cpus : BalanceStep(c)]_vars

(* Each CPU keeps executing: a thread reaches its next sched_yield or      *)
(* sched_exit, and the periodic LAPIC timer ends every hlt of the idle     *)
(* thread.                                                                 *)
FairSpec == Spec /\ \A c \in Cpus : WF_vars(CpuStep(c))

-----------------------------------------------------------------------------
(* CPU c is on the stack of thread t. *)
Executing(c, t) == pc[c] \in ThreadLabels /\ next[c] = t

(* CPU c has taken t off its round and has not switched to it yet. *)
Chosen(c, t) == pc[c] \in {"picked", "current"} /\ next[c] = t

(* The types of the scheduler's variables. *)
TypeOK ==
    /\ run_queue \in [Cpus -> Seq(Threads)]
    /\ state \in [Threads -> States]
    /\ current_thread \in [Cpus -> Threads \cup {NoThread, Idle}]
    /\ pc \in [Cpus -> SchedulerLabels \cup ThreadLabels \cup {"off"}]
    /\ next \in [Cpus -> Threads \cup {NoThread, Idle, Boot}]
    /\ sched_lock \in 0..1
    /\ call \in [Cpus -> [thread : Threads \cup {NoThread}, cpu : Cpus]]
    /\ removed \subseteq Threads

(* A thread's stack is used by one CPU: the CPU that executes a thread, or *)
(* is about to switch to it, is the only one that does.  Everything that   *)
(* keeps it so is indirect: a CPU picks from its own queue only, a thread  *)
(* is on one queue only, and it is ON_CPU or current while it executes.    *)
OneCpuPerThread ==
    \A c, d \in Cpus, t \in Threads :
        (Executing(c, t) \/ Chosen(c, t)) /\ (Executing(d, t) \/ Chosen(d, t))
            => c = d

(* No thread is linked twice, on one ring or on two, so picking it from    *)
(* one queue cannot leave it waiting on another.                           *)
LinkedOnce ==
    \A c, d \in Cpus : \A i \in 1..num_threads(c), j \in 1..num_threads(d) :
        run_queue[c][i] = run_queue[d][j] => c = d /\ i = j

(* No thread is lost: one that was added and has neither exited nor been   *)
(* removed is on a queue, also while it executes and while it is picked.   *)
AdmittedIsLinked ==
    \A t \in Threads :
        state[t] \in {"RUNNABLE", "ON_CPU"} /\ t \notin removed
            => \E c \in Cpus : Contains(run_queue[c], t)

(* sched_exit: "The thread will never run again."  From the moment a       *)
(* thread is marked EXIT no CPU runs its code, other than the rest of      *)
(* sched_exit, or is about to.                                             *)
ExitedNeverRuns ==
    \A t \in Threads, c \in Cpus : state[t] = "EXIT" =>
        /\ Executing(c, t) => pc[c] \in {"exit", "unlinked"}
        /\ ~Chosen(c, t)

(* And it stays on a queue only until sched_exit has unlinked it. *)
ExitIsFinal ==
    /\ ExitedNeverRuns
    /\ \A t \in Threads, c \in Cpus :
          state[t] = "EXIT" /\ Contains(run_queue[c], t) => pc[c] = "exit" /\ next[c] = t

(* percpu.current_thread and the thread's state describe the CPU: while    *)
(* thread code runs, current_thread is the thread whose stack it is on and *)
(* that thread is ON_CPU, so sched_yield and sched_exit act on their       *)
(* caller and never on another thread.                                     *)
CurrentIsCaller ==
    \A c \in Cpus : pc[c] \in {"run", "push"} /\ next[c] \in Threads =>
        current_thread[c] = next[c] /\ state[next[c]] = "ON_CPU"

Position(c, t) == FirstIn(run_queue[c], {t})

(* Round robin: while a runnable thread stays on a queue no step moves it  *)
(* further from its head, so threads added, yielding or exiting never      *)
(* overtake it; and whenever the CPU picks a thread, every other one that  *)
(* waits moves strictly closer.                                            *)
NoOvertaking ==
    [][\A c \in Cpus, t \in Threads :
          Position(c, t) > 0 /\ Position(c, t)' > 0 /\ state[t] = "RUNNABLE"
              => \/ Position(c, t)' <= Position(c, t)
                                        - (IF pc[c] = "loop" /\ pc'[c] = "picked" THEN 1 ELSE 0)
                 \/ pc[c] = "loop" /\ Chosen(c, t)']_vars

(* Every runnable thread on a queue runs or is removed, whatever the other *)
(* threads do and whichever CPUs came up; only a thread whose caller asked *)
(* for a CPU that did not waits for ever.                                  *)
RunnableRuns ==
    \A t \in Threads :
        state[t] = "RUNNABLE" ~> state[t] = "ON_CPU" \/ t \in removed \cup stranded

(* Where each thread is, and what each CPU executes, for the lifecycle. *)
phase ==
    [t \in Threads |->
        IF \E c \in Cpus : Executing(c, t) THEN "on"
        ELSE IF state[t] = "NEW" THEN "new"
        ELSE IF \E c \in Cpus : Contains(run_queue[c], t) \/ Chosen(c, t) THEN "ready"
        ELSE "gone"]

running ==
    [c \in Cpus |->
        IF pc[c] \in ThreadLabels /\ next[c] \in Threads THEN next[c] ELSE NoThread]

Life == INSTANCE ThreadLife

(* The scheduler implements the lifecycle: one thread per CPU, one CPU per *)
(* thread, and a thread that is gone never comes back.                     *)
ImplementsThreadLife == Life!Spec
=============================================================================
