---------------------------- MODULE LegacySched ----------------------------
(***************************************************************************)
(* The scheduler that sched/smp_sched.c replaced, and the mutex built on   *)
(* it: sched/scheduler.c, the process table of sched/proc.c, the thread    *)
(* lists of sched/threads.c and sync/mutex.c.  They are compiled into the  *)
(* kernel and kernel_main no longer calls them.                            *)
(*                                                                         *)
(* One CPU, no preemption: a thread runs until it calls yield.  A circular *)
(* list of nodes is the sequence of its data from the node the list        *)
(* pointer is at; RunQueue has the pointers.  The threads use the mutexes  *)
(* as a caller should: they release what they hold and do not acquire it   *)
(* twice.  kalloc has memory for the nodes.                                *)
(***************************************************************************)
EXTENDS Integers, Sequences, FiniteSets

CONSTANTS
    Processes, Tasks,   \* the processes, and the threads
    ProcessOf,          \* the process of a thread
    Mutexes,
    NoTask

ASSUME LegacyAssumption == ProcessOf \in [Tasks -> Processes]

VARIABLES
    procs,      \* proc_list, current_proc_rounds and each process's threads
    task,       \* task[t]: its state, and the mutex it waits for in acquire_mutex
    mutex,      \* mutex[m]: the spinlock's word and thread_list
    sched       \* where scheduler() is, its locals, and current_thread

legacyvars == <<procs, task, mutex, sched>>

ROUNDS_PER_PROC == 5

LegacyInit ==
    /\ procs = [list |-> <<>>, rounds |-> 0, threads |-> [p \in Processes |-> <<>>]]
    /\ task = [t \in Tasks |-> [state |-> "NEW", waits |-> {}, holds |-> {}]]
    /\ mutex = [m \in Mutexes |-> [is_locked |-> 0, thread_list |-> <<>>]]
    /\ sched = [pc |-> "boot", first_proc |-> {}, first_thread |-> NoTask,
                current |-> NoTask, panic |-> ""]

(* push_..._list, shift_..._list and peek_..._list; the push is behind the *)
(* last node, which is before the first.                                   *)
Pushed(list, x) == Append(list, x)
Shifted(list) == Append(Tail(list), Head(list))
Peek(list) == Head(list)

(* pop_..._list: the test assigns next, so the list is always emptied and  *)
(* the nodes behind the first are lost.                                    *)
Popped(list) == <<>>

Panic(why) == sched' = [sched EXCEPT !.pc = "stopped", !.panic = why]

-----------------------------------------------------------------------------
(* allocproc, then create_thread, RUNNABLE and a push per thread, as       *)
(* procinit does it.                                                       *)
allocproc(p) ==
    /\ sched.pc = "boot" /\ p \notin {procs.list[k] : k \in DOMAIN procs.list}
    /\ procs' = [procs EXCEPT !.list = Pushed(@, p)]
    /\ UNCHANGED <<task, mutex, sched>>

AddThread(t) ==
    /\ sched.pc = "boot" /\ task[t].state = "NEW"
    /\ ProcessOf[t] \in {procs.list[k] : k \in DOMAIN procs.list}
    /\ task' = [task EXCEPT ![t].state = "RUNNABLE"]
    /\ procs' = [procs EXCEPT !.threads[ProcessOf[t]] = Pushed(@, t)]
    /\ UNCHANGED <<mutex, sched>>

scheduler ==
    /\ sched.pc = "boot"
    /\ sched' = [sched EXCEPT !.pc = "next"]
    /\ UNCHANGED <<procs, task, mutex>>

-----------------------------------------------------------------------------
(* get_next_thread. *)
NextThread ==
    /\ sched.pc = "next"
    /\ \/ /\ procs.list = <<>>
          /\ Panic("no procs") /\ UNCHANGED procs
       \/ /\ procs.list # <<>>
          /\ sched' = [sched EXCEPT !.pc = "proc", !.first_proc = {Peek(procs.list)}]
          /\ procs' = IF procs.rounds >= ROUNDS_PER_PROC
                      THEN [procs EXCEPT !.rounds = 0, !.list = Shifted(@)] ELSE procs
    /\ UNCHANGED <<task, mutex>>

(* The head of the outer loop. *)
NextProc ==
    LET threads == procs.threads[Peek(procs.list)] IN
    /\ sched.pc = "proc"
    /\ \/ threads = <<>> /\ Panic("proc with no threads")
       \/ /\ threads # <<>>
          /\ sched' = [sched EXCEPT !.pc = "thread", !.first_thread = Peek(threads)]
    /\ UNCHANGED <<procs, task, mutex>>

(* Mistake: the inner loop ends when the next round would look at the last *)
(* thread of the process.                                                  *)
TryThreadShort ==
    LET p == Peek(procs.list)
        t == Peek(procs.threads[p])
        turned == [procs EXCEPT !.threads[p] = Shifted(@)]
        passed == [turned EXCEPT !.rounds = 0, !.list = Shifted(@)] IN
    /\ sched.pc = "thread"
    /\ \/ /\ task[t].state = "RUNNABLE"
          /\ sched' = [sched EXCEPT !.pc = "run", !.current = t]
          /\ procs' = turned
       \/ /\ task[t].state # "RUNNABLE"
          /\ Peek(Shifted(turned.threads[p])) # sched.first_thread
          /\ procs' = turned /\ UNCHANGED sched
       \/ /\ task[t].state # "RUNNABLE"
          /\ Peek(Shifted(turned.threads[p])) = sched.first_thread
          /\ procs' = passed
          /\ IF Peek(passed.list) \in sched.first_proc THEN Panic("no available threads")
             ELSE sched' = [sched EXCEPT !.pc = "proc"]
    /\ UNCHANGED <<task, mutex>>

(* One round of the inner loop; after its last, the end of the outer one. *)
TryThread ==
    LET p == Peek(procs.list)
        t == Peek(procs.threads[p])
        turned == [procs EXCEPT !.threads[p] = Shifted(@)]
        passed == [turned EXCEPT !.rounds = 0, !.list = Shifted(@)] IN
    /\ sched.pc = "thread"
    /\ \/ /\ task[t].state = "RUNNABLE"
          /\ sched' = [sched EXCEPT !.pc = "run", !.current = t]
          /\ procs' = turned
       \/ /\ task[t].state # "RUNNABLE"
          /\ Peek(turned.threads[p]) # sched.first_thread
          /\ procs' = turned /\ UNCHANGED sched
       \/ /\ task[t].state # "RUNNABLE"
          /\ Peek(turned.threads[p]) = sched.first_thread
          /\ procs' = passed
          /\ IF Peek(passed.list) \in sched.first_proc THEN Panic("no available threads")
             ELSE sched' = [sched EXCEPT !.pc = "proc"]
    /\ UNCHANGED <<task, mutex>>

-----------------------------------------------------------------------------
(* The thread that runs. *)
Runs(t) == sched.pc = "run" /\ sched.current = t

yield(t) ==
    /\ Runs(t) /\ task[t].waits = {}
    /\ sched' = [sched EXCEPT !.pc = "next"]
    /\ UNCHANGED <<procs, task, mutex>>

(* From check_mutex on: take the spinlock, or queue up and yield. *)
acquire_mutex(t, m) ==
    /\ Runs(t) /\ task[t].waits = {} /\ m \notin task[t].holds
    /\ \/ /\ mutex[m].is_locked = 0
          /\ mutex' = [mutex EXCEPT ![m].is_locked = 1]
          /\ task' = [task EXCEPT ![t].holds = @ \cup {m}]
          /\ UNCHANGED sched
       \/ /\ mutex[m].is_locked # 0
          /\ mutex' = [mutex EXCEPT ![m].thread_list = Pushed(@, t)]
          /\ task' = [task EXCEPT ![t].state = "WAIT", ![t].waits = {m}]
          /\ sched' = [sched EXCEPT !.pc = "next"]
    /\ UNCHANGED procs

(* Back from that yield: the spinlock has to be free. *)
Woken(t, m) ==
    /\ Runs(t) /\ task[t].waits = {m}
    /\ \/ /\ mutex[m].is_locked # 0
          /\ Panic("spinlock in not free") /\ UNCHANGED <<task, mutex>>
       \/ /\ mutex[m].is_locked = 0
          /\ mutex' = [mutex EXCEPT ![m].is_locked = 1]
          /\ task' = [task EXCEPT ![t].waits = {}, ![t].holds = @ \cup {m}]
          /\ UNCHANGED sched
    /\ UNCHANGED procs

(* Mistake: the spinlock is released as well when a waiter is woken, and   *)
(* another thread may take it first.                                       *)
release_mutex_frees(t, m) ==
    /\ Runs(t) /\ task[t].waits = {} /\ m \in task[t].holds
    /\ \/ /\ mutex[m].thread_list = <<>>
          /\ mutex' = [mutex EXCEPT ![m].is_locked = 0]
          /\ task' = [task EXCEPT ![t].holds = @ \ {m}]
       \/ /\ mutex[m].thread_list # <<>>
          /\ mutex' = [mutex EXCEPT ![m].is_locked = 0, ![m].thread_list = Popped(@)]
          /\ task' = [task EXCEPT ![t].holds = @ \ {m},
                                  ![Peek(mutex[m].thread_list)].state = "RUNNABLE"]
    /\ UNCHANGED <<procs, sched>>

(* With a waiter, the spinlock stays taken. *)
release_mutex(t, m) ==
    /\ Runs(t) /\ task[t].waits = {} /\ m \in task[t].holds
    /\ \/ /\ mutex[m].thread_list = <<>>
          /\ mutex' = [mutex EXCEPT ![m].is_locked = 0]
          /\ task' = [task EXCEPT ![t].holds = @ \ {m}]
       \/ /\ mutex[m].thread_list # <<>>
          /\ mutex' = [mutex EXCEPT ![m].thread_list = Popped(@)]
          /\ task' = [task EXCEPT ![t].holds = @ \ {m},
                                  ![Peek(mutex[m].thread_list)].state = "RUNNABLE"]
    /\ UNCHANGED <<procs, sched>>

-----------------------------------------------------------------------------
LegacyNext ==
    \/ \E p \in Processes : allocproc(p)
    \/ \E t \in Tasks : AddThread(t) \/ yield(t)
    \/ scheduler \/ NextThread \/ NextProc \/ TryThread
    \/ \E t \in Tasks, m \in Mutexes :
          acquire_mutex(t, m) \/ Woken(t, m) \/ release_mutex(t, m)

LegacySpec == LegacyInit /\ [][LegacyNext]_legacyvars

Runnable == {t \in Tasks : task[t].state = "RUNNABLE"}

(* get_next_thread goes once around the processes and around each one's    *)
(* threads, both rings turning under it: it gives up with "no available    *)
(* threads" only when no thread is RUNNABLE, which takes a cycle of        *)
(* threads that hold and wait, and the thread it returns is RUNNABLE.      *)
SchedulerFindsRunnable ==
    /\ sched.panic = "no available threads" =>
          /\ Runnable = {}
          /\ \A t \in Tasks : task[t].state = "WAIT" =>
                \E u \in Tasks : task[t].waits \cap task[u].holds # {}
    /\ sched.pc = "run" => sched.current \in Runnable
    /\ \A p \in Processes, t \in Tasks :
          Cardinality({k \in DOMAIN procs.threads[p] : procs.threads[p][k] = t})
             = IF ProcessOf[t] = p /\ task[t].state # "NEW" THEN 1 ELSE 0

(* mutex.h: "Blocks the current thread if mutex is already held".  At most *)
(* one thread holds a mutex, its word is set as long as one does, and      *)
(* between a waiter's wake-up and its retry nobody else takes the mutex    *)
(* ("Ensure spinlock is free before retrying").  release_mutex keeps that  *)
(* by leaving the word set; the woken thread then panics on the word.      *)
MutexExclusive ==
    \A m \in Mutexes :
        LET holders == {t \in Tasks : m \in task[t].holds} IN
        /\ \A t, u \in holders : t = u
        /\ mutex[m].is_locked = 0 => holders = {}
        /\ (\E t \in Runnable : m \in task[t].waits) => holders = {}
=============================================================================
