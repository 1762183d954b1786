-------------------------- MODULE LegacySchedProofs --------------------------
(***************************************************************************)
(* That the mutex of sync/mutex.c excludes, for any threads and mutexes    *)
(* and whatever the scheduler of sched/scheduler.c does.                   *)
(***************************************************************************)
EXTENDS LegacySched, TLAPS

States == {"NEW", "RUNNABLE", "WAIT"}

TaskType == [state : States, waits : SUBSET Mutexes, holds : SUBSET Mutexes]
MutexType == [is_locked : {0, 1}, thread_list : Seq(Tasks)]

Types ==
    /\ task \in [Tasks -> TaskType]
    /\ mutex \in [Mutexes -> MutexType]
    /\ {"pc", "current", "panic", "first_proc", "first_thread"} \subseteq DOMAIN sched
    /\ sched = [f \in DOMAIN sched |-> sched[f]]

(* A mutex has one holder and its word is set. *)
HolderInv ==
    \A m \in Mutexes, t \in Tasks : m \in task[t].holds =>
        /\ mutex[m].is_locked = 1
        /\ \A u \in Tasks : m \in task[u].holds => u = t

(* Whoever was woken for a mutex finds its word set and nobody holding it. *)
WokenInv ==
    \A m \in Mutexes, t \in Tasks : task[t].state = "RUNNABLE" /\ m \in task[t].waits =>
        /\ mutex[m].is_locked = 1
        /\ \A u \in Tasks : m \notin task[u].holds

(* The queue of a mutex has threads that wait for it and no other. *)
QueueInv ==
    \A m \in Mutexes : \A k \in DOMAIN mutex[m].thread_list :
        /\ task[mutex[m].thread_list[k]].state = "WAIT"
        /\ task[mutex[m].thread_list[k]].waits = {m}

(* A thread waits only after it has run. *)
NewInv == \A t \in Tasks : task[t].state = "NEW" => task[t].waits = {}

(* The scheduler runs RUNNABLE threads, and nothing changes the state of   *)
(* the one that runs but itself.                                           *)
RunInv == sched.pc = "run" => task[sched.current].state = "RUNNABLE"

IInv == Types /\ HolderInv /\ WokenInv /\ QueueInv /\ NewInv /\ RunInv

(* In the first state nobody holds or waits. *)
LEMMA InitIInv == LegacyInit => IInv
<1> SUFFICES ASSUME LegacyInit PROVE IInv
    OBVIOUS
<1>1. Types
  <2>1. task \in [Tasks -> TaskType]
    BY DEF LegacyInit, TaskType, States
  <2>2. mutex \in [Mutexes -> MutexType]
    <3>1. <<>> \in Seq(Tasks)
      OBVIOUS
    <3> QED
      BY <3>1 DEF LegacyInit, MutexType
  <2>3. /\ {"pc", "current", "panic", "first_proc", "first_thread"} \subseteq DOMAIN sched
        /\ sched = [f \in DOMAIN sched |-> sched[f]]
    BY DEF LegacyInit
  <2> QED
    BY <2>1, <2>2, <2>3 DEF Types
<1>2. HolderInv /\ WokenInv /\ NewInv
    BY DEF LegacyInit, HolderInv, WokenInv, NewInv
<1>3. QueueInv
  <2>1. \A m \in Mutexes : mutex[m].thread_list = <<>>
    BY DEF LegacyInit
  <2>2. DOMAIN <<>> = {}
    OBVIOUS
  <2> QED
    BY <2>1, <2>2 DEF QueueInv
<1>4. RunInv
    BY DEF LegacyInit, RunInv
<1> QED
    BY <1>1, <1>2, <1>3, <1>4 DEF IInv

(* Steps of the scheduler, and a new process, leave the mutexes and the    *)
(* threads' states alone.                                                  *)
LEMMA SchedulerStep ==
    ASSUME IInv, scheduler \/ NextThread \/ NextProc \/ TryThread
                 \/ (\E t \in Tasks : yield(t)) \/ \E p \in Processes : allocproc(p)
    PROVE  IInv'
<1> USE DEF IInv
<1>1. UNCHANGED <<task, mutex>>
    BY DEF scheduler, NextThread, NextProc, TryThread, yield, allocproc
<1>2. HolderInv' /\ WokenInv' /\ QueueInv' /\ NewInv'
    BY <1>1 DEF HolderInv, WokenInv, QueueInv, NewInv
<1>3. Types' /\ RunInv'
  <2>1. CASE scheduler
    BY <2>1, <1>1 DEF scheduler, Types, RunInv
  <2>2. CASE NextThread
    BY <2>2, <1>1 DEF NextThread, Types, RunInv, Panic
  <2>3. CASE NextProc
    BY <2>3, <1>1, ZenonT(60) DEF NextProc, Types, RunInv, Panic
  <2>4. CASE TryThread
    <3> DEFINE t == Peek(procs.threads[Peek(procs.list)])
    <3>1. \/ task[t].state = "RUNNABLE" /\ sched' = [sched EXCEPT !.pc = "run", !.current = t]
          \/ sched.pc = "thread" /\ sched' = sched
          \/ sched' = [sched EXCEPT !.pc = "stopped", !.panic = "no available threads"]
          \/ sched' = [sched EXCEPT !.pc = "proc"]
      BY <2>4, Zenon DEF TryThread, Panic
    <3> HIDE DEF t
    <3> QED
      BY <3>1, <1>1 DEF Types, RunInv
  <2>5. CASE \E t \in Tasks : yield(t)
    BY <2>5, <1>1 DEF yield, Types, RunInv
  <2>6. CASE \E p \in Processes : allocproc(p)
    BY <2>6, <1>1 DEF allocproc, Types, RunInv
  <2> QED
    BY <2>1, <2>2, <2>3, <2>4, <2>5, <2>6
<1> QED
    BY <1>2, <1>3

(* A thread that is created holds nothing and waits for nothing. *)
LEMMA AddThreadStep == ASSUME IInv, NEW t \in Tasks, AddThread(t) PROVE IInv'
<1> USE DEF IInv
<1>1. task' = [task EXCEPT ![t].state = "RUNNABLE"] /\ UNCHANGED <<mutex, sched>>
    BY DEF AddThread
<1>2. Types'
    BY <1>1 DEF Types, TaskType, States
<1>3. \A u \in Tasks : task'[u].holds = task[u].holds /\ task'[u].waits = task[u].waits
    BY <1>1 DEF Types, TaskType
<1>4. HolderInv'
    BY <1>1, <1>3 DEF HolderInv
<1>5. \A u \in Tasks : task'[u].state = IF u = t THEN "RUNNABLE" ELSE task[u].state
    BY <1>1 DEF Types, TaskType
<1>6. task[t].state = "NEW" /\ task[t].waits = {} /\ sched.pc = "boot"
    BY DEF AddThread, NewInv
<1>7. WokenInv' /\ NewInv'
    BY <1>1, <1>3, <1>5, <1>6 DEF WokenInv, NewInv
<1>8. QueueInv'
  <2> SUFFICES ASSUME NEW m \in Mutexes, NEW k \in DOMAIN mutex[m].thread_list
               PROVE  /\ task'[mutex[m].thread_list[k]].state = "WAIT"
                      /\ task'[mutex[m].thread_list[k]].waits = {m}
    BY <1>1 DEF QueueInv
  <2>1. mutex[m].thread_list[k] \in Tasks
    BY DEF Types, MutexType
  <2> QED
    BY <2>1, <1>3, <1>5, <1>6 DEF QueueInv
<1>9. RunInv'
    BY <1>1, <1>6 DEF RunInv
<1> QED
    BY <1>2, <1>4, <1>7, <1>8, <1>9

(* acquire_mutex takes a mutex whose word is clear, so nobody holds it and *)
(* nobody was woken for it; or it queues up.                               *)
LEMMA AcquireStep ==
    ASSUME IInv, NEW t \in Tasks, NEW m \in Mutexes, acquire_mutex(t, m) PROVE IInv'
<1> USE DEF IInv
<1>0. task[t].state = "RUNNABLE" /\ task[t].waits = {}
    BY DEF acquire_mutex, Runs, RunInv
<1>q. \A n \in Mutexes : \A k \in DOMAIN mutex[n].thread_list :
          mutex[n].thread_list[k] \in Tasks \ {t}
    BY <1>0 DEF Types, MutexType, QueueInv
<1>1. CASE mutex[m].is_locked = 0
  <2>1. /\ mutex' = [mutex EXCEPT ![m].is_locked = 1]
        /\ task' = [task EXCEPT ![t].holds = @ \cup {m}]
        /\ UNCHANGED sched
    BY <1>1 DEF acquire_mutex
  <2>2. \A u \in Tasks : /\ task'[u].state = task[u].state
                         /\ task'[u].waits = task[u].waits
                         /\ \A n \in Mutexes : n \in task'[u].holds <=> n \in task[u].holds \/ (u = t /\ n = m)
    BY <2>1 DEF Types, TaskType
  <2>3. \A n \in Mutexes : /\ mutex'[n].thread_list = mutex[n].thread_list
                           /\ n # m => mutex'[n].is_locked = mutex[n].is_locked
                           /\ n = m => mutex'[n].is_locked = 1
    BY <2>1 DEF Types, MutexType
  <2>4. Types'
    BY <2>1, ZenonT(60) DEF Types, TaskType, MutexType
  <2>5. \A u \in Tasks : /\ m \notin task[u].holds
                         /\ task[u].state = "RUNNABLE" => m \notin task[u].waits
    BY <1>1 DEF HolderInv, WokenInv
  <2>6. HolderInv'
    BY <2>2, <2>3, <2>5 DEF HolderInv
  <2>7. WokenInv' /\ NewInv'
    BY <2>2, <2>3, <2>5 DEF WokenInv, NewInv
  <2>8. QueueInv'
    BY <2>2, <2>3, <1>q DEF QueueInv
  <2>9. RunInv'
    BY <2>1, <2>2, <1>0 DEF RunInv, acquire_mutex, Runs
  <2> QED
    BY <2>4, <2>6, <2>7, <2>8, <2>9
<1>2. CASE mutex[m].is_locked # 0
  <2> DEFINE list == mutex[m].thread_list
  <2>1. /\ mutex' = [mutex EXCEPT ![m].thread_list = Append(@, t)]
        /\ task' = [task EXCEPT ![t].state = "WAIT", ![t].waits = {m}]
        /\ sched' = [sched EXCEPT !.pc = "next"]
    BY <1>2 DEF acquire_mutex, Pushed
  <2>2. \A u \in Tasks : /\ u # t => task'[u].state = task[u].state /\ task'[u].waits = task[u].waits
                         /\ u = t => task'[u].state = "WAIT" /\ task'[u].waits = {m}
                         /\ task'[u].holds = task[u].holds
    BY <2>1 DEF Types, TaskType
  <2>3. \A n \in Mutexes :
           /\ n # m => mutex'[n].thread_list = mutex[n].thread_list
           /\ n = m => mutex'[n].thread_list = Append(list, t)
           /\ mutex'[n].is_locked = mutex[n].is_locked
    BY <2>1 DEF Types, MutexType
  <2>4. list \in Seq(Tasks) /\ Append(list, t) \in Seq(Tasks)
    BY DEF Types, MutexType
  <2>5. Types'
    <3>1. task' \in [Tasks -> TaskType]
      BY <2>1, ZenonT(60) DEF Types, TaskType, States
    <3>2. mutex' \in [Mutexes -> MutexType]
      BY <2>1, <2>4 DEF Types, MutexType
    <3> QED
      BY <2>1, <3>1, <3>2 DEF Types
  <2>6. HolderInv' /\ WokenInv' /\ NewInv'
    BY <2>2, <2>3 DEF HolderInv, WokenInv, NewInv
  <2>7. \A k \in DOMAIN Append(list, t) :
           Append(list, t)[k] = t \/ (k \in DOMAIN list /\ Append(list, t)[k] = list[k])
    BY <2>4
  <2>8. QueueInv'
    <3> SUFFICES ASSUME NEW n \in Mutexes, NEW k \in DOMAIN mutex'[n].thread_list
                 PROVE  /\ task'[mutex'[n].thread_list[k]].state = "WAIT"
                        /\ task'[mutex'[n].thread_list[k]].waits = {n}
      BY DEF QueueInv
    <3> DEFINE e == mutex'[n].thread_list[k]
    <3>1. \/ n = m /\ e = t
          \/ k \in DOMAIN mutex[n].thread_list /\ e = mutex[n].thread_list[k]
      BY <2>3, <2>7
    <3> HIDE DEF e
    <3>2. CASE n = m /\ e = t
      BY <3>2, <2>2 DEF e
    <3>3. CASE k \in DOMAIN mutex[n].thread_list /\ e = mutex[n].thread_list[k]
      <4>1. e \in Tasks /\ e # t
        BY <3>3, <1>q
      <4>2. task[e].state = "WAIT" /\ task[e].waits = {n}
        BY <3>3 DEF QueueInv
      <4>3. task'[e].state = "WAIT" /\ task'[e].waits = {n}
        BY <4>1, <4>2, <2>2
      <4> QED
        BY <4>3 DEF e
    <3> QED
      BY <3>1, <3>2, <3>3
  <2>9. RunInv'
    BY <2>1 DEF RunInv, Types
  <2> QED
    BY <2>5, <2>6, <2>8, <2>9
<1> QED
    BY <1>1, <1>2

(* A thread that was woken finds the word set, so it stops in the panic. *)
LEMMA WokenStep ==
    ASSUME IInv, NEW t \in Tasks, NEW m \in Mutexes, Woken(t, m) PROVE IInv'
<1> USE DEF IInv
<1>1. task[t].state = "RUNNABLE" /\ m \in task[t].waits
    BY DEF Woken, Runs, RunInv
<1>2. mutex[m].is_locked = 1
    BY <1>1 DEF WokenInv
<1>3. UNCHANGED <<task, mutex>> /\ Panic("spinlock in not free")
  <2>1. mutex[m].is_locked # 0
    BY <1>2
  <2> QED
    BY <2>1, Zenon DEF Woken
<1>4. HolderInv' /\ WokenInv' /\ QueueInv' /\ NewInv'
    BY <1>3 DEF HolderInv, WokenInv, QueueInv, NewInv
<1>5. Types' /\ RunInv'
    BY <1>3 DEF Panic, Types, RunInv
<1> QED
    BY <1>4, <1>5

(* release_mutex clears the word, or leaves it set for the first waiter. *)
LEMMA ReleaseStep ==
    ASSUME IInv, NEW t \in Tasks, NEW m \in Mutexes, release_mutex(t, m) PROVE IInv'
<1> USE DEF IInv
<1>0. /\ task[t].state = "RUNNABLE" /\ task[t].waits = {} /\ m \in task[t].holds
      /\ sched.pc = "run" /\ sched.current = t /\ sched' = sched
    BY DEF release_mutex, Runs, RunInv
<1>h. mutex[m].is_locked = 1 /\ \A u \in Tasks : m \in task[u].holds => u = t
    BY <1>0 DEF HolderInv
<1>q. \A n \in Mutexes : \A k \in DOMAIN mutex[n].thread_list :
          mutex[n].thread_list[k] \in Tasks \ {t}
    BY <1>0 DEF Types, MutexType, QueueInv
<1>w. \A u \in Tasks : task[u].state = "RUNNABLE" => m \notin task[u].waits
    BY <1>0 DEF WokenInv
<1>1. CASE mutex[m].thread_list = <<>>
  <2>1. /\ mutex' = [mutex EXCEPT ![m].is_locked = 0]
        /\ task' = [task EXCEPT ![t].holds = @ \ {m}]
    BY <1>1 DEF release_mutex
  <2>2. \A u \in Tasks : /\ task'[u].state = task[u].state
                         /\ task'[u].waits = task[u].waits
                         /\ \A n \in Mutexes : n \in task'[u].holds <=> n \in task[u].holds /\ ~(u = t /\ n = m)
    BY <2>1 DEF Types, TaskType
  <2>3. \A n \in Mutexes : /\ mutex'[n].thread_list = mutex[n].thread_list
                           /\ n # m => mutex'[n].is_locked = mutex[n].is_locked
                           /\ n = m => mutex'[n].is_locked = 0
    BY <2>1 DEF Types, MutexType
  <2>4. Types'
    <3>1. task' \in [Tasks -> TaskType]
      BY <2>1 DEF Types, TaskType
    <3>2. mutex' \in [Mutexes -> MutexType]
      BY <2>1 DEF Types, MutexType
    <3> QED
      BY <1>0, <3>1, <3>2 DEF Types
  <2>5. HolderInv'
    BY <2>2, <2>3, <1>h DEF HolderInv
  <2>6. WokenInv' /\ NewInv'
    BY <2>2, <2>3, <1>w DEF WokenInv, NewInv
  <2>7. QueueInv'
    BY <2>2, <2>3, <1>q DEF QueueInv
  <2>8. RunInv'
    BY <1>0, <2>2 DEF RunInv
  <2> QED
    BY <2>4, <2>5, <2>6, <2>7, <2>8
<1>2. CASE mutex[m].thread_list # <<>>
  <2> DEFINE w == Head(mutex[m].thread_list)
  <2>0. w \in Tasks /\ w # t /\ task[w].state = "WAIT" /\ task[w].waits = {m}
    <3>1. mutex[m].thread_list \in Seq(Tasks)
      BY DEF Types, MutexType
    <3>2. 1 \in DOMAIN mutex[m].thread_list /\ w = mutex[m].thread_list[1]
      BY <3>1, <1>2
    <3> QED
      BY <3>2, <1>q DEF QueueInv
  <2>1. /\ mutex' = [mutex EXCEPT ![m].thread_list = <<>>]
        /\ task' = [task EXCEPT ![t].holds = @ \ {m}, ![w].state = "RUNNABLE"]
    BY <1>2 DEF release_mutex, Popped, Peek
  <2> HIDE DEF w
  <2>2. \A u \in Tasks : /\ u # w => task'[u].state = task[u].state
                         /\ u = w => task'[u].state = "RUNNABLE"
                         /\ task'[u].waits = task[u].waits
                         /\ \A n \in Mutexes : n \in task'[u].holds <=> n \in task[u].holds /\ ~(u = t /\ n = m)
    BY <2>0, <2>1 DEF Types, TaskType
  <2>3. \A n \in Mutexes :
           /\ n # m => mutex'[n].thread_list = mutex[n].thread_list
           /\ n = m => mutex'[n].thread_list = <<>>
           /\ mutex'[n].is_locked = mutex[n].is_locked
    BY <2>1 DEF Types, MutexType
  <2>4. Types'
    <3>1. <<>> \in Seq(Tasks)
      OBVIOUS
    <3>2. task' \in [Tasks -> TaskType]
      BY <2>0, <2>1 DEF Types, TaskType, States
    <3>3. mutex' \in [Mutexes -> MutexType]
      BY <2>1, <3>1 DEF Types, MutexType
    <3> QED
      BY <1>0, <3>2, <3>3 DEF Types
  <2>5. HolderInv'
    BY <2>2, <2>3, <1>h DEF HolderInv
  <2>6. WokenInv' /\ NewInv'
    BY <2>0, <2>2, <2>3, <1>h, <1>w DEF WokenInv, NewInv
  <2>7. QueueInv'
    <3> SUFFICES ASSUME NEW n \in Mutexes, NEW k \in DOMAIN mutex'[n].thread_list
                 PROVE  /\ task'[mutex'[n].thread_list[k]].state = "WAIT"
                        /\ task'[mutex'[n].thread_list[k]].waits = {n}
      BY DEF QueueInv
    <3>1. n # m
      BY <2>3
    <3> DEFINE e == mutex'[n].thread_list[k]
    <3>2. k \in DOMAIN mutex[n].thread_list /\ e = mutex[n].thread_list[k]
      BY <3>1, <2>3
    <3> HIDE DEF e
    <3>3. e \in Tasks /\ task[e].state = "WAIT" /\ task[e].waits = {n}
      BY <3>2, <1>q DEF QueueInv
    <3>4. e # w
      BY <3>1, <3>3, <2>0
    <3>5. task'[e].state = "WAIT" /\ task'[e].waits = {n}
      BY <3>3, <3>4, <2>2
    <3> QED
      BY <3>5 DEF e
  <2>8. RunInv'
    BY <1>0, <2>0, <2>2 DEF RunInv
  <2> QED
    BY <2>4, <2>5, <2>6, <2>7, <2>8
<1> QED
    BY <1>1, <1>2

-----------------------------------------------------------------------------
(* mutex.h, "Blocks the current thread if mutex is already held": for any  *)
(* processes, threads and mutexes, a mutex has at most one holder, its     *)
(* word is set as long as it has one, and nobody holds it between the      *)
(* wake-up of a waiter and its retry.                                      *)
THEOREM MutexExcludes == LegacySpec => []MutexExclusive
<1>1. IInv /\ [LegacyNext]_legacyvars => IInv'
  <2> SUFFICES ASSUME IInv, [LegacyNext]_legacyvars PROVE IInv'
    OBVIOUS
  <2>1. CASE UNCHANGED legacyvars
    BY <2>1 DEF legacyvars, IInv, Types, HolderInv, WokenInv, QueueInv, NewInv, RunInv
  <2>2. CASE LegacyNext
    <3>1. ASSUME NEW t \in Tasks, NEW m \in Mutexes,
                 acquire_mutex(t, m) \/ Woken(t, m) \/ release_mutex(t, m)
          PROVE  IInv'
      BY <3>1, AcquireStep, WokenStep, ReleaseStep
    <3>2. ASSUME NEW t \in Tasks, AddThread(t)
          PROVE  IInv'
      BY <3>2, AddThreadStep
    <3>3. ASSUME scheduler \/ NextThread \/ NextProc \/ TryThread
                 \/ (\E t \in Tasks : yield(t)) \/ \E p \in Processes : allocproc(p)
          PROVE  IInv'
      BY <3>3, SchedulerStep
    <3> QED
      BY <2>2, <3>1, <3>2, <3>3, Zenon DEF LegacyNext
  <2> QED
    BY <2>1, <2>2
<1>2. IInv => MutexExclusive
    BY DEF IInv, HolderInv, WokenInv, Types, TaskType, MutexExclusive, Runnable
<1> QED
    BY InitIInv, <1>1, <1>2, PTL DEF LegacySpec
=============================================================================
