--------------------------- MODULE SmpSchedProofs ---------------------------
(***************************************************************************)
(* The safety properties of SmpSched for any number of CPUs and threads,   *)
(* and that the scheduler implements ThreadLife.                           *)
(***************************************************************************)
EXTENDS SmpSched, WellFoundedInduction, TLAPS

Distinct(q) == \A i, j \in 1..Len(q) : q[i] = q[j] => i = j

(* The first member of a set on a ring exists as soon as one is on it. *)
LEMMA FirstInFinds ==
    ASSUME NEW q \in Seq(Threads), NEW S, \E i \in 1..Len(q) : q[i] \in S
    PROVE  FirstIn(q, S) \in 1..Len(q) /\ q[FirstIn(q, S)] \in S
<1> DEFINE R == OpToRel(<, Nat)
           T == {i \in 1..Len(q) : q[i] \in S}
<1>1. IsWellFoundedOn(R, Nat) BY NatLessThanWellFounded
<1>2. T \subseteq Nat /\ T # {} OBVIOUS
<1>3. PICK i \in T : \A j \in T : ~(<<j, i>> \in R) 
    <2> HIDE DEF R, T
    <2> QED BY <1>1, <1>2, WFMin
<1>4. \A j \in Nat : j < i => <<j, i>> \in R
    BY <1>2, <1>3, Zenon DEF OpToRel
<1> HIDE DEF R
<1>5. \A j \in 1..(i - 1) : q[j] \notin S
    <2> SUFFICES ASSUME NEW j \in 1..(i - 1), q[j] \in S PROVE FALSE OBVIOUS
    <2>1. i \in 1..Len(q) /\ Len(q) \in Nat OBVIOUS
    <2>2. j \in T /\ j \in Nat /\ j < i BY <2>1
    <2> HIDE DEF T
    <2> QED BY <1>3, <1>4, <2>2
<1> QED BY <1>3, <1>5 DEF FirstIn

LEMMA HeadAfterKeeps ==
    ASSUME NEW q \in Seq(Threads), NEW i \in 1..Len(q)
    PROVE  /\ HeadAfter(q, i) \in Seq(Threads)
           /\ Len(HeadAfter(q, i)) = Len(q)
           /\ \A t : Contains(HeadAfter(q, i), t) <=> Contains(q, t)
           /\ Distinct(q) => Distinct(HeadAfter(q, i))
<1> DEFINE n == Len(q)
           h == HeadAfter(q, i)
           at(j) == IF j + i <= n THEN j + i ELSE j + i - n
<1>0. n \in Nat /\ \A j \in 1..n : q[j] \in Threads OBVIOUS
<1>1. \A j \in 1..n : at(j) \in 1..n /\ h[j] = q[at(j)] BY <1>0 DEF HeadAfter
<1>2. h \in Seq(Threads) /\ Len(h) = n
    <2>1. h \in [1..n -> Threads] BY <1>0, <1>1 DEF HeadAfter
    <2> HIDE DEF h, n
    <2> QED BY <2>1, <1>0
<1>3. ASSUME NEW k \in 1..n PROVE \E j \in 1..n : at(j) = k
    <2>1. CASE k > i
       <3>1. k - i \in 1..n /\ at(k - i) = k BY <2>1, <1>0
       <3> QED BY <3>1
    <2>2. CASE k <= i 
       <3>1. k + n - i \in 1..n /\ at(k + n - i) = k BY <2>2, <1>0
       <3> QED BY <3>1
    <2> QED BY <2>1, <2>2, <1>0
<1>4. \A t : Contains(h, t) <=> Contains(q, t)
    <2> HIDE DEF h, n, at
    <2>1. Len(h) = n /\ Len(q) = n BY <1>2 DEF n
    <2> QED BY <1>1, <1>3, <2>1 DEF Contains
<1>5. Distinct(q) => Distinct(h)
    <2>1. \A j, k \in 1..n : at(j) = at(k) => j = k BY <1>0
    <2>2. Len(h) = n /\ Len(q) = n BY <1>2 
    <2> HIDE DEF h, n, at
    <2> QED BY <1>1, <2>1, <2>2 DEF Distinct
<1> QED BY <1>2, <1>4, <1>5

LEMMA UnlinkKeeps ==
    ASSUME NEW q \in Seq(Threads), NEW i \in 1..Len(q)
    PROVE  /\ unlink(q, i) \in Seq(Threads)
           /\ \A t : Contains(unlink(q, i), t) => Contains(q, t)
           /\ \A t : Contains(q, t) /\ t # q[i] => Contains(unlink(q, i), t)
           /\ Distinct(q) => Distinct(unlink(q, i)) /\ ~Contains(unlink(q, i), q[i])
<1> DEFINE n == Len(q)
           u == unlink(q, i)
           at(j) == IF j < i THEN j ELSE j + 1
<1>0. n \in Nat \ {0} /\ n - 1 \in Nat /\ \A j \in 1..n : q[j] \in Threads OBVIOUS
<1>1. \A j \in 1..(n - 1) : at(j) \in 1..n /\ at(j) # i /\ u[j] = q[at(j)]
    BY <1>0 DEF unlink
<1>2. u \in Seq(Threads) /\ Len(u) = n - 1
    <2>1. u \in [1..(n - 1) -> Threads] BY <1>0, <1>1 DEF unlink
    <2> HIDE DEF u, n
    <2> QED BY <2>1, <1>0
<1>3. ASSUME NEW k \in 1..n, k # i PROVE \E j \in 1..(n - 1) : at(j) = k
    <2>1. CASE k < i
       <3>1. k \in 1..(n - 1) /\ at(k) = k BY <2>1, <1>0
       <3> QED BY <3>1
    <2>2. CASE k > i
       <3>1. k - 1 \in 1..(n - 1) /\ at(k - 1) = k BY <2>2, <1>0
       <3> QED BY <3>1
    <2> QED BY <2>1, <2>2, <1>0, <1>3
<1>4. \A j, k \in 1..(n - 1) : at(j) = at(k) => j = k BY <1>0
<1>5. Len(u) = n - 1 /\ Len(q) = n BY <1>2
<1> HIDE DEF u, n, at
<1>6. \A t : Contains(u, t) => Contains(q, t) BY <1>1, <1>5 DEF Contains
<1>7. \A t : Contains(q, t) /\ t # q[i] => Contains(u, t)
    BY <1>1, <1>3, <1>5 DEF Contains
<1>8. Distinct(q) => Distinct(u) BY <1>1, <1>4, <1>5 DEF Distinct
<1>9. Distinct(q) => ~Contains(u, q[i])
    BY <1>1, <1>5 DEF Distinct, Contains, n
<1> QED BY <1>2, <1>6, <1>7, <1>8, <1>9 DEF u

LEMMA AppendKeeps ==
    ASSUME NEW q \in Seq(Threads), NEW t \in Threads
    PROVE  /\ Append(q, t) \in Seq(Threads)
           /\ \A u : Contains(Append(q, t), u) <=> Contains(q, u) \/ u = t
           /\ Distinct(q) /\ ~Contains(q, t) => Distinct(Append(q, t))
<1> DEFINE n == Len(q)
           a == Append(q, t)
<1>1. /\ n \in Nat /\ a \in Seq(Threads) /\ Len(a) = n + 1
      /\ a[n + 1] = t /\ \A j \in 1..n : a[j] = q[j]
    OBVIOUS
<1>2. 1..(n + 1) = (1..n) \cup {n + 1} BY <1>1
<1>3. Len(q) = n OBVIOUS
<1> HIDE DEF a, n
<1>4. \A u : Contains(a, u) <=> Contains(q, u) \/ u = t
    BY <1>1, <1>2, <1>3 DEF Contains
<1>5. Distinct(q) /\ ~Contains(q, t) => Distinct(a)
    BY <1>1, <1>2, <1>3 DEF Contains, Distinct
<1> QED BY <1>1, <1>4, <1>5 DEF a
-----------------------------------------------------------------------------
(* CPU c is on the stack of thread t or about to switch to it. *)
Busy(c, t) == pc[c] # "loop" /\ next[c] = t

(* The rings are disjoint and without repetition. *)
RingInv ==
    /\ \A c \in Cpus : Distinct(run_queue[c])
    /\ \A c, d \in Cpus, t \in Threads :
          Contains(run_queue[c], t) /\ Contains(run_queue[d], t) => c = d

(* A CPU that is busy with a thread is alone with it, and the thread is    *)
(* linked on that CPU's ring or on none.                                   *)
BusyInv ==
    \A c, d \in Cpus, t \in Threads :
        Busy(c, t) /\ (Busy(d, t) \/ Contains(run_queue[d], t)) => c = d

(* Where a CPU is says what state its thread is in and what current_thread *)
(* is.                                                                     *)
CpuInv(c) ==
    /\ pc[c] \notin {"scan", "migrate"}
    /\ pc[c] = "off" => next[c] \notin Threads
    /\ pc[c] \in {"yield", "exit", "unlinked"} => next[c] \in Threads
    /\ next[c] \in Threads =>
          /\ pc[c] \in {"picked", "current", "yield"} => state[next[c]] = "RUNNABLE"
          /\ pc[c] \in {"run", "push"} => state[next[c]] = "ON_CPU"
          /\ pc[c] \in {"exit", "unlinked"} => state[next[c]] = "EXIT"
          /\ pc[c] \in {"current", "run", "push", "yield", "exit"}
                => current_thread[c] = next[c]
    /\ pc[c] = "picked" => next[c] \in Threads \cup {Idle}
    /\ pc[c] = "current" => next[c] \in Threads \cup {Idle} /\ current_thread[c] = next[c]
    /\ pc[c] \in {"run", "push"} /\ next[c] \notin Threads
          => current_thread[c] \in {NoThread, Idle}

(* A new thread is on no ring; an exited one only on that of the CPU that  *)
(* is about to unlink it.                                                  *)
ThreadInv ==
    \A t \in Threads, c \in Cpus : Contains(run_queue[c], t) =>
        /\ state[t] # "NEW"
        /\ state[t] = "EXIT" => pc[c] = "exit" /\ next[c] = t

(* One sched_add_thread at a time, and it is adding a new thread. *)
PushInv ==
    \A c \in Cpus : pc[c] = "push" =>
        /\ sched_lock = 1
        /\ call[c].thread \in Threads /\ state[call[c].thread] = "NEW"
        /\ \A d \in Cpus : pc[d] = "push" => d = c

(* The inductive invariant. *)
IInv ==
    /\ TypeOK
    /\ RingInv
    /\ BusyInv
    /\ \A c \in Cpus : CpuInv(c)
    /\ ThreadInv
    /\ PushInv
    /\ AdmittedIsLinked

-----------------------------------------------------------------------------
LEMMA InitIInv == Init => IInv
<1> SUFFICES ASSUME Init PROVE IInv OBVIOUS
<1> USE SchedAssumption
<1>0. 0 \in Cpus BY DEF Cpus
<1>1. TypeOK BY <1>0 DEF Init, TypeOK, NoCall, SchedulerLabels, ThreadLabels, States
<1>2. \A c \in Cpus : \A t : ~Contains(run_queue[c], t) BY DEF Init, Contains
<1>3. RingInv /\ ThreadInv BY <1>2 DEF Init, RingInv, ThreadInv, Distinct
<1>4. BusyInv BY <1>2 DEF Init, BusyInv, Busy
<1>5. \A c \in Cpus : CpuInv(c) BY DEF Init, CpuInv
<1>6. PushInv /\ AdmittedIsLinked BY DEF Init, PushInv, AdmittedIsLinked
<1> QED BY <1>1, <1>3, <1>4, <1>5, <1>6 DEF IInv

(* current_thread is set to the picked thread. *)
LEMMA SetCurrentStep ==
    ASSUME IInv, NEW c \in Cpus, SetCurrent(c)
    PROVE  IInv'
<1> USE SchedAssumption
<1>0. TypeOK /\ RingInv /\ BusyInv /\ (\A d \in Cpus : CpuInv(d)) /\ ThreadInv /\ PushInv
      /\ AdmittedIsLinked
    BY DEF IInv
<1>1. TypeOK' BY <1>0 DEF TypeOK, SetCurrent, HasThread, Goto, CpuInv, SchedulerLabels, ThreadLabels, States
<1>2. UNCHANGED run_queue BY DEF SetCurrent
<1>3. RingInv' BY <1>0, <1>2 DEF RingInv
<1>4. BusyInv' BY <1>0, <1>2 DEF TypeOK, BusyInv, Busy, SetCurrent, HasThread, Goto
<1>5. \A d \in Cpus : CpuInv(d)'
    BY <1>0 DEF TypeOK, CpuInv, BusyInv, Busy, SetCurrent, HasThread, Goto
<1>6. ThreadInv' BY <1>0, <1>2 DEF TypeOK, ThreadInv, BusyInv, Busy, CpuInv, SetCurrent, HasThread, Goto
<1>7. PushInv' BY <1>0 DEF TypeOK, PushInv, CpuInv, SetCurrent, HasThread, Goto
<1>8. AdmittedIsLinked' BY <1>0, <1>2 DEF TypeOK, AdmittedIsLinked, CpuInv, SetCurrent, HasThread, Goto
<1> QED BY <1>1, <1>3, <1>4, <1>5, <1>6, <1>7, <1>8 DEF IInv

(* The idle thread goes back to the loop. *)
LEMMA IdleYieldStep ==
    ASSUME IInv, NEW c \in Cpus, IdleYield(c)
    PROVE  IInv'
<1> USE SchedAssumption
<1>0. TypeOK /\ RingInv /\ BusyInv /\ (\A d \in Cpus : CpuInv(d)) /\ ThreadInv /\ PushInv
      /\ AdmittedIsLinked
    BY DEF IInv
<1>1. TypeOK' BY <1>0 DEF TypeOK, IdleYield, HasThread, Goto, CpuInv, SchedulerLabels, ThreadLabels, States
<1>2. UNCHANGED run_queue BY DEF IdleYield
<1>3. RingInv' BY <1>0, <1>2 DEF RingInv
<1>4. BusyInv' BY <1>0, <1>2 DEF TypeOK, BusyInv, Busy, IdleYield, HasThread, Goto
<1>5. \A d \in Cpus : CpuInv(d)'
    BY <1>0 DEF TypeOK, CpuInv, BusyInv, Busy, IdleYield, HasThread, Goto
<1>6. ThreadInv' BY <1>0, <1>2 DEF TypeOK, ThreadInv, BusyInv, Busy, CpuInv, IdleYield, HasThread, Goto
<1>7. PushInv' BY <1>0 DEF TypeOK, PushInv, CpuInv, IdleYield, HasThread, Goto
<1>8. AdmittedIsLinked' BY <1>0, <1>2 DEF TypeOK, AdmittedIsLinked, CpuInv, IdleYield, HasThread, Goto
<1> QED BY <1>1, <1>3, <1>4, <1>5, <1>6, <1>7, <1>8 DEF IInv

(* kernel_main enters the loop. *)
LEMMA StartSchedulerStep ==
    ASSUME IInv, NEW c \in Cpus, StartScheduler(c)
    PROVE  IInv'
<1> USE SchedAssumption
<1>0. TypeOK /\ RingInv /\ BusyInv /\ (\A d \in Cpus : CpuInv(d)) /\ ThreadInv /\ PushInv
      /\ AdmittedIsLinked
    BY DEF IInv
<1>1. TypeOK' BY <1>0 DEF TypeOK, StartScheduler, HasThread, Goto, CpuInv, SchedulerLabels, ThreadLabels, States
<1>2. UNCHANGED run_queue BY DEF StartScheduler
<1>3. RingInv' BY <1>0, <1>2 DEF RingInv
<1>4. BusyInv' BY <1>0, <1>2 DEF TypeOK, BusyInv, Busy, StartScheduler, HasThread, Goto
<1>5. \A d \in Cpus : CpuInv(d)'
    BY <1>0 DEF TypeOK, CpuInv, BusyInv, Busy, StartScheduler, HasThread, Goto
<1>6. ThreadInv' BY <1>0, <1>2 DEF TypeOK, ThreadInv, BusyInv, Busy, CpuInv, StartScheduler, HasThread, Goto
<1>7. PushInv' BY <1>0 DEF TypeOK, PushInv, CpuInv, StartScheduler, HasThread, Goto
<1>8. AdmittedIsLinked' BY <1>0, <1>2 DEF TypeOK, AdmittedIsLinked, CpuInv, StartScheduler, HasThread, Goto
<1> QED BY <1>1, <1>3, <1>4, <1>5, <1>6, <1>7, <1>8 DEF IInv

(* A thread that yielded is switched away from. *)
LEMMA YieldSwitchStep ==
    ASSUME IInv, NEW c \in Cpus, YieldSwitch(c)
    PROVE  IInv'
<1> USE SchedAssumption
<1>0. TypeOK /\ RingInv /\ BusyInv /\ (\A d \in Cpus : CpuInv(d)) /\ ThreadInv /\ PushInv
      /\ AdmittedIsLinked
    BY DEF IInv
<1>1. TypeOK' BY <1>0 DEF TypeOK, YieldSwitch, HasThread, Goto, CpuInv, SchedulerLabels, ThreadLabels, States
<1>2. UNCHANGED run_queue BY DEF YieldSwitch
<1>3. RingInv' BY <1>0, <1>2 DEF RingInv
<1>4. BusyInv' BY <1>0, <1>2 DEF TypeOK, BusyInv, Busy, YieldSwitch, HasThread, Goto
<1>5. \A d \in Cpus : CpuInv(d)'
    BY <1>0 DEF TypeOK, CpuInv, BusyInv, Busy, YieldSwitch, HasThread, Goto
<1>6. ThreadInv' BY <1>0, <1>2 DEF TypeOK, ThreadInv, BusyInv, Busy, CpuInv, YieldSwitch, HasThread, Goto
<1>7. PushInv' BY <1>0 DEF TypeOK, PushInv, CpuInv, YieldSwitch, HasThread, Goto
<1>8. AdmittedIsLinked' BY <1>0, <1>2 DEF TypeOK, AdmittedIsLinked, CpuInv, YieldSwitch, HasThread, Goto
<1> QED BY <1>1, <1>3, <1>4, <1>5, <1>6, <1>7, <1>8 DEF IInv

(* A thread that exited is switched away from. *)
LEMMA ExitSwitchStep ==
    ASSUME IInv, NEW c \in Cpus, ExitSwitch(c)
    PROVE  IInv'
<1> USE SchedAssumption
<1>0. TypeOK /\ RingInv /\ BusyInv /\ (\A d \in Cpus : CpuInv(d)) /\ ThreadInv /\ PushInv
      /\ AdmittedIsLinked
    BY DEF IInv
<1>1. TypeOK' BY <1>0 DEF TypeOK, ExitSwitch, HasThread, Goto, CpuInv, SchedulerLabels, ThreadLabels, States
<1>2. UNCHANGED run_queue BY DEF ExitSwitch
<1>3. RingInv' BY <1>0, <1>2 DEF RingInv
<1>4. BusyInv' BY <1>0, <1>2 DEF TypeOK, BusyInv, Busy, ExitSwitch, HasThread, Goto
<1>5. \A d \in Cpus : CpuInv(d)'
    BY <1>0 DEF TypeOK, CpuInv, BusyInv, Busy, ExitSwitch, HasThread, Goto
<1>6. ThreadInv' BY <1>0, <1>2 DEF TypeOK, ThreadInv, BusyInv, Busy, CpuInv, ExitSwitch, HasThread, Goto
<1>7. PushInv' BY <1>0 DEF TypeOK, PushInv, CpuInv, ExitSwitch, HasThread, Goto
<1>8. AdmittedIsLinked' BY <1>0, <1>2 DEF TypeOK, AdmittedIsLinked, CpuInv, ExitSwitch, HasThread, Goto
<1> QED BY <1>1, <1>3, <1>4, <1>5, <1>6, <1>7, <1>8 DEF IInv

(* A thread marks itself RUNNABLE. *)
LEMMA sched_yieldStep ==
    ASSUME IInv, NEW c \in Cpus, sched_yield(c)
    PROVE  IInv'
<1> USE SchedAssumption
<1>0. TypeOK /\ RingInv /\ BusyInv /\ (\A d \in Cpus : CpuInv(d)) /\ ThreadInv /\ PushInv
      /\ AdmittedIsLinked
    BY DEF IInv
<1>a. next[c] \in Threads /\ current_thread[c] = next[c] /\ pc[c] = "run"
    BY <1>0 DEF TypeOK, CpuInv, HasThread, sched_yield
<1>b. \A d \in Cpus : d # c => pc[d] = "loop" \/ next[d] # next[c]
    BY <1>0, <1>a DEF BusyInv, Busy
<1>c. \A d \in Cpus : Contains(run_queue[d], next[c]) => d = c
    BY <1>0, <1>a DEF BusyInv, Busy
<1>1. TypeOK' BY <1>0 DEF TypeOK, sched_yield, HasThread, Goto, CpuInv, SchedulerLabels, ThreadLabels, States
<1>2. UNCHANGED run_queue BY DEF sched_yield
<1>3. RingInv' BY <1>0, <1>2 DEF RingInv
<1>4. BusyInv' BY <1>0, <1>2 DEF TypeOK, BusyInv, Busy, sched_yield, HasThread, Goto
<1>5. \A d \in Cpus : CpuInv(d)'
    BY <1>0, <1>a, <1>b, <1>c DEF TypeOK, CpuInv, sched_yield, HasThread, Goto
<1>6. ThreadInv' BY <1>0, <1>2, <1>a, <1>b, <1>c DEF TypeOK, ThreadInv, CpuInv, sched_yield, HasThread, Goto
<1>7. PushInv' BY <1>0 DEF TypeOK, PushInv, CpuInv, sched_yield, HasThread, Goto
<1>8. AdmittedIsLinked' BY <1>0, <1>2 DEF TypeOK, AdmittedIsLinked, CpuInv, sched_yield, HasThread, Goto
<1> QED BY <1>1, <1>3, <1>4, <1>5, <1>6, <1>7, <1>8 DEF IInv

(* A thread marks itself EXIT. *)
LEMMA sched_exitStep ==
    ASSUME IInv, NEW c \in Cpus, sched_exit(c)
    PROVE  IInv'
<1> USE SchedAssumption
<1>0. TypeOK /\ RingInv /\ BusyInv /\ (\A d \in Cpus : CpuInv(d)) /\ ThreadInv /\ PushInv
      /\ AdmittedIsLinked
    BY DEF IInv
<1>a. next[c] \in Threads /\ current_thread[c] = next[c] /\ pc[c] = "run"
    BY <1>0 DEF TypeOK, CpuInv, HasThread, sched_exit
<1>b. \A d \in Cpus : d # c => pc[d] = "loop" \/ next[d] # next[c]
    BY <1>0, <1>a DEF BusyInv, Busy
<1>c. \A d \in Cpus : Contains(run_queue[d], next[c]) => d = c
    BY <1>0, <1>a DEF BusyInv, Busy
<1>1. TypeOK' BY <1>0 DEF TypeOK, sched_exit, HasThread, Goto, CpuInv, SchedulerLabels, ThreadLabels, States
<1>2. UNCHANGED run_queue BY DEF sched_exit
<1>3. RingInv' BY <1>0, <1>2 DEF RingInv
<1>4. BusyInv' BY <1>0, <1>2 DEF TypeOK, BusyInv, Busy, sched_exit, HasThread, Goto
<1>5. \A d \in Cpus : CpuInv(d)'
    BY <1>0, <1>a, <1>b, <1>c DEF TypeOK, CpuInv, sched_exit, HasThread, Goto
<1>6. ThreadInv' BY <1>0, <1>2, <1>a, <1>b, <1>c DEF TypeOK, ThreadInv, CpuInv, sched_exit, HasThread, Goto
<1>7. PushInv' BY <1>0 DEF TypeOK, PushInv, CpuInv, sched_exit, HasThread, Goto
<1>8. AdmittedIsLinked' BY <1>0, <1>2 DEF TypeOK, AdmittedIsLinked, CpuInv, sched_exit, HasThread, Goto
<1> QED BY <1>1, <1>3, <1>4, <1>5, <1>6, <1>7, <1>8 DEF IInv

(* The scheduler marks the picked thread ON_CPU and switches to it. *)
LEMMA SwitchToStep ==
    ASSUME IInv, NEW c \in Cpus, SwitchTo(c)
    PROVE  IInv'
<1> USE SchedAssumption
<1>0. TypeOK /\ RingInv /\ BusyInv /\ (\A d \in Cpus : CpuInv(d)) /\ ThreadInv /\ PushInv
      /\ AdmittedIsLinked
    BY DEF IInv
<1>1. TypeOK' BY <1>0 DEF TypeOK, SwitchTo, HasThread, Goto, CpuInv, SchedulerLabels, ThreadLabels, States
<1>2. UNCHANGED run_queue BY DEF SwitchTo
<1>3. RingInv' BY <1>0, <1>2 DEF RingInv
<1>4. BusyInv' BY <1>0, <1>2 DEF TypeOK, BusyInv, Busy, SwitchTo, HasThread, Goto
<1>5. \A d \in Cpus : CpuInv(d)'
    BY <1>0 DEF TypeOK, CpuInv, BusyInv, Busy, SwitchTo, HasThread, Goto
<1>6. ThreadInv' BY <1>0, <1>2 DEF TypeOK, ThreadInv, BusyInv, Busy, CpuInv, SwitchTo, HasThread, Goto
<1>7. PushInv' BY <1>0 DEF TypeOK, PushInv, CpuInv, SwitchTo, HasThread, Goto
<1>8. AdmittedIsLinked' BY <1>0, <1>2 DEF TypeOK, AdmittedIsLinked, CpuInv, SwitchTo, HasThread, Goto
<1> QED BY <1>1, <1>3, <1>4, <1>5, <1>6, <1>7, <1>8 DEF IInv

(* runqueue_get_next returns a position on the ring with a runnable        *)
(* thread, or 0.                                                           *)
LEMMA GetNextFinds ==
    ASSUME NEW q \in Seq(Threads), NEW st \in [Threads -> States],
           runqueue_get_next(q, st) # 0
    PROVE  /\ runqueue_get_next(q, st) \in 1..Len(q)
           /\ st[q[runqueue_get_next(q, st)]] = "RUNNABLE"
           /\ q[runqueue_get_next(q, st)] \in Threads
<1>1. \E i \in 1..Len(q) : q[i] \in Runnable(st)
    BY DEF runqueue_get_next, FirstIn
<1>2. /\ FirstIn(q, Runnable(st)) \in 1..Len(q)
      /\ q[FirstIn(q, Runnable(st))] \in Runnable(st)
    BY <1>1, FirstInFinds
<1> QED BY <1>2 DEF runqueue_get_next, Runnable

(* Unlinking a thread: the ring loses it and nothing else. *)
LEMMA RemoveKeeps ==
    ASSUME NEW q \in Seq(Threads), NEW t \in Threads, Distinct(q)
    PROVE  /\ runqueue_remove_unlocked(q, t) \in Seq(Threads)
           /\ Distinct(runqueue_remove_unlocked(q, t))
           /\ \A u : Contains(runqueue_remove_unlocked(q, t), u)
                       <=> Contains(q, u) /\ u # t
<1>1. CASE ~Contains(q, t) BY <1>1 DEF runqueue_remove_unlocked
<1>2. CASE Contains(q, t)
    <2> DEFINE i == FirstIn(q, {t})
    <2>1. i \in 1..Len(q) /\ q[i] = t BY <1>2, FirstInFinds DEF Contains
    <2>2. runqueue_remove_unlocked(q, t) = unlink(q, i)
        BY <1>2 DEF runqueue_remove_unlocked
    <2> HIDE DEF i
    <2> QED BY <2>1, <2>2, UnlinkKeeps
<1> QED BY <1>1, <1>2

(* The scheduler picks a thread of its own ring, which no CPU is busy      *)
(* with, or its idle thread.                                               *)
LEMMA PickStep ==
    ASSUME IInv, NEW c \in Cpus, Pick(c)
    PROVE  IInv'
<1> USE SchedAssumption
<1>0. TypeOK /\ RingInv /\ BusyInv /\ (\A d \in Cpus : CpuInv(d)) /\ ThreadInv /\ PushInv
      /\ AdmittedIsLinked
    BY DEF IInv
<1> DEFINE q == run_queue[c]
           i == runqueue_get_next(q, state)
<1>a. q \in Seq(Threads) /\ pc[c] = "loop" BY <1>0 DEF TypeOK, Pick
<1>b. /\ run_queue'[c] \in Seq(Threads)
      /\ Distinct(run_queue'[c])
      /\ \A t : Contains(run_queue'[c], t) <=> Contains(q, t)
      /\ \A d \in Cpus : d # c => run_queue'[d] = run_queue[d]
      /\ run_queue' \in [Cpus -> Seq(Threads)]
      /\ next' = [next EXCEPT ![c] = next'[c]]
      /\ \/ next'[c] = Idle
         \/ next'[c] \in Threads /\ state[next'[c]] = "RUNNABLE" /\ Contains(q, next'[c])
    <2>1. CASE i = 0
        BY <1>0, <1>a, <2>1 DEF Pick, TypeOK, RingInv
    <2>2. CASE i # 0
        <3>1. i \in 1..Len(q) /\ state[q[i]] = "RUNNABLE" /\ q[i] \in Threads
            BY <1>0, <1>a, <2>2, GetNextFinds DEF TypeOK
        <3>2. /\ HeadAfter(q, i) \in Seq(Threads) /\ Distinct(HeadAfter(q, i))
              /\ \A t : Contains(HeadAfter(q, i), t) <=> Contains(q, t)
            BY <1>0, <1>a, <3>1, HeadAfterKeeps DEF RingInv
        <3>3. /\ run_queue' = [run_queue EXCEPT ![c] = HeadAfter(q, i)]
              /\ next' = [next EXCEPT ![c] = q[i]]
            BY <2>2 DEF Pick
        <3>4. Contains(q, q[i]) BY <3>1 DEF Contains
        <3> HIDE DEF i, q
        <3>5. run_queue'[c] = HeadAfter(q, i) /\ next'[c] = q[i]
            BY <1>0, <3>3 DEF TypeOK
        <3> QED BY <1>0, <3>1, <3>2, <3>3, <3>4, <3>5 DEF TypeOK
    <2> QED BY <2>1, <2>2
<1>c. \A d \in Cpus, t \in Threads :
        Contains(run_queue'[d], t) <=> Contains(run_queue[d], t)
    BY <1>b
<1>d. pc' = [pc EXCEPT ![c] = "picked"]
      /\ UNCHANGED <<state, current_thread, sched_lock, call, scan, removed>>
    BY DEF Pick, Goto
<1> HIDE DEF q, i
<1>1. TypeOK'
    <2>1. pc' \in [Cpus -> SchedulerLabels \cup ThreadLabels \cup {"off"}]
        BY <1>0, <1>d DEF TypeOK, SchedulerLabels
    <2>2. next' \in [Cpus -> Threads \cup {NoThread, Idle, Boot}]
        BY <1>0, <1>b DEF TypeOK
    <2> QED BY <1>0, <1>b, <1>d, <2>1, <2>2 DEF TypeOK
<1>3. RingInv' BY <1>0, <1>b, <1>c DEF RingInv
<1>4. BusyInv' BY <1>0, <1>a, <1>b, <1>c, <1>d DEF BusyInv, Busy, RingInv, TypeOK, q
<1>5. \A d \in Cpus : CpuInv(d)' BY <1>0, <1>b, <1>d DEF CpuInv, TypeOK
<1>6. ThreadInv' BY <1>0, <1>a, <1>b, <1>c, <1>d DEF ThreadInv, TypeOK
<1>7. PushInv' BY <1>0, <1>d DEF PushInv, TypeOK
<1>8. AdmittedIsLinked' BY <1>0, <1>c, <1>d DEF AdmittedIsLinked
<1> QED BY <1>1, <1>3, <1>4, <1>5, <1>6, <1>7, <1>8 DEF IInv

(* sched_exit unlinks its thread from its own CPU's ring. *)
LEMMA ExitUnlinkStep ==
    ASSUME IInv, NEW c \in Cpus, ExitUnlink(c)
    PROVE  IInv'
<1> USE SchedAssumption
<1>0. TypeOK /\ RingInv /\ BusyInv /\ (\A d \in Cpus : CpuInv(d)) /\ ThreadInv /\ PushInv
      /\ AdmittedIsLinked
    BY DEF IInv
<1> DEFINE q == run_queue[c]
           t == next[c]
           r == runqueue_remove_unlocked(q, t)
<1>a. /\ pc[c] = "exit" /\ t \in Threads /\ current_thread[c] = t /\ state[t] = "EXIT"
      /\ q \in Seq(Threads) /\ Distinct(q)
    BY <1>0 DEF TypeOK, RingInv, CpuInv, ExitUnlink
<1>b. /\ r \in Seq(Threads) /\ Distinct(r)
      /\ \A u : Contains(r, u) <=> Contains(q, u) /\ u # t
    BY <1>a, RemoveKeeps
<1>c. /\ run_queue' = [run_queue EXCEPT ![c] = r]
      /\ current_thread' = [current_thread EXCEPT ![c] = NoThread]
      /\ pc' = [pc EXCEPT ![c] = "unlinked"]
      /\ UNCHANGED <<state, next, sched_lock, call, scan, removed>>
    BY <1>a DEF ExitUnlink, Goto
<1>d. \A d \in Cpus, u \in Threads :
        Contains(run_queue'[d], u) <=> Contains(run_queue[d], u) /\ ~(d = c /\ u = t)
    BY <1>0, <1>b, <1>c DEF TypeOK
<1>e. /\ t \in Threads /\ \A d \in Cpus : Contains(run_queue[d], t) => d = c
      /\ \A d \in Cpus : d # c => pc[d] = "loop" \/ next[d] # t
    BY <1>0, <1>a DEF BusyInv, Busy
<1> HIDE DEF q, r
<1>1. TypeOK' BY <1>0, <1>b, <1>c DEF TypeOK, ThreadLabels
<1>3. RingInv' BY <1>0, <1>b, <1>c, <1>d DEF RingInv, TypeOK
<1>4. BusyInv' BY <1>0, <1>a, <1>c, <1>d DEF BusyInv, Busy, TypeOK
<1>5. \A d \in Cpus : CpuInv(d)' BY <1>0, <1>a, <1>c DEF CpuInv, TypeOK
<1>6. ThreadInv' BY <1>0, <1>a, <1>c, <1>d, <1>e DEF ThreadInv, TypeOK
<1>7. PushInv' BY <1>0, <1>a, <1>c DEF PushInv, TypeOK
<1>8. AdmittedIsLinked' BY <1>0, <1>a, <1>c, <1>d DEF AdmittedIsLinked
<1> QED BY <1>1, <1>3, <1>4, <1>5, <1>6, <1>7, <1>8 DEF IInv

(* sched_remove_thread unlinks a thread from the ring it is on. *)
LEMMA RemoveStep ==
    ASSUME IInv, NEW c \in Cpus, NEW t \in Threads, sched_remove_thread(c, t)
    PROVE  IInv'
<1> USE SchedAssumption
<1>0. TypeOK /\ RingInv /\ BusyInv /\ (\A d \in Cpus : CpuInv(d)) /\ ThreadInv /\ PushInv
      /\ AdmittedIsLinked
    BY DEF IInv
<1>a. PICK d \in Cpus : run_queue' = [run_queue EXCEPT ![d] =
                                         runqueue_remove_unlocked(@, t)]
    BY DEF sched_remove_thread
<1>b. /\ removed' = removed \cup {t}
      /\ UNCHANGED <<state, current_thread, pc, next, sched_lock, call, scan>>
    BY DEF sched_remove_thread
<1> DEFINE r == runqueue_remove_unlocked(run_queue[d], t)
<1>c. /\ r \in Seq(Threads) /\ Distinct(r)
      /\ \A u : Contains(r, u) <=> Contains(run_queue[d], u) /\ u # t
    BY <1>0, RemoveKeeps DEF TypeOK, RingInv
<1>d. run_queue' = [run_queue EXCEPT ![d] = r] BY <1>a
<1> HIDE DEF r
<1>e. \A e \in Cpus, u \in Threads :
        Contains(run_queue'[e], u) <=> Contains(run_queue[e], u) /\ ~(e = d /\ u = t)
    BY <1>0, <1>c, <1>d DEF TypeOK
<1>1. TypeOK' BY <1>0, <1>b, <1>c, <1>d DEF TypeOK
<1>3. RingInv' BY <1>0, <1>c, <1>d, <1>e DEF RingInv, TypeOK
<1>4. BusyInv' BY <1>0, <1>b, <1>e DEF BusyInv, Busy
<1>5. \A e \in Cpus : CpuInv(e)' BY <1>0, <1>b DEF CpuInv
<1>6. ThreadInv' BY <1>0, <1>b, <1>e DEF ThreadInv
<1>7. PushInv' BY <1>0, <1>b DEF PushInv
<1>8. AdmittedIsLinked' BY <1>0, <1>b, <1>e DEF AdmittedIsLinked
<1> QED BY <1>1, <1>3, <1>4, <1>5, <1>6, <1>7, <1>8 DEF IInv

(* The scan of sched_find_least_loaded ends on a CPU that is started. *)
LEMMA LeastLoadedIsCpu ==
    ASSUME TypeOK
    PROVE  sched_find_least_loaded \in Started /\ sched_find_least_loaded \in Cpus
<1> USE SchedAssumption
<1> DEFINE R == OpToRel(<, Nat)
           T == {num_threads(c) : c \in Started}
<1>1. IsWellFoundedOn(R, Nat) BY NatLessThanWellFounded
<1>0. Started \subseteq Cpus /\ Cpus \subseteq Nat /\ 0 \in Started BY DEF Cpus
<1>2. \A c \in Started : num_threads(c) \in Nat BY <1>0 DEF TypeOK, num_threads
<1>3. T \subseteq Nat /\ T # {} BY <1>0, <1>2
<1>4. PICK m \in T : \A k \in T : ~(<<k, m>> \in R)
    <2> HIDE DEF R, T
    <2> QED BY <1>1, <1>3, WFMin
<1>5. \A k \in Nat : k < m => <<k, m>> \in R BY <1>3, <1>4, Zenon DEF OpToRel
<1> DEFINE U == {c \in Started : num_threads(c) = m}
<1>6. U \subseteq Nat /\ U # {}
    <2>1. PICK c \in Started : m = num_threads(c) BY <1>4
    <2> QED BY <1>0, <2>1
<1>7. PICK c \in U : \A k \in U : ~(<<k, c>> \in R)
    <2> HIDE DEF R, U
    <2> QED BY <1>1, <1>6, WFMin
<1>8. \A k \in Nat : k < c => <<k, c>> \in R BY <1>6, <1>7, Zenon DEF OpToRel
<1> HIDE DEF R
<1>9. \A d \in Started : ~(num_threads(d) < m)
    BY <1>2, <1>3, <1>4, <1>5
<1>10. \A d \in Started : num_threads(d) = m => ~(d < c)
    <2> SUFFICES ASSUME NEW d \in Started, num_threads(d) = m, d < c PROVE FALSE OBVIOUS
    <2>1. d \in U /\ d \in Nat BY <1>0
    <2> HIDE DEF U
    <2> QED BY <1>7, <1>8, <2>1
<1>11. c \in Started /\ num_threads(c) = m /\ m \in Nat BY <1>3, <1>4, <1>7
<1>12. \A d \in Started : \/ num_threads(c) < num_threads(d)
                          \/ num_threads(c) = num_threads(d) /\ c <= d
    <2> SUFFICES ASSUME NEW d \in Started
                 PROVE  \/ num_threads(c) < num_threads(d)
                        \/ num_threads(c) = num_threads(d) /\ c <= d
        OBVIOUS
    <2>1. num_threads(d) \in Nat /\ ~(num_threads(d) < m) BY <1>2, <1>9
    <2>2. c \in Int /\ d \in Int BY <1>0, <1>11
    <2> HIDE DEF T, U
    <2> QED BY <1>10, <1>11, <2>1, <2>2
<1> QED BY <1>0, <1>11, <1>12 DEF sched_find_least_loaded

(* sched_add_thread takes the lock and fixes the target. *)
LEMMA AddStep ==
    ASSUME IInv, NEW c \in Cpus, NEW t \in Threads, NEW k \in -1..(ncpu - 1),
           sched_add_thread(c, t, k)
    PROVE  IInv'
<1> USE SchedAssumption
<1>0. TypeOK /\ RingInv /\ BusyInv /\ (\A d \in Cpus : CpuInv(d)) /\ ThreadInv /\ PushInv
      /\ AdmittedIsLinked
    BY DEF IInv
<1>a. call'[c].cpu \in Cpus /\ call'[c].thread = t /\ call' = [call EXCEPT ![c] = call'[c]]
      /\ call' \in [Cpus -> [thread : Threads \cup {NoThread}, cpu : Cpus]]
    <2>1. sched_find_least_loaded \in Cpus
        BY <1>0, LeastLoadedIsCpu
    <2>2. k < 0 \/ k \in Cpus BY DEF Cpus
    <2> QED BY <1>0, <2>1, <2>2 DEF sched_add_thread, TypeOK
<1>b. /\ pc[c] = "run" /\ state[t] = "NEW" /\ sched_lock = 0 /\ sched_lock' = 1
      /\ pc' = [pc EXCEPT ![c] = "push"]
      /\ UNCHANGED <<run_queue, state, current_thread, next, scan, removed>>
    BY DEF sched_add_thread, MayCall, Goto
<1>1. TypeOK' BY <1>0, <1>a, <1>b DEF TypeOK, ThreadLabels
<1>3. RingInv' BY <1>0, <1>b DEF RingInv
<1>4. BusyInv' BY <1>0, <1>b DEF BusyInv, Busy, TypeOK
<1>5. \A e \in Cpus : CpuInv(e)' BY <1>0, <1>b DEF CpuInv, TypeOK
<1>6. ThreadInv' BY <1>0, <1>b DEF ThreadInv, TypeOK
<1>7. PushInv' BY <1>0, <1>a, <1>b DEF PushInv, TypeOK
<1>8. AdmittedIsLinked' BY <1>0, <1>b, SMTT(60) DEF AdmittedIsLinked
<1> QED BY <1>1, <1>3, <1>4, <1>5, <1>6, <1>7, <1>8 DEF IInv

(* sched_add_thread links the new thread and releases the lock. *)
LEMMA AddPushStep ==
    ASSUME IInv, NEW c \in Cpus, AddPush(c)
    PROVE  IInv'
<1> USE SchedAssumption
<1>0. TypeOK /\ RingInv /\ BusyInv /\ (\A d \in Cpus : CpuInv(d)) /\ ThreadInv /\ PushInv
      /\ AdmittedIsLinked
    BY DEF IInv
<1> DEFINE t == call[c].thread
           d == call[c].cpu
           a == Append(run_queue[d], t)
<1>a. pc[c] = "push" /\ t \in Threads /\ state[t] = "NEW" /\ d \in Cpus
    BY <1>0 DEF AddPush, PushInv, TypeOK
<1>b. /\ state' = [state EXCEPT ![t] = "RUNNABLE"] /\ sched_lock' = 0
      /\ run_queue' = [run_queue EXCEPT ![d] = a]
      /\ pc' = [pc EXCEPT ![c] = "run"]
      /\ call' = [call EXCEPT ![c] = NoCall]
      /\ UNCHANGED <<current_thread, next, scan, removed>>
    BY DEF AddPush, Goto
<1>c. \A e \in Cpus : ~Contains(run_queue[e], t) BY <1>0, <1>a DEF ThreadInv
<1>d. /\ a \in Seq(Threads) /\ Distinct(a)
      /\ \A u : Contains(a, u) <=> Contains(run_queue[d], u) \/ u = t
    BY <1>0, <1>a, <1>c, AppendKeeps DEF TypeOK, RingInv
<1>e. \A e \in Cpus : pc[e] = "loop" \/ next[e] # t
    BY <1>0, <1>a, ZenonT(60) DEF CpuInv, TypeOK, SchedulerLabels, ThreadLabels
<1>f. call[c].thread = t /\ call[c].cpu = d OBVIOUS
<1> HIDE DEF a, t, d
<1>g. \A e \in Cpus, u \in Threads :
        Contains(run_queue'[e], u) <=> Contains(run_queue[e], u) \/ (e = d /\ u = t)
    BY <1>0, <1>a, <1>b, <1>d DEF TypeOK
<1>h. NoCall \in [thread : Threads \cup {NoThread}, cpu : Cpus] BY DEF NoCall, Cpus
<1>1. TypeOK' BY <1>0, <1>a, <1>b, <1>d, <1>h DEF TypeOK, ThreadLabels, States
<1>3. RingInv' BY <1>0, <1>a, <1>b, <1>c, <1>d, <1>g DEF RingInv, TypeOK
<1>4. BusyInv' BY <1>0, <1>a, <1>b, <1>e, <1>g DEF BusyInv, Busy, TypeOK
<1>5. \A e \in Cpus : CpuInv(e)' BY <1>0, <1>a, <1>b, <1>e DEF CpuInv, TypeOK
<1>6. ThreadInv' BY <1>0, <1>a, <1>b, <1>c, <1>e, <1>g DEF ThreadInv, TypeOK
<1>7. PushInv' BY <1>0, <1>a, <1>b DEF PushInv, TypeOK
<1>8. AdmittedIsLinked' BY <1>0, <1>a, <1>b, <1>g DEF AdmittedIsLinked, TypeOK
<1> QED BY <1>1, <1>3, <1>4, <1>5, <1>6, <1>7, <1>8 DEF IInv

-----------------------------------------------------------------------------
(* The inductive invariant holds in every reachable state. *)
THEOREM Inductive == Spec => []IInv
<1>1. Init => IInv BY InitIInv
<1>2. IInv /\ [Next]_vars => IInv'
    <2> SUFFICES ASSUME IInv, [Next]_vars PROVE IInv' OBVIOUS
    <2>0. CASE UNCHANGED vars
        BY <2>0 DEF vars, IInv, TypeOK, RingInv, BusyInv, Busy, CpuInv, ThreadInv, PushInv,
                    AdmittedIsLinked
    <2>1. ASSUME NEW c \in Cpus, SetCurrent(c) PROVE IInv' BY <2>1, SetCurrentStep
    <2>2. ASSUME NEW c \in Cpus, IdleYield(c) PROVE IInv' BY <2>2, IdleYieldStep
    <2>3. ASSUME NEW c \in Cpus, StartScheduler(c) PROVE IInv' BY <2>3, StartSchedulerStep
    <2>4. ASSUME NEW c \in Cpus, YieldSwitch(c) PROVE IInv' BY <2>4, YieldSwitchStep
    <2>5. ASSUME NEW c \in Cpus, ExitSwitch(c) PROVE IInv' BY <2>5, ExitSwitchStep
    <2>6. ASSUME NEW c \in Cpus, sched_yield(c) PROVE IInv' BY <2>6, sched_yieldStep
    <2>7. ASSUME NEW c \in Cpus, sched_exit(c) PROVE IInv' BY <2>7, sched_exitStep
    <2>8. ASSUME NEW c \in Cpus, SwitchTo(c) PROVE IInv' BY <2>8, SwitchToStep
    <2>9. ASSUME NEW c \in Cpus, Pick(c) PROVE IInv' BY <2>9, PickStep
    <2>10. ASSUME NEW c \in Cpus, ExitUnlink(c) PROVE IInv' BY <2>10, ExitUnlinkStep
    <2>11. ASSUME NEW c \in Cpus, AddPush(c) PROVE IInv' BY <2>11, AddPushStep
    <2>12. ASSUME NEW c \in Cpus, NEW t \in Threads, NEW i \in -1..(ncpu - 1),
                 sched_add_thread(c, t, i)
          PROVE IInv'
        BY <2>12, AddStep
    <2>13. ASSUME NEW c \in Cpus, NEW t \in Threads, sched_remove_thread(c, t)
          PROVE IInv'
        BY <2>13, RemoveStep
    <2> QED BY <2>0, <2>1, <2>2, <2>3, <2>4, <2>5, <2>6, <2>7,
            <2>8, <2>9, <2>10, <2>11, <2>12, <2>13 DEF Next, CpuStep, SchedulerStep, ThreadStep
<1> QED BY <1>1, <1>2, PTL DEF Spec

(* Type correctness of the scheduler's variables. *)
THEOREM TypeCorrect == Spec => []TypeOK
BY Inductive, PTL DEF IInv

(* No two CPUs execute, or are about to execute, one thread: what the      *)
(* per-CPU queues and the order of the steps of sched_run guarantee.       *)
THEOREM ThreadHasOneCpu == Spec => []OneCpuPerThread
<1>1. IInv => OneCpuPerThread
    BY DEF IInv, BusyInv, Busy, OneCpuPerThread, Executing, Chosen, ThreadLabels
<1> QED BY <1>1, Inductive, PTL

(* runqueue_add_unlocked and runqueue_remove_unlocked never leave a thread *)
(* linked twice.                                                           *)
THEOREM RingsDisjoint == Spec => []LinkedOnce
<1>1. IInv => LinkedOnce
    <2> SUFFICES ASSUME IInv, NEW c \in Cpus, NEW d \in Cpus,
                        NEW i \in 1..num_threads(c), NEW j \in 1..num_threads(d),
                        run_queue[c][i] = run_queue[d][j]
                 PROVE  c = d /\ i = j
        BY DEF LinkedOnce
    <2> DEFINE t == run_queue[c][i]
    <2>1. t \in Threads BY DEF IInv, TypeOK, num_threads
    <2>2. Contains(run_queue[c], t) /\ Contains(run_queue[d], t)
        BY DEF Contains, num_threads
    <2>3. c = d BY <2>1, <2>2 DEF IInv, RingInv
    <2> QED BY <2>3 DEF IInv, RingInv, Distinct, num_threads
<1> QED BY <1>1, Inductive, PTL

(* No admitted thread drops out of the queues other than by exiting or by  *)
(* sched_remove_thread.                                                    *)
THEOREM NoThreadLost == Spec => []AdmittedIsLinked
BY Inductive, PTL DEF IInv

(* sched_exit: the thread never runs again. *)
THEOREM ExitFinal == Spec => []ExitIsFinal
<1>1. IInv => ExitIsFinal
    BY DEF IInv, TypeOK, CpuInv, ThreadInv, ExitIsFinal, ExitedNeverRuns, Executing, Chosen,
           ThreadLabels, States
<1> QED BY <1>1, Inductive, PTL

(* sched_yield and sched_exit act on the thread that calls them. *)
THEOREM CallerIsCurrent == Spec => []CurrentIsCaller
<1>1. IInv => CurrentIsCaller BY DEF IInv, CpuInv, CurrentIsCaller
<1> QED BY <1>1, Inductive, PTL

-----------------------------------------------------------------------------
(* The refinement.  Ready(t): thread t is linked or picked. *)
On(t) == \E c \in Cpus : Executing(c, t)
Ready(t) == \E c \in Cpus : Contains(run_queue[c], t) \/ Chosen(c, t)

LEMMA PhaseIs ==
    /\ phase = [t \in Threads |-> IF On(t) THEN "on" ELSE IF state[t] = "NEW" THEN "new"
                                   ELSE IF Ready(t) THEN "ready" ELSE "gone"]
    /\ phase' = [t \in Threads |-> IF On(t)' THEN "on" ELSE IF state'[t] = "NEW" THEN "new"
                                    ELSE IF Ready(t)' THEN "ready" ELSE "gone"]
BY DEF phase, On, Ready

(* A step that changes neither what is executed nor, for threads that are  *)
(* not executing, whether they are new or ready, is a stutter.             *)
LEMMA StutterStep ==
    ASSUME \A t \in Threads :
              /\ On(t)' <=> On(t)
              /\ ~On(t) => (state'[t] = "NEW" <=> state[t] = "NEW") /\ (Ready(t)' <=> Ready(t)),
           \A c \in Cpus : running'[c] = running[c]
    PROVE  UNCHANGED <<phase, running>>
<1>1. phase' = phase BY PhaseIs
<1>2. running' = running BY DEF running
<1> QED BY <1>1, <1>2

LEMMA SetCurrentRefines ==
    ASSUME IInv, NEW c \in Cpus, SetCurrent(c)
    PROVE  UNCHANGED <<phase, running>>
<1> USE SchedAssumption
<1>0. TypeOK /\ RingInv /\ BusyInv /\ (\A d \in Cpus : CpuInv(d)) /\ ThreadInv /\ PushInv
    BY DEF IInv
<1>1. \A t \in Threads, d \in Cpus : (Executing(d, t)' <=> Executing(d, t))
    BY <1>0 DEF Executing, SetCurrent, HasThread, Goto, TypeOK, CpuInv, ThreadLabels
<1>2. \A t \in Threads, d \in Cpus : (Chosen(d, t)' <=> Chosen(d, t))
    BY <1>0 DEF Chosen, SetCurrent, HasThread, Goto, TypeOK, CpuInv
<1>3. UNCHANGED run_queue BY DEF SetCurrent
<1>4. \A t \in Threads : ~On(t) => state'[t] = state[t]
    BY <1>0 DEF SetCurrent, HasThread, TypeOK, CpuInv, On, Executing, ThreadLabels
<1>5. \A d \in Cpus : running'[d] = running[d]
    BY <1>0 DEF running, SetCurrent, HasThread, Goto, TypeOK, CpuInv, ThreadLabels
<1>6. \A t \in Threads : (On(t)' <=> On(t)) BY <1>1 DEF On
<1>7. \A t \in Threads : (Ready(t)' <=> Ready(t)) BY <1>2, <1>3 DEF Ready
<1> QED BY <1>4, <1>5, <1>6, <1>7, StutterStep

LEMMA IdleYieldRefines ==
    ASSUME IInv, NEW c \in Cpus, IdleYield(c)
    PROVE  UNCHANGED <<phase, running>>
<1> USE SchedAssumption
<1>0. TypeOK /\ RingInv /\ BusyInv /\ (\A d \in Cpus : CpuInv(d)) /\ ThreadInv /\ PushInv
    BY DEF IInv
<1>1. \A t \in Threads, d \in Cpus : (Executing(d, t)' <=> Executing(d, t))
    BY <1>0 DEF Executing, IdleYield, HasThread, Goto, TypeOK, CpuInv, ThreadLabels
<1>2. \A t \in Threads, d \in Cpus : (Chosen(d, t)' <=> Chosen(d, t))
    BY <1>0 DEF Chosen, IdleYield, HasThread, Goto, TypeOK, CpuInv
<1>3. UNCHANGED run_queue BY DEF IdleYield
<1>4. \A t \in Threads : ~On(t) => state'[t] = state[t]
    BY <1>0 DEF IdleYield, HasThread, TypeOK, CpuInv, On, Executing, ThreadLabels
<1>5. \A d \in Cpus : running'[d] = running[d]
    BY <1>0 DEF running, IdleYield, HasThread, Goto, TypeOK, CpuInv, ThreadLabels
<1>6. \A t \in Threads : (On(t)' <=> On(t)) BY <1>1 DEF On
<1>7. \A t \in Threads : (Ready(t)' <=> Ready(t)) BY <1>2, <1>3 DEF Ready
<1> QED BY <1>4, <1>5, <1>6, <1>7, StutterStep

LEMMA StartSchedulerRefines ==
    ASSUME IInv, NEW c \in Cpus, StartScheduler(c)
    PROVE  UNCHANGED <<phase, running>>
<1> USE SchedAssumption
<1>0. TypeOK /\ RingInv /\ BusyInv /\ (\A d \in Cpus : CpuInv(d)) /\ ThreadInv /\ PushInv
    BY DEF IInv
<1>1. \A t \in Threads, d \in Cpus : (Executing(d, t)' <=> Executing(d, t))
    BY <1>0 DEF Executing, StartScheduler, HasThread, Goto, TypeOK, CpuInv, ThreadLabels
<1>2. \A t \in Threads, d \in Cpus : (Chosen(d, t)' <=> Chosen(d, t))
    BY <1>0 DEF Chosen, StartScheduler, HasThread, Goto, TypeOK, CpuInv
<1>3. UNCHANGED run_queue BY DEF StartScheduler
<1>4. \A t \in Threads : ~On(t) => state'[t] = state[t]
    BY <1>0 DEF StartScheduler, HasThread, TypeOK, CpuInv, On, Executing, ThreadLabels
<1>5. \A d \in Cpus : running'[d] = running[d]
    BY <1>0 DEF running, StartScheduler, HasThread, Goto, TypeOK, CpuInv, ThreadLabels
<1>6. \A t \in Threads : (On(t)' <=> On(t)) BY <1>1 DEF On
<1>7. \A t \in Threads : (Ready(t)' <=> Ready(t)) BY <1>2, <1>3 DEF Ready
<1> QED BY <1>4, <1>5, <1>6, <1>7, StutterStep

LEMMA sched_yieldRefines ==
    ASSUME IInv, NEW c \in Cpus, sched_yield(c)
    PROVE  UNCHANGED <<phase, running>>
<1> USE SchedAssumption
<1>0. TypeOK /\ RingInv /\ BusyInv /\ (\A d \in Cpus : CpuInv(d)) /\ ThreadInv /\ PushInv
    BY DEF IInv
<1>1. \A t \in Threads, d \in Cpus : (Executing(d, t)' <=> Executing(d, t))
    BY <1>0 DEF Executing, sched_yield, HasThread, Goto, TypeOK, CpuInv, ThreadLabels
<1>2. \A t \in Threads, d \in Cpus : (Chosen(d, t)' <=> Chosen(d, t))
    BY <1>0 DEF Chosen, sched_yield, HasThread, Goto, TypeOK, CpuInv
<1>3. UNCHANGED run_queue BY DEF sched_yield
<1>4. \A t \in Threads : ~On(t) => state'[t] = state[t]
    BY <1>0 DEF sched_yield, HasThread, TypeOK, CpuInv, On, Executing, ThreadLabels
<1>5. \A d \in Cpus : running'[d] = running[d]
    BY <1>0 DEF running, sched_yield, HasThread, Goto, TypeOK, CpuInv, ThreadLabels
<1>6. \A t \in Threads : (On(t)' <=> On(t)) BY <1>1 DEF On
<1>7. \A t \in Threads : (Ready(t)' <=> Ready(t)) BY <1>2, <1>3 DEF Ready
<1> QED BY <1>4, <1>5, <1>6, <1>7, StutterStep

LEMMA sched_exitRefines ==
    ASSUME IInv, NEW c \in Cpus, sched_exit(c)
    PROVE  UNCHANGED <<phase, running>>
<1> USE SchedAssumption
<1>0. TypeOK /\ RingInv /\ BusyInv /\ (\A d \in Cpus : CpuInv(d)) /\ ThreadInv /\ PushInv
    BY DEF IInv
<1>1. \A t \in Threads, d \in Cpus : (Executing(d, t)' <=> Executing(d, t))
    BY <1>0 DEF Executing, sched_exit, HasThread, Goto, TypeOK, CpuInv, ThreadLabels
<1>2. \A t \in Threads, d \in Cpus : (Chosen(d, t)' <=> Chosen(d, t))
    BY <1>0 DEF Chosen, sched_exit, HasThread, Goto, TypeOK, CpuInv
<1>3. UNCHANGED run_queue BY DEF sched_exit
<1>4. \A t \in Threads : ~On(t) => state'[t] = state[t]
    BY <1>0 DEF sched_exit, HasThread, TypeOK, CpuInv, On, Executing, ThreadLabels
<1>5. \A d \in Cpus : running'[d] = running[d]
    BY <1>0 DEF running, sched_exit, HasThread, Goto, TypeOK, CpuInv, ThreadLabels
<1>6. \A t \in Threads : (On(t)' <=> On(t)) BY <1>1 DEF On
<1>7. \A t \in Threads : (Ready(t)' <=> Ready(t)) BY <1>2, <1>3 DEF Ready
<1> QED BY <1>4, <1>5, <1>6, <1>7, StutterStep

(* A step that changes these things for one thread changes its phase only. *)
LEMMA OnePhaseStep ==
    ASSUME NEW t \in Threads,
           \A u \in Threads : u # t =>
              /\ On(u)' <=> On(u)
              /\ ~On(u) => (state'[u] = "NEW" <=> state[u] = "NEW") /\ (Ready(u)' <=> Ready(u))
    PROVE  phase' = [phase EXCEPT ![t] = phase'[t]]
BY PhaseIs

LEMMA PickRefines ==
    ASSUME IInv, NEW c \in Cpus, Pick(c)
    PROVE  UNCHANGED <<phase, running>>
<1> USE SchedAssumption
<1>0. TypeOK /\ RingInv /\ BusyInv /\ (\A d \in Cpus : CpuInv(d)) /\ ThreadInv /\ PushInv
    BY DEF IInv
<1> DEFINE q == run_queue[c]
           i == runqueue_get_next(q, state)
<1>a. /\ \A d \in Cpus, t \in Threads : Contains(run_queue'[d], t) <=> Contains(run_queue[d], t)
      /\ next' = [next EXCEPT ![c] = next'[c]]
      /\ next'[c] \in Threads => Contains(q, next'[c])
    <2>1. q \in Seq(Threads) BY <1>0 DEF TypeOK
    <2>2. CASE i = 0 BY <1>0, <2>2 DEF Pick, TypeOK
    <2>3. CASE i # 0
        <3>1. i \in 1..Len(q) /\ q[i] \in Threads BY <1>0, <2>1, <2>3, GetNextFinds DEF TypeOK
        <3>2. \A t : Contains(HeadAfter(q, i), t) <=> Contains(q, t)
            BY <2>1, <3>1, HeadAfterKeeps
        <3>3. /\ run_queue' = [run_queue EXCEPT ![c] = HeadAfter(q, i)]
              /\ next' = [next EXCEPT ![c] = q[i]]
            BY <2>3 DEF Pick
        <3>4. Contains(q, q[i]) BY <3>1 DEF Contains
        <3>5. run_queue[c] = q OBVIOUS
        <3> HIDE DEF i, q
        <3> QED BY <1>0, <3>1, <3>2, <3>3, <3>4, <3>5 DEF TypeOK
    <2> QED BY <2>2, <2>3
<1>b. pc[c] = "loop" /\ pc' = [pc EXCEPT ![c] = "picked"] /\ UNCHANGED state
    BY DEF Pick, Goto
<1>c. Contains(run_queue[c], next'[c]) \/ next'[c] \notin Threads BY <1>a
<1> HIDE DEF i, q
<1>1. \A t \in Threads, d \in Cpus : (Executing(d, t)' <=> Executing(d, t))
    BY <1>0, <1>a, <1>b DEF Executing, TypeOK, ThreadLabels
<1>2. \A t \in Threads, d \in Cpus : d # c => (Chosen(d, t)' <=> Chosen(d, t))
    BY <1>0, <1>a, <1>b, SMTT(60) DEF Chosen, TypeOK
<1>3. \A t \in Threads : ~Chosen(c, t) /\ (Chosen(c, t)' => Contains(run_queue[c], t))
    BY <1>0, <1>a, <1>b, <1>c, SMTT(60) DEF Chosen, TypeOK
<1>5. \A d \in Cpus : running'[d] = running[d]
    BY <1>0, <1>a, <1>b, SMTT(60) DEF running, TypeOK, ThreadLabels
<1>6. \A t \in Threads : (On(t)' <=> On(t)) BY <1>1 DEF On
<1>7. \A t \in Threads : (Ready(t)' <=> Ready(t)) BY <1>a, <1>2, <1>3, SMTT(60) DEF Ready
<1> QED BY <1>b, <1>5, <1>6, <1>7, StutterStep, SMTT(60)

LEMMA ExitUnlinkRefines ==
    ASSUME IInv, NEW c \in Cpus, ExitUnlink(c)
    PROVE  UNCHANGED <<phase, running>>
<1> USE SchedAssumption
<1>0. TypeOK /\ RingInv /\ BusyInv /\ (\A d \in Cpus : CpuInv(d)) /\ ThreadInv /\ PushInv
    BY DEF IInv
<1> DEFINE t == next[c]
<1>a. pc[c] = "exit" /\ t \in Threads /\ current_thread[c] = t /\ On(t)
    BY <1>0 DEF CpuInv, ExitUnlink, On, Executing, ThreadLabels
<1>b. pc' = [pc EXCEPT ![c] = "unlinked"] /\ UNCHANGED <<state, next>>
    BY DEF ExitUnlink, Goto
<1>c. \A d \in Cpus, u \in Threads :
        u # t => (Contains(run_queue'[d], u) <=> Contains(run_queue[d], u))
    <2>1. \A u : Contains(runqueue_remove_unlocked(run_queue[c], t), u)
                   <=> Contains(run_queue[c], u) /\ u # t
        BY <1>0, <1>a, RemoveKeeps DEF TypeOK, RingInv
    <2> QED BY <1>0, <1>a, <2>1 DEF ExitUnlink, TypeOK
<1>1. \A u \in Threads, d \in Cpus : (Executing(d, u)' <=> Executing(d, u))
    BY <1>0, <1>a, <1>b DEF Executing, TypeOK, ThreadLabels
<1>2. \A u \in Threads, d \in Cpus : (Chosen(d, u)' <=> Chosen(d, u))
    BY <1>0, <1>a, <1>b DEF Chosen, TypeOK
<1>5. \A d \in Cpus : running'[d] = running[d]
    BY <1>0, <1>a, <1>b, SMTT(60) DEF running, TypeOK, ThreadLabels
<1>6. \A u \in Threads : (On(u)' <=> On(u)) BY <1>1 DEF On
<1>7. \A u \in Threads : u # t => (Ready(u)' <=> Ready(u)) BY <1>c, <1>2 DEF Ready
<1> QED BY <1>a, <1>b, <1>5, <1>6, <1>7, StutterStep, SMTT(60)

LEMMA AddRefines ==
    ASSUME IInv, NEW c \in Cpus, NEW t \in Threads, NEW k \in -1..(ncpu - 1),
           sched_add_thread(c, t, k)
    PROVE  UNCHANGED <<phase, running>>
<1> USE SchedAssumption
<1>0. TypeOK /\ RingInv /\ BusyInv /\ (\A d \in Cpus : CpuInv(d)) /\ ThreadInv /\ PushInv
    BY DEF IInv
<1>b. /\ pc[c] = "run" /\ pc' = [pc EXCEPT ![c] = "push"]
      /\ UNCHANGED <<run_queue, state, next>>
    BY DEF sched_add_thread, MayCall, Goto
<1>1. \A u \in Threads, d \in Cpus : (Executing(d, u)' <=> Executing(d, u))
    BY <1>0, <1>b DEF Executing, TypeOK, ThreadLabels
<1>2. \A u \in Threads, d \in Cpus : (Chosen(d, u)' <=> Chosen(d, u))
    BY <1>0, <1>b DEF Chosen, TypeOK
<1>5. \A d \in Cpus : running'[d] = running[d]
    BY <1>0, <1>b DEF running, TypeOK, ThreadLabels
<1>6. \A u \in Threads : (On(u)' <=> On(u)) BY <1>1 DEF On
<1>7. \A u \in Threads : (Ready(u)' <=> Ready(u)) BY <1>b, <1>2 DEF Ready
<1> QED BY <1>b, <1>5, <1>6, <1>7, StutterStep

(* The switch to a picked thread is its dispatch. *)
LEMMA SwitchToRefines ==
    ASSUME IInv, NEW c \in Cpus, SwitchTo(c)
    PROVE  [Life!Next]_<<phase, running>>
<1> USE SchedAssumption
<1>0. TypeOK /\ RingInv /\ BusyInv /\ (\A d \in Cpus : CpuInv(d)) /\ ThreadInv /\ PushInv
    BY DEF IInv
<1>t. PICK t : t = next[c] OBVIOUS
<1>a. /\ pc[c] = "current" /\ pc' = [pc EXCEPT ![c] = "run"] /\ UNCHANGED <<run_queue, next>>
      /\ state' = [u \in Threads |-> IF u = t THEN "ON_CPU" ELSE state[u]]
    BY <1>t DEF SwitchTo, Goto
<1>1. \A u \in Threads, d \in Cpus :
        u # t => /\ Executing(d, u)' <=> Executing(d, u)
                 /\ Chosen(d, u)' <=> Chosen(d, u)
    BY <1>0, <1>t, <1>a DEF Executing, Chosen, TypeOK, ThreadLabels
<1>2. \A u \in Threads : u # t => (On(u)' <=> On(u)) /\ (Ready(u)' <=> Ready(u))
    BY <1>1, <1>a DEF On, Ready
<1>3. \A d \in Cpus : d # c => running'[d] = running[d]
    BY <1>0, <1>t, <1>a DEF running, TypeOK
<1>4. CASE t \in Threads
    <2>1. Executing(c, t)' /\ Chosen(c, t) /\ state[t] = "RUNNABLE"
        BY <1>0, <1>t, <1>4, <1>a DEF Executing, Chosen, TypeOK, ThreadLabels, CpuInv
    <2>2. \A d \in Cpus : ~Executing(d, t)
        BY <1>0, <1>t, <1>4, <1>a DEF Executing, BusyInv, Busy, ThreadLabels
    <2>3. On(t)' /\ ~On(t) /\ Ready(t) BY <2>1, <2>2 DEF On, Ready
    <2>4. phase[t] = "ready" /\ phase'[t] = "on" BY <1>4, <2>1, <2>3, PhaseIs
    <2>5. phase' = [phase EXCEPT ![t] = "on"]
        BY <1>4, <1>2, <1>a, <2>4, OnePhaseStep, SMTT(60)
    <2>6. running[c] = NoThread /\ running'[c] = t
        BY <1>0, <1>t, <1>4, <1>a, SMTT(60) DEF running, TypeOK, ThreadLabels
    <2>7. running' = [running EXCEPT ![c] = t] BY <1>3, <2>6 DEF running
    <2> QED BY <1>4, <2>4, <2>5, <2>6, <2>7, ZenonT(60) DEF Life!Next, Life!Admit, Life!Dispatch, Life!Stop, Life!Remove
<1>5. CASE t \notin Threads
    <2>1. \A u \in Threads : state'[u] = state[u] BY <1>a, <1>5
    <2>2. running'[c] = running[c] BY <1>0, <1>t, <1>5, <1>a DEF running, TypeOK
    <2> QED BY <1>2, <1>3, <1>5, <2>1, <2>2, StutterStep
<1> QED BY <1>4, <1>5

(* Facts about a switch back to the scheduler. *)
LEMMA SwitchBack ==
    ASSUME IInv, NEW c \in Cpus, next[c] \in Threads, pc[c] \in {"yield", "unlinked"},
           pc' = [pc EXCEPT ![c] = "loop"],
           UNCHANGED <<run_queue, state, next>>
    PROVE  /\ ~On(next[c])'
           /\ state'[next[c]] # "NEW"
           /\ phase' = [phase EXCEPT ![next[c]] = phase'[next[c]]]
           /\ running[c] = next[c]
           /\ running' = [running EXCEPT ![c] = NoThread]
<1> USE SchedAssumption
<1>0. TypeOK /\ RingInv /\ BusyInv /\ (\A d \in Cpus : CpuInv(d)) /\ ThreadInv /\ PushInv
    BY DEF IInv
<1> DEFINE t == next[c]
<1>1. \A u \in Threads, d \in Cpus :
        /\ u # t => (Executing(d, u)' <=> Executing(d, u))
        /\ Chosen(d, u)' <=> Chosen(d, u)
    BY <1>0, SMTT(60) DEF Executing, Chosen, TypeOK, ThreadLabels
<1>2. \A u \in Threads : u # t => (On(u)' <=> On(u)) /\ (Ready(u)' <=> Ready(u))
    BY <1>1 DEF On, Ready
<1>3. \A d \in Cpus : ~Executing(d, t)'
    BY <1>0, ZenonT(60) DEF Executing, BusyInv, Busy, ThreadLabels, TypeOK
<1>4. ~On(t)' BY <1>3 DEF On
<1>5. phase' = [phase EXCEPT ![t] = phase'[t]] BY <1>2, OnePhaseStep
<1>6. running[c] = t /\ running'[c] = NoThread BY <1>0 DEF running, TypeOK, ThreadLabels
<1>7. \A d \in Cpus : d # c => running'[d] = running[d] BY <1>0 DEF running, TypeOK
<1>8. running' = [running EXCEPT ![c] = NoThread] BY <1>6, <1>7 DEF running
<1>9. state'[t] # "NEW" BY <1>0 DEF CpuInv
<1> QED BY <1>4, <1>5, <1>6, <1>8, <1>9

(* The switch after sched_yield or sched_exit ends the execution.  A       *)
(* thread that yields is ready again unless it was removed meanwhile.      *)
LEMMA YieldSwitchRefines ==
    ASSUME IInv, NEW c \in Cpus, YieldSwitch(c)
    PROVE  [Life!Next]_<<phase, running>>
<1> USE SchedAssumption
<1>0. TypeOK /\ RingInv /\ BusyInv /\ (\A d \in Cpus : CpuInv(d)) /\ ThreadInv /\ PushInv
    BY DEF IInv
<1> DEFINE t == next[c]
<1>1. /\ pc[c] = "yield" /\ t \in Threads /\ pc' = [pc EXCEPT ![c] = "loop"]
      /\ UNCHANGED <<run_queue, state, next>>
    BY <1>0 DEF YieldSwitch, Goto, CpuInv
<1>2. /\ ~On(t)' /\ state'[t] # "NEW" /\ phase' = [phase EXCEPT ![t] = phase'[t]]
      /\ running[c] = t /\ running' = [running EXCEPT ![c] = NoThread]
    BY <1>1, SwitchBack
<1>3. phase'[t] \in {"ready", "gone"} BY <1>1, <1>2, PhaseIs
<1> HIDE DEF t
<1> QED BY <1>1, <1>2, <1>3 DEF Life!Next, Life!Admit, Life!Dispatch, Life!Stop, Life!Remove

LEMMA ExitSwitchRefines ==
    ASSUME IInv, NEW c \in Cpus, ExitSwitch(c)
    PROVE  [Life!Next]_<<phase, running>>
<1> USE SchedAssumption
<1>0. TypeOK /\ RingInv /\ BusyInv /\ (\A d \in Cpus : CpuInv(d)) /\ ThreadInv /\ PushInv
    BY DEF IInv
<1> DEFINE t == next[c]
<1>1. /\ pc[c] = "unlinked" /\ t \in Threads /\ pc' = [pc EXCEPT ![c] = "loop"]
      /\ UNCHANGED <<run_queue, state, next>>
    BY <1>0 DEF ExitSwitch, Goto, CpuInv
<1>2. /\ ~On(t)' /\ state'[t] # "NEW" /\ phase' = [phase EXCEPT ![t] = phase'[t]]
      /\ running[c] = t /\ running' = [running EXCEPT ![c] = NoThread]
    BY <1>1, SwitchBack
<1>3. phase'[t] \in {"ready", "gone"} BY <1>1, <1>2, PhaseIs
<1> HIDE DEF t
<1> QED BY <1>1, <1>2, <1>3 DEF Life!Next, Life!Admit, Life!Dispatch, Life!Stop, Life!Remove

(* Linking a new thread admits it. *)
LEMMA AddPushRefines ==
    ASSUME IInv, NEW c \in Cpus, AddPush(c)
    PROVE  [Life!Next]_<<phase, running>>
<1> USE SchedAssumption
<1>0. TypeOK /\ RingInv /\ BusyInv /\ (\A d \in Cpus : CpuInv(d)) /\ ThreadInv /\ PushInv
    BY DEF IInv
<1>t. PICK t, d : t = call[c].thread /\ d = call[c].cpu OBVIOUS
<1>a. pc[c] = "push" /\ t \in Threads /\ state[t] = "NEW" /\ d \in Cpus
    BY <1>0, <1>t DEF AddPush, PushInv, TypeOK
<1>b. /\ state' = [state EXCEPT ![t] = "RUNNABLE"]
      /\ run_queue' = [run_queue EXCEPT ![d] = Append(run_queue[d], t)]
      /\ pc' = [pc EXCEPT ![c] = "run"] /\ UNCHANGED next
    BY <1>t DEF AddPush, Goto
<1>c. \A u : Contains(Append(run_queue[d], t), u) <=> Contains(run_queue[d], u) \/ u = t
    BY <1>0, <1>a, AppendKeeps, SMTT(60) DEF TypeOK
<1>d. \A e \in Cpus, u \in Threads :
        Contains(run_queue'[e], u) <=> Contains(run_queue[e], u) \/ (e = d /\ u = t)
    BY <1>0, <1>a, <1>b, <1>c, SMTT(60) DEF TypeOK
<1>1. \A u \in Threads, e \in Cpus :
        /\ Executing(e, u)' <=> Executing(e, u)
        /\ Chosen(e, u)' <=> Chosen(e, u)
    BY <1>0, <1>a, <1>b, SMTT(60) DEF Executing, Chosen, TypeOK, ThreadLabels
<1>2. \A u \in Threads : u # t => (On(u)' <=> On(u)) /\ (Ready(u)' <=> Ready(u))
    BY <1>1, <1>d, SMTT(60) DEF On, Ready
<1>3. ~On(t) /\ ~On(t)'
    BY <1>0, <1>1, <1>a, SMTT(60) DEF On, Executing, CpuInv, ThreadLabels
<1>4. Ready(t)' BY <1>a, <1>d DEF Ready
<1>5. state'[t] = "RUNNABLE" /\ \A u \in Threads : u # t => state'[u] = state[u]
    BY <1>0, <1>a, <1>b, SMTT(60) DEF TypeOK
<1>6. phase[t] = "new" /\ phase'[t] = "ready" BY <1>a, <1>3, <1>4, <1>5, PhaseIs, SMTT(60)
<1>7. phase' = [phase EXCEPT ![t] = "ready"] BY <1>a, <1>2, <1>5, <1>6, OnePhaseStep, SMTT(60)
<1>8. UNCHANGED running
    <2>1. \A e \in Cpus : running'[e] = running[e]
        BY <1>0, <1>a, <1>b DEF running, TypeOK, ThreadLabels
    <2> QED BY <2>1 DEF running
<1> QED BY <1>a, <1>6, <1>7, <1>8, ZenonT(60) DEF Life!Next, Life!Admit, Life!Dispatch, Life!Stop, Life!Remove

(* Removing a thread that waits ends it; removing one that is picked or    *)
(* executes changes nothing yet.                                           *)
LEMMA RemoveRefines ==
    ASSUME IInv, NEW c \in Cpus, NEW t \in Threads, sched_remove_thread(c, t)
    PROVE  [Life!Next]_<<phase, running>>
<1> USE SchedAssumption
<1>0. TypeOK /\ RingInv /\ BusyInv /\ (\A d \in Cpus : CpuInv(d)) /\ ThreadInv /\ PushInv
    BY DEF IInv
<1>a. PICK d \in Cpus : /\ Contains(run_queue[d], t)
                          /\ run_queue' = [run_queue EXCEPT ![d] =
                                              runqueue_remove_unlocked(@, t)]
    BY ZenonT(60) DEF sched_remove_thread
<1>b. UNCHANGED <<state, pc, next>> BY DEF sched_remove_thread
<1>c. \A u : Contains(runqueue_remove_unlocked(run_queue[d], t), u)
               <=> Contains(run_queue[d], u) /\ u # t
    BY <1>0, RemoveKeeps DEF TypeOK, RingInv
<1>d. \A e \in Cpus, u \in Threads :
        Contains(run_queue'[e], u) <=> Contains(run_queue[e], u) /\ ~(e = d /\ u = t)
    BY <1>0, <1>a, <1>c DEF TypeOK
<1>1. \A u \in Threads, e \in Cpus :
        /\ Executing(e, u)' <=> Executing(e, u)
        /\ Chosen(e, u)' <=> Chosen(e, u)
    BY <1>b DEF Executing, Chosen
<1>2. \A u \in Threads : (On(u)' <=> On(u)) /\ (u # t => (Ready(u)' <=> Ready(u)))
    BY <1>1, <1>d DEF On, Ready
<1>3. UNCHANGED running BY <1>b DEF running
<1>4. phase' = [phase EXCEPT ![t] = phase'[t]] BY <1>2, <1>b, OnePhaseStep, SMTT(60)
<1>5. state[t] # "NEW" /\ Ready(t) BY <1>0, <1>a DEF ThreadInv, Ready
<1>6. phase'[t] = phase[t] \/ (phase[t] = "ready" /\ phase'[t] = "gone")
    BY <1>2, <1>5, <1>b, PhaseIs
<1>7. CASE phase'[t] = phase[t]
    <2>1. phase' = phase BY <1>4, <1>7, PhaseIs
    <2> QED BY <2>1, <1>3, SMTT(60)
<1>8. CASE phase[t] = "ready" /\ phase'[t] = "gone"
    BY <1>3, <1>4, <1>8 DEF Life!Next, Life!Admit, Life!Dispatch, Life!Stop, Life!Remove
<1> QED BY <1>6, <1>7, <1>8

(* The scheduler implements the thread lifecycle. *)
THEOREM Refinement == Spec => ImplementsThreadLife
<1>1. Init => Life!Init
    <2> SUFFICES ASSUME Init PROVE Life!Init OBVIOUS
    <2> USE SchedAssumption
    <2>1. \A t \in Threads : ~On(t) /\ state[t] = "NEW"
        BY DEF Init, On, Executing, ThreadLabels
    <2>2. phase = [t \in Threads |-> "new"] BY <2>1, PhaseIs
    <2>3. running = [c \in Cpus |-> NoThread] BY DEF Init, running, ThreadLabels
    <2> QED BY <2>2, <2>3 DEF Life!Init
<1>2. IInv /\ [Next]_vars => [Life!Next]_<<phase, running>>
    <2> SUFFICES ASSUME IInv, [Next]_vars PROVE [Life!Next]_<<phase, running>> OBVIOUS
    <2>0. CASE UNCHANGED vars
        <3>1. UNCHANGED <<phase, running>>
            BY <2>0 DEF vars, phase, running, Executing, Chosen
        <3> QED BY <3>1, SMTT(60)
    <2>1. ASSUME NEW c \in Cpus, SetCurrent(c) PROVE [Life!Next]_<<phase, running>>
        BY <2>1, SetCurrentRefines
    <2>2. ASSUME NEW c \in Cpus, IdleYield(c) PROVE [Life!Next]_<<phase, running>>
        BY <2>2, IdleYieldRefines
    <2>3. ASSUME NEW c \in Cpus, StartScheduler(c) PROVE [Life!Next]_<<phase, running>>
        BY <2>3, StartSchedulerRefines
    <2>4. ASSUME NEW c \in Cpus, YieldSwitch(c) PROVE [Life!Next]_<<phase, running>>
        BY <2>4, YieldSwitchRefines
    <2>5. ASSUME NEW c \in Cpus, ExitSwitch(c) PROVE [Life!Next]_<<phase, running>>
        BY <2>5, ExitSwitchRefines
    <2>6. ASSUME NEW c \in Cpus, sched_yield(c) PROVE [Life!Next]_<<phase, running>>
        BY <2>6, sched_yieldRefines
    <2>7. ASSUME NEW c \in Cpus, sched_exit(c) PROVE [Life!Next]_<<phase, running>>
        BY <2>7, sched_exitRefines
    <2>8. ASSUME NEW c \in Cpus, SwitchTo(c) PROVE [Life!Next]_<<phase, running>>
        BY <2>8, SwitchToRefines
    <2>9. ASSUME NEW c \in Cpus, Pick(c) PROVE [Life!Next]_<<phase, running>>
        BY <2>9, PickRefines
    <2>10. ASSUME NEW c \in Cpus, ExitUnlink(c) PROVE [Life!Next]_<<phase, running>>
        BY <2>10, ExitUnlinkRefines
    <2>11. ASSUME NEW c \in Cpus, AddPush(c) PROVE [Life!Next]_<<phase, running>>
        BY <2>11, AddPushRefines
    <2>12. ASSUME NEW c \in Cpus, NEW t \in Threads, NEW i \in -1..(ncpu - 1),
                 sched_add_thread(c, t, i)
          PROVE  [Life!Next]_<<phase, running>>
        BY <2>12, AddRefines
    <2>13. ASSUME NEW c \in Cpus, NEW t \in Threads, sched_remove_thread(c, t)
          PROVE  [Life!Next]_<<phase, running>>
        BY <2>13, RemoveRefines
    <2> QED BY <2>0, <2>1, <2>2, <2>3, <2>4, <2>5, <2>6, <2>7,
            <2>8, <2>9, <2>10, <2>11, <2>12, <2>13 DEF Next, CpuStep, SchedulerStep, ThreadStep
<1> QED BY <1>1, <1>2, Inductive, PTL DEF Spec, ImplementsThreadLife, Life!Spec
=============================================================================
