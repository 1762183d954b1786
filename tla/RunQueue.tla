------------------------------ MODULE RunQueue ------------------------------
(***************************************************************************)
(* One CPU's run queue at the level of its pointers (sched/smp_sched.c and *)
(* push_thread_list in sched/threads.c): a circular doubly linked list of  *)
(* nodes, entered through percpu.run_queue, with a count beside it.        *)
(*                                                                         *)
(* The owner CPU rotates the ring in runqueue_get_next and unlinks its     *)
(* current thread in sched_exit, both without a lock.  Another CPU links   *)
(* and unlinks threads in sched_add_thread and sched_remove_thread; all    *)
(* such callers are serialised by sched_lock, so one remote CPU stands for *)
(* them.  One step is one C statement; ++ and -- are a load and a store.   *)
(*                                                                         *)
(* A thread is linked at most once in its life, so its node has its name.  *)
(* Every linked thread is RUNNABLE while the owner is in its loop, so      *)
(* runqueue_get_next stops at the first node.                              *)
(***************************************************************************)
EXTENDS Integers, Sequences, FiniteSets

CONSTANTS Threads, Nil

Procs == {"owner", "remote"}

VARIABLES
    q,          \* the queue in memory: head and num are percpu.run_queue and
                \* percpu.num_threads, data, next and prev the node fields
    call,       \* call[p]: the statement p is at and its locals
    running,    \* the thread the owner runs
    new,        \* threads not added yet
    gone,       \* threads that were found and unlinked (history)
    ring        \* the ring as a sequence, from its head (history)

queuevars == <<q, call, running, new, gone, ring>>

NoCall == [pc |-> "idle", thread |-> Nil, start |-> Nil, current |-> Nil, num |-> 0]

QueueInit ==
    /\ q = [head |-> Nil, num |-> 0, data |-> [n \in Threads |-> Nil],
            next |-> [n \in Threads |-> Nil], prev |-> [n \in Threads |-> Nil]]
    /\ call = [p \in Procs |-> NoCall]
    /\ running = Nil
    /\ new = Threads
    /\ gone = {}
    /\ ring = <<>>

(* A field of a node; a null pointer reads as zero (low memory is mapped). *)
Get(f, n) == IF n = Nil THEN Nil ELSE f[n]

(* A store to a node's field; through a null pointer it hits no node. *)
Set(f, n, v) == [m \in Threads |-> IF m = n THEN v ELSE f[m]]

(* One statement of p's call, which turns the queue into q2. *)
Stmt(p, from, to, q2) ==
    /\ call[p].pc = from
    /\ call' = [call EXCEPT ![p].pc = to]
    /\ q' = q2
    /\ UNCHANGED <<running, new, gone, ring>>

-----------------------------------------------------------------------------
(* runqueue_get_next on the owner; with an empty queue it runs idle. *)
GetNext ==
    /\ call["owner"].pc = "idle" /\ running = Nil /\ q.head # Nil
    /\ call' = [call EXCEPT !["owner"].pc = "rotate", !["owner"].current = q.head]
    /\ UNCHANGED <<q, running, new, gone, ring>>

Rotated == IF ring = <<>> THEN ring ELSE Append(Tail(ring), Head(ring))

(* Mistake: the head goes backwards. *)
RotateBack ==
    /\ call["owner"].pc = "rotate"
    /\ q' = [q EXCEPT !.head = Get(q.prev, call["owner"].current)]
    /\ running' = call["owner"].current
    /\ ring' = Rotated
    /\ call' = [call EXCEPT !["owner"] = NoCall]
    /\ UNCHANGED <<new, gone>>

(* run_queue = current->next, and the thread runs. *)
Rotate ==
    /\ call["owner"].pc = "rotate"
    /\ q' = [q EXCEPT !.head = Get(q.next, call["owner"].current)]
    /\ running' = call["owner"].current
    /\ ring' = Rotated
    /\ call' = [call EXCEPT !["owner"] = NoCall]
    /\ UNCHANGED <<new, gone>>

(* The thread yields, and the owner is back in its loop. *)
Yield ==
    /\ call["owner"].pc = "idle" /\ running # Nil
    /\ running' = Nil
    /\ UNCHANGED <<q, call, new, gone, ring>>

-----------------------------------------------------------------------------
(* runqueue_add_unlocked: push_thread_list, then the count. *)

(* The node is allocated and gets its data; is the list empty? *)
Push(t) ==
    /\ call["remote"].pc = "idle" /\ t \in new
    /\ new' = new \ {t}
    /\ q' = [q EXCEPT !.data[t] = t]
    /\ call' = [call EXCEPT !["remote"].thread = t,
                            !["remote"].pc = IF q.head # Nil THEN "link1" ELSE "alone"]
    /\ UNCHANGED <<running, gone, ring>>

node == call["remote"].thread

PushLink1 == Stmt("remote", "link1", "link2", [q EXCEPT !.next = Set(@, node, q.head)])
PushLink2 == Stmt("remote", "link2", "link3",
                  [q EXCEPT !.prev = Set(@, node, Get(q.prev, q.head))])
PushLink3 == Stmt("remote", "link3", "link4",
                  [q EXCEPT !.next = Set(@, Get(q.prev, q.head), node)])

(* Mistake: the head's back link is left as it was. *)
PushLink4Skipped == Stmt("remote", "link4", "count", q)

PushLink4 == Stmt("remote", "link4", "count", [q EXCEPT !.prev = Set(@, q.head, node)])

(* The first node is linked to itself, then made the head. *)
PushAlone == Stmt("remote", "alone", "head",
                  [q EXCEPT !.prev = Set(@, node, node), !.next = Set(@, node, node)])
PushHead == Stmt("remote", "head", "count", [q EXCEPT !.head = node])

(* num_threads++. *)
PushLoad ==
    /\ call["remote"].pc = "count"
    /\ call' = [call EXCEPT !["remote"].pc = "store", !["remote"].num = q.num]
    /\ UNCHANGED <<q, running, new, gone, ring>>

PushStore ==
    /\ call["remote"].pc = "store"
    /\ q' = [q EXCEPT !.num = call["remote"].num + 1]
    /\ ring' = Append(ring, node)
    /\ call' = [call EXCEPT !["remote"] = NoCall]
    /\ UNCHANGED <<running, new, gone>>

-----------------------------------------------------------------------------
(* runqueue_remove_unlocked, in sched_exit on the owner and in             *)
(* sched_remove_thread on the remote CPU.                                  *)

(* The end of the call: after sched_exit the thread no longer runs. *)
Return(p) ==
    /\ call' = [call EXCEPT ![p] = NoCall]
    /\ running' = IF p = "owner" THEN Nil ELSE running

Remove(p, t) ==
    /\ call[p].pc = "idle"
    /\ IF p = "owner" THEN t = running ELSE t \notin new
    /\ IF q.head = Nil THEN Return(p)
       ELSE /\ call' = [call EXCEPT ![p] = [pc |-> "find", thread |-> t, start |-> q.head,
                                            current |-> q.head, num |-> 0]]
            /\ UNCHANGED running
    /\ UNCHANGED <<q, new, gone, ring>>

(* The walk: on to the next node, until it is back at the start. *)
FindNext(p) ==
    LET n == Get(q.next, call[p].current) IN
    /\ call[p].pc = "find" /\ Get(q.data, call[p].current) # call[p].thread
    /\ IF n = call[p].start THEN Return(p)
       ELSE call' = [call EXCEPT ![p].current = n] /\ UNCHANGED running
    /\ UNCHANGED <<q, new, gone, ring>>

Found(p) ==
    LET n == call[p].current IN
    /\ Get(q.data, n) = call[p].thread
    /\ Stmt(p, "find", IF Get(q.next, n) = n THEN "empty" ELSE "cut1", q)

Empty(p) == Stmt(p, "empty", "free", [q EXCEPT !.head = Nil])

Cut1(p) ==
    LET n == call[p].current IN
    Stmt(p, "cut1", "cut2", [q EXCEPT !.next = Set(@, Get(q.prev, n), Get(@, n))])

Cut2(p) ==
    LET n == call[p].current IN
    Stmt(p, "cut2", "cut3", [q EXCEPT !.prev = Set(@, Get(q.next, n), Get(@, n))])

Cut3(p) ==
    LET n == call[p].current IN
    Stmt(p, "cut3", "free", [q EXCEPT !.head = IF @ = n THEN Get(q.next, n) ELSE @])

(* kfree(current) clears the page. *)
Free(p) ==
    LET n == call[p].current IN
    Stmt(p, "free", "count-", [q EXCEPT !.data = Set(@, n, Nil), !.next = Set(@, n, Nil),
                                        !.prev = Set(@, n, Nil)])

(* num_threads--. *)
RemoveLoad(p) ==
    /\ call[p].pc = "count-"
    /\ call' = [call EXCEPT ![p].pc = "store-", ![p].num = q.num]
    /\ UNCHANGED <<q, running, new, gone, ring>>

(* Mistake: the count is left as it was. *)
RemoveStoreSkipped(p) ==
    /\ call[p].pc = "store-"
    /\ gone' = gone \cup {call[p].thread}
    /\ ring' = SelectSeq(ring, LAMBDA t : t # call[p].thread)
    /\ Return(p)
    /\ UNCHANGED <<q, new>>

RemoveStore(p) ==
    /\ call[p].pc = "store-"
    /\ q' = [q EXCEPT !.num = call[p].num - 1]
    /\ gone' = gone \cup {call[p].thread}
    /\ ring' = SelectSeq(ring, LAMBDA t : t # call[p].thread)
    /\ Return(p)
    /\ UNCHANGED new

-----------------------------------------------------------------------------
RemoveStep(p) ==
    \/ \E t \in Threads : Remove(p, t)
    \/ FindNext(p) \/ Found(p) \/ Empty(p) \/ Cut1(p) \/ Cut2(p) \/ Cut3(p)
    \/ Free(p) \/ RemoveLoad(p) \/ RemoveStore(p)

OwnerStep == GetNext \/ Rotate \/ Yield \/ RemoveStep("owner")

AddStep ==
    \/ \E t \in Threads : Push(t)
    \/ PushLink1 \/ PushLink2 \/ PushLink3 \/ PushLink4 \/ PushAlone \/ PushHead
    \/ PushLoad \/ PushStore

RemoteStep == AddStep \/ RemoveStep("remote")

(* The kernel as it is: kernel_main adds threads to the queues of CPUs     *)
(* that run already; nothing calls sched_remove_thread.                    *)
QueueSpec == QueueInit /\ [][OwnerStep \/ AddStep]_queuevars

(* The same operations when none starts before the other CPU's is over. *)
QueueSerialNext ==
    \/ OwnerStep /\ call["remote"].pc = "idle"
    \/ RemoteStep /\ call["owner"].pc = "idle"

QueueSerialSpec == QueueInit /\ [][QueueSerialNext]_queuevars

-----------------------------------------------------------------------------
Quiet == \A p \in Procs : call[p].pc = "idle"

(* Between calls, the threads that belong on the ring. *)
OnRing == (Threads \ new) \ gone

(* The node i links behind the head. *)
Nth[i \in 0..Cardinality(Threads)] ==
    IF i = 0 THEN q.head ELSE Get(q.next, Nth[i - 1])

Nodes == [Threads -> Threads \cup {Nil}]

(* The types of the queue; the count, an unsigned word, never goes below   *)
(* zero nor above the threads there are.                                   *)
QueueTypeOK ==
    /\ q \in [head : Threads \cup {Nil}, num : 0..Cardinality(Threads),
              data : Nodes, next : Nodes, prev : Nodes]
    /\ running \in Threads \cup {Nil}
    /\ new \subseteq Threads

(* percpu.h: "Per-CPU run queue (circular linked list)".  Between calls    *)
(* the links from the head pass through the threads that were added and    *)
(* not removed, through each, and lead back to the head; the back links    *)
(* are the reverse.                                                        *)
CircularList ==
    Quiet =>
        /\ OnRing = {} => q.head = Nil
        /\ OnRing # {} =>
              /\ {Nth[i] : i \in 0..(Cardinality(OnRing) - 1)} = OnRing
              /\ Nth[Cardinality(OnRing)] = q.head
              /\ \A t \in OnRing : q.prev[q.next[t]] = t

(* percpu.h: "Number of threads in this CPU's run queue".  It is right     *)
(* between calls, and never leaves its type within one.                    *)
CountIsLength == QueueTypeOK /\ (Quiet => q.num = Cardinality(OnRing))

(* The pointers hold the sequence that the scheduler's model works on:     *)
(* a push is at its end, a pick moves its first thread to the end, and a   *)
(* removal leaves the order of the others alone.                           *)
RoundRobinOrder ==
    Quiet => \A i \in 1..Len(ring) : ring[i] = Nth[i - 1]

(* All three: the ring is whole, counted right and in order.               *)
RunQueueSound == CircularList /\ CountIsLength /\ RoundRobinOrder
=============================================================================
