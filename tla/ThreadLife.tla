----------------------------- MODULE ThreadLife -----------------------------
(***************************************************************************)
(* What the scheduler promises its threads, whatever its queues look like: *)
(* a thread is admitted once, executes on one processor at a time, a       *)
(* processor executes one thread at a time, and a thread that is gone      *)
(* never executes again.                                                   *)
(***************************************************************************)
CONSTANTS Cpus, Threads, NoThread

VARIABLES
    phase,      \* phase[t]: "new", "ready", "on" or "gone"
    running     \* running[c]: the thread CPU c executes, or NoThread

Init ==
    /\ phase = [t \in Threads |-> "new"]
    /\ running = [c \in Cpus |-> NoThread]

Admit(t) ==
    /\ phase[t] = "new"
    /\ phase' = [phase EXCEPT ![t] = "ready"]
    /\ UNCHANGED running

Dispatch(t, c) ==
    /\ phase[t] = "ready" /\ running[c] = NoThread
    /\ phase' = [phase EXCEPT ![t] = "on"]
    /\ running' = [running EXCEPT ![c] = t]

(* The thread stops executing; it is ready again, or gone. *)
Stop(t, c, after) ==
    /\ running[c] = t
    /\ phase' = [phase EXCEPT ![t] = after]
    /\ running' = [running EXCEPT ![c] = NoThread]

(* A thread that is not executing is removed. *)
Remove(t) ==
    /\ phase[t] = "ready"
    /\ phase' = [phase EXCEPT ![t] = "gone"]
    /\ UNCHANGED running

Next ==
    \E t \in Threads :
        \/ Admit(t)
        \/ Remove(t)
        \/ \E c \in Cpus : Dispatch(t, c) \/ Stop(t, c, "ready") \/ Stop(t, c, "gone")

Spec == Init /\ [][Next]_<<phase, running>>
=============================================================================
