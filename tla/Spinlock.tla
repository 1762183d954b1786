------------------------------ MODULE Spinlock ------------------------------
(***************************************************************************)
(* The kernel's spinlocks (sync/spinlock.c) together with the per-CPU      *)
(* interrupt bookkeeping they rest on (pushcli and popcli in               *)
(* sched/percpu.c) and the interrupt handlers that take the same locks     *)
(* (idt/interrupt_handlers.c).                                             *)
(*                                                                         *)
(* A CPU runs kernel code at level 0.  While its interrupt flag is set an  *)
(* interrupt may push a handler on top, at the next level; the gates are   *)
(* interrupt gates (idt.c, type 0x8E), so the flag is clear on entry and   *)
(* iret sets it again.  Handlers take locks like any other code.  A third  *)
(* level exists in the model only so that a handler that is itself         *)
(* interrupted would be seen.                                              *)
(***************************************************************************)
EXTENDS Integers, FiniteSets

CONSTANTS
    Cpus,       \* the processors
    Locks,      \* the spinlocks, all statically allocated (zero at boot)
    Nesting,    \* pairs <<outer, inner>>: inner is taken while outer is held
    MaxOps      \* lock operations and interrupts considered per CPU

ASSUME SpinlockAssumption ==
    /\ Locks # {}
    /\ Nesting \subseteq Locks \X Locks
    /\ MaxOps \in Nat

Levels == 0..2

VARIABLES
    is_locked,  \* is_locked[l]: the lock word, 0 or 1
    cpu,        \* cpu[c]: EFLAGS.IF and the percpu fields ncli and intena
    level,      \* level[c]: the level CPU c is executing at
    pc,         \* pc[c][k]: where the code at level k of CPU c is
    eflags,     \* eflags[c][k]: the IF bit pushcli read into its local
    target,     \* target[c][k]: the lock the current call is about
    held,       \* held[c][k]: the locks the code at that level holds
    ops,        \* ops[c]: operations left (bounds the model only)
    base        \* base[c][k]: the flag as the code at level k left it outside
                \* its lock sections (history, read by no action)

vars == <<is_locked, cpu, level, pc, eflags, target, held, ops, base>>

-----------------------------------------------------------------------------
(* Variants of the code with a plausible mistake each; no action uses them. *)
pushcliWithoutCli(r, eflagsIF) ==
    [intr   |-> r.intr,
     ncli   |-> r.ncli + 1,
     intena |-> IF r.ncli = 0 THEN eflagsIF ELSE r.intena]
pushcliOverwritesIntena(r, eflagsIF) ==
    [intr |-> 0, ncli |-> r.ncli + 1, intena |-> eflagsIF]
popcliKeepsCount(r) ==
    [intr |-> r.intena, ncli |-> r.ncli, intena |-> r.intena]

(* pushcli: EFLAGS was read, interrupts are now off, one more nested cli. *)
pushcli(r, eflagsIF) ==
    [intr   |-> 0,
     ncli   |-> r.ncli + 1,
     intena |-> IF r.ncli = 0 THEN eflagsIF ELSE r.intena]

popcliPanics(r) == r.intr = 1 \/ r.ncli - 1 < 0

popcli(r) ==
    [intr   |-> IF r.ncli - 1 = 0 /\ r.intena = 1 THEN 1 ELSE r.intr,
     ncli   |-> r.ncli - 1,
     intena |-> r.intena]

WithIntr(r, flag) == [intr |-> flag, ncli |-> r.ncli, intena |-> r.intena]

(* holding_spinlock looks only at the lock word, inside its own pushcli    *)
(* and popcli; this is the percpu record it leaves behind.                 *)
holding_spinlock(r) == popcli(pushcli(r, r.intr))

-----------------------------------------------------------------------------
Init ==
    /\ is_locked = [l \in Locks |-> 0]
    /\ cpu \in [Cpus -> [intr : 0..1, ncli : {0}, intena : {0}]]
    /\ level = [c \in Cpus |-> 0]
    /\ pc = [c \in Cpus |-> [k \in Levels |-> "run"]]
    /\ eflags = [c \in Cpus |-> [k \in Levels |-> 0]]
    /\ target = [c \in Cpus |-> [k \in Levels |-> CHOOSE l \in Locks : TRUE]]
    /\ held = [c \in Cpus |-> [k \in Levels |-> {}]]
    /\ ops = [c \in Cpus |-> MaxOps]
    /\ base = [c \in Cpus |-> [k \in Levels |-> IF k = 0 THEN cpu[c].intr ELSE 0]]

At(c, label) == pc[c][level[c]] = label
Goto(c, label) == pc' = [pc EXCEPT ![c][level[c]] = label]

(* acquire_spinlock(l) is called; pushcli reads EFLAGS (interrupts may     *)
(* still be on, and an interrupt may arrive before the cli).               *)
ReadEflags(c, l) ==
    /\ At(c, "run")
    /\ ops[c] > 0
    /\ \A h \in held[c][level[c]] : <<h, l>> \in Nesting
    /\ eflags' = [eflags EXCEPT ![c][level[c]] = cpu[c].intr]
    /\ target' = [target EXCEPT ![c][level[c]] = l]
    /\ ops' = [ops EXCEPT ![c] = @ - 1]
    /\ Goto(c, "cli")
    /\ UNCHANGED <<is_locked, cpu, level, held, base>>

(* The rest of pushcli: cli, then the two percpu fields. *)
Cli(c) ==
    /\ At(c, "cli")
    /\ cpu' = [cpu EXCEPT ![c] = pushcli(@, eflags[c][level[c]])]
    /\ Goto(c, "spin")
    /\ UNCHANGED <<is_locked, level, eflags, target, held, ops, base>>

(* Mistakes: the test and the store are not one exchange; the store of     *)
(* release_spinlock is left out.                                           *)
XchgAnyWord(c) ==
    LET l == target[c][level[c]] IN
    /\ At(c, "spin")
    /\ is_locked' = [is_locked EXCEPT ![l] = 1]
    /\ held' = [held EXCEPT ![c][level[c]] = @ \cup {l}]
    /\ Goto(c, "run")
    /\ UNCHANGED <<cpu, level, eflags, target, ops, base>>
ReleaseWithoutStore(c, l) ==
    /\ At(c, "run")
    /\ l \in held[c][level[c]]
    /\ cpu' = [cpu EXCEPT ![c] = holding_spinlock(@)]
    /\ held' = [held EXCEPT ![c][level[c]] = @ \ {l}]
    /\ Goto(c, "pop")
    /\ UNCHANGED <<is_locked, level, eflags, target, ops, base>>

(* The exchange of acquire_spinlock that finds the word free. *)
Xchg(c) ==
    LET l == target[c][level[c]] IN
    /\ At(c, "spin")
    /\ is_locked[l] = 0
    /\ is_locked' = [is_locked EXCEPT ![l] = 1]
    /\ held' = [held EXCEPT ![c][level[c]] = @ \cup {l}]
    /\ Goto(c, "run")
    /\ UNCHANGED <<cpu, level, eflags, target, ops, base>>

(* One that finds it taken stores the 1 that is already there and loops. *)
XchgAgain(c) ==
    /\ At(c, "spin")
    /\ is_locked[target[c][level[c]]] = 1
    /\ UNCHANGED vars

(* release_spinlock(l) up to the store of 0: the check through             *)
(* holding_spinlock, with its panic, then the store.                       *)
Release(c, l) ==
    /\ At(c, "run")
    /\ l \in held[c][level[c]]
    /\ cpu' = [cpu EXCEPT ![c] = holding_spinlock(@)]
    /\ IF is_locked[l] = 0
       THEN Goto(c, "panic") /\ UNCHANGED <<is_locked, held>>
       ELSE /\ is_locked' = [is_locked EXCEPT ![l] = 0]
            /\ held' = [held EXCEPT ![c][level[c]] = @ \ {l}]
            /\ Goto(c, "pop")
    /\ UNCHANGED <<level, eflags, target, ops, base>>

(* The popcli that ends release_spinlock. *)
Pop(c) ==
    /\ At(c, "pop")
    /\ IF popcliPanics(cpu[c])
       THEN Goto(c, "panic") /\ UNCHANGED cpu
       ELSE Goto(c, "run") /\ cpu' = [cpu EXCEPT ![c] = popcli(@)]
    /\ UNCHANGED <<is_locked, level, eflags, target, held, ops, base>>

(* Code at level 0 that holds no lock enables interrupts: setup_idt,       *)
(* ap_entry, sched_run and the idle thread do.                             *)
Sti(c) ==
    /\ level[c] = 0 /\ At(c, "run") /\ held[c][0] = {}
    /\ cpu' = [cpu EXCEPT ![c] = WithIntr(@, 1)]
    /\ base' = [base EXCEPT ![c][0] = 1]
    /\ UNCHANGED <<is_locked, level, pc, eflags, target, held, ops>>

(* An interrupt is delivered through its gate. *)
Interrupt(c) ==
    /\ cpu[c].intr = 1 /\ level[c] < 2 /\ ops[c] > 0
    /\ cpu' = [cpu EXCEPT ![c] = WithIntr(@, 0)]
    /\ level' = [level EXCEPT ![c] = @ + 1]
    /\ ops' = [ops EXCEPT ![c] = @ - 1]
    /\ base' = [base EXCEPT ![c][level[c] + 1] = 0]
    /\ UNCHANGED <<is_locked, pc, eflags, target, held>>

(* The handler returns with iret; the flag was set when it was entered. *)
Iret(c) ==
    /\ level[c] > 0 /\ At(c, "run") /\ held[c][level[c]] = {}
    /\ cpu' = [cpu EXCEPT ![c] = WithIntr(@, 1)]
    /\ level' = [level EXCEPT ![c] = @ - 1]
    /\ UNCHANGED <<is_locked, pc, eflags, target, held, ops, base>>

(* The steps by which a CPU finishes what it has begun. *)
Finish(c) ==
    Cli(c) \/ Xchg(c) \/ (\E l \in Locks : Release(c, l)) \/ Pop(c) \/ Iret(c)

Next ==
    \E c \in Cpus :
        \/ \E l \in Locks : ReadEflags(c, l)
        \/ Sti(c)
        \/ Interrupt(c)
        \/ XchgAgain(c)
        \/ Finish(c)

Spec == Init /\ [][Next]_vars

(* Every CPU keeps executing instructions. *)
FairSpec == Spec /\ \A c \in Cpus : WF_vars(Finish(c))

-----------------------------------------------------------------------------
Labels == {"run", "cli", "spin", "pop", "panic"}

(* The types of the lock words, the percpu fields and the program state. *)
TypeOK ==
    /\ is_locked \in [Locks -> 0..1]
    /\ cpu \in [Cpus -> [intr : 0..1, ncli : Nat, intena : 0..1]]
    /\ level \in [Cpus -> Levels]
    /\ pc \in [Cpus -> [Levels -> Labels]]
    /\ eflags \in [Cpus -> [Levels -> 0..1]]
    /\ target \in [Cpus -> [Levels -> Locks]]
    /\ held \in [Cpus -> [Levels -> SUBSET Locks]]
    /\ ops \in [Cpus -> Nat]
    /\ base \in [Cpus -> [Levels -> 0..1]]

(* Mutual exclusion, with the lock word telling the truth: a word is 1     *)
(* exactly while one piece of code, on one CPU and at one level, is        *)
(* between acquire_spinlock and release_spinlock, and never two.           *)
LockHasOneHolder ==
    \A l \in Locks :
        /\ is_locked[l] = 1 <=> \E c \in Cpus, k \in Levels : l \in held[c][k]
        /\ \A c, d \in Cpus, j, k \in Levels :
              l \in held[c][j] /\ l \in held[d][k] => c = d /\ j = k

(* acquire_spinlock disables interrupts "to avoid deadlock": code that was *)
(* interrupted holds no lock and is waiting for none, so a handler never   *)
(* spins on a lock that only the code below it could release; and a        *)
(* handler, whose flag popcli must leave clear, is never interrupted.      *)
InterruptedHoldsNothing ==
    \A c \in Cpus :
        /\ level[c] <= 1
        /\ \A k \in Levels :
              k # level[c] => held[c][k] = {} /\ pc[c][k] \in {"run", "cli"}

(* ncli is the nesting depth: the locks the CPU holds plus the acquire or  *)
(* release it is inside.  This is what makes the outermost popcli, and no  *)
(* other, the one that may re-enable interrupts.                           *)
NcliIsNestingDepth ==
    \A c \in Cpus :
        cpu[c].ncli = Cardinality(held[c][level[c]])
                      + (IF pc[c][level[c]] \in {"spin", "pop"} THEN 1 ELSE 0)

(* popcli "only re-enables interrupts if this is the last popcli and       *)
(* interrupts were enabled before the first pushcli": outside its lock     *)
(* sections code always finds the interrupt flag as it left it, whatever   *)
(* locks it took, in whatever order it released them, and whatever         *)
(* interrupts were served in between; inside them the flag is clear.       *)
InterruptFlagTransparent ==
    \A c \in Cpus :
        LET k == level[c] IN
        /\ held[c][k] = {} /\ pc[c][k] \in {"run", "cli"} => cpu[c].intr = base[c][k]
        /\ held[c][k] # {} \/ pc[c][k] \in {"spin", "pop"} => cpu[c].intr = 0

(* Neither of popcli's panics nor release_spinlock's is ever reached. *)
NoPanic == \A c \in Cpus, k \in Levels : pc[c][k] # "panic"

(* With the lock order the kernel uses, no CPU spins forever: every        *)
(* acquire_spinlock returns.                                               *)
SpinEnds == \A c \in Cpus, k \in Levels : pc[c][k] = "spin" ~> pc[c][k] # "spin"
=============================================================================
