--------------------------- MODULE SpinlockProofs ---------------------------
(***************************************************************************)
(* The safety properties of Spinlock, for any set of CPUs, any set of      *)
(* locks, any nesting the callers use and any number of operations.        *)
(*                                                                         *)
(* None of the properties is inductive alone.  That an interrupted section *)
(* holds nothing rests on the interrupt flag being clear inside lock       *)
(* sections; that rests on popcli seeing ncli = 0 only at the outermost    *)
(* release, so on ncli counting the nesting; and that the flag is given    *)
(* back rests on intena still being what the outermost pushcli read.       *)
(***************************************************************************)
EXTENDS Spinlock, FiniteSetTheorems, TLAPS

Pending(c) == IF pc[c][level[c]] \in {"spin", "pop"} THEN 1 ELSE 0

(* What holds of one CPU by itself. *)
CpuInv(c) ==
    /\ level[c] \in {0, 1}
    /\ \A k \in Levels : IsFiniteSet(held[c][k])
    /\ \A k \in Levels : k # level[c] => held[c][k] = {} /\ pc[c][k] \in {"run", "cli"}
    /\ \A k \in Levels : k > level[c] => pc[c][k] = "run"
    /\ \A k \in Levels : pc[c][k] # "panic"
    /\ \A k \in Levels : pc[c][k] = "cli" /\ held[c][k] = {} => eflags[c][k] = base[c][k]
    /\ cpu[c].ncli = Cardinality(held[c][level[c]]) + Pending(c)
    /\ cpu[c].ncli = 0 => cpu[c].intr = base[c][level[c]]
    /\ cpu[c].ncli # 0 => cpu[c].intr = 0 /\ cpu[c].intena = base[c][level[c]]
    /\ level[c] = 1 => base[c][0] = 1 /\ base[c][1] = 0

(* The inductive invariant. *)
IInv == TypeOK /\ LockHasOneHolder /\ \A c \in Cpus : CpuInv(c)

-----------------------------------------------------------------------------
(* A CPU's depth counter is 0 exactly when its running code holds no lock  *)
(* and is in neither acquire_spinlock nor release_spinlock.                *)
LEMMA NcliZero ==
    ASSUME TypeOK, NEW c \in Cpus, CpuInv(c)
    PROVE  /\ Cardinality(held[c][level[c]]) \in Nat
           /\ cpu[c].ncli = 0 <=> held[c][level[c]] = {} /\ pc[c][level[c]] \notin {"spin", "pop"}
<1>0. level[c] \in Levels BY DEF TypeOK
<1>1. IsFiniteSet(held[c][level[c]]) BY <1>0 DEF CpuInv
<1>2. Cardinality(held[c][level[c]]) \in Nat BY <1>1, FS_CardinalityType
<1>3. Cardinality(held[c][level[c]]) = 0 <=> held[c][level[c]] = {}
    BY <1>1, FS_EmptySet
<1>4. cpu[c].ncli = Cardinality(held[c][level[c]]) + Pending(c) BY DEF CpuInv
<1>5. CASE pc[c][level[c]] \in {"spin", "pop"}
    BY <1>2, <1>4, <1>5 DEF Pending
<1>6. CASE pc[c][level[c]] \notin {"spin", "pop"}
    BY <1>2, <1>3, <1>4, <1>6 DEF Pending
<1> QED BY <1>2, <1>5, <1>6

(* A CPU's own invariant depends on that CPU's state alone. *)
LEMMA CpuInvFrame ==
    ASSUME NEW c \in Cpus, CpuInv(c),
           level'[c] = level[c], held'[c] = held[c], pc'[c] = pc[c],
           eflags'[c] = eflags[c], base'[c] = base[c], cpu'[c] = cpu[c]
    PROVE  CpuInv(c)'
BY DEF CpuInv, Pending

-----------------------------------------------------------------------------
(* The initial state: no lock is held and every counter is 0. *)
LEMMA InitIInv == Init => IInv
<1> SUFFICES ASSUME Init PROVE IInv OBVIOUS
<1>1. (CHOOSE l \in Locks : TRUE) \in Locks BY SpinlockAssumption
<1>2. TypeOK
    BY <1>1, SpinlockAssumption DEF Init, TypeOK, Levels, Labels
<1>3. LockHasOneHolder
    BY DEF Init, LockHasOneHolder
<1>4. ASSUME NEW c \in Cpus PROVE CpuInv(c)
    <2>1. IsFiniteSet({}) /\ Cardinality({}) = 0 BY FS_EmptySet
    <2> QED BY <2>1 DEF Init, CpuInv, Levels, Pending
<1> QED BY <1>2, <1>3, <1>4 DEF IInv

-----------------------------------------------------------------------------
(* One lemma per action: each preserves the inductive invariant. *)

(* pushcli's read of EFLAGS. *)
LEMMA ReadEflagsStep ==
    ASSUME IInv, NEW c \in Cpus, NEW l \in Locks, ReadEflags(c, l)
    PROVE  IInv'
<1> DEFINE k == level[c]
<1>0. TypeOK /\ LockHasOneHolder /\ CpuInv(c) /\ k \in Levels /\ k \in {0, 1}
    BY DEF IInv, TypeOK, CpuInv
<1>1. /\ Cardinality(held[c][k]) \in Nat
      /\ cpu[c].ncli = 0 <=> held[c][k] = {} /\ pc[c][k] \notin {"spin", "pop"}
    BY <1>0, NcliZero
<1>2. TypeOK'
    BY <1>0, <1>1 DEF TypeOK, ReadEflags, At, Goto, Levels, Labels
<1>3. LockHasOneHolder'
    BY <1>0 DEF LockHasOneHolder, ReadEflags, TypeOK, At, Goto
<1>4. CpuInv(c)'
    BY <1>0, <1>1 DEF TypeOK, ReadEflags, At, Goto, Levels, CpuInv, Pending
<1>5. ASSUME NEW d \in Cpus, d # c PROVE CpuInv(d)'
    <2>1. CpuInv(d) BY DEF IInv
    <2> QED BY <1>0, <1>5, <2>1, CpuInvFrame DEF TypeOK, ReadEflags, At, Goto
<1> QED BY <1>2, <1>3, <1>4, <1>5 DEF IInv

(* pushcli's cli and bookkeeping. *)
LEMMA CliStep ==
    ASSUME IInv, NEW c \in Cpus, Cli(c)
    PROVE  IInv'
<1> DEFINE k == level[c]
<1>0. TypeOK /\ LockHasOneHolder /\ CpuInv(c) /\ k \in Levels /\ k \in {0, 1}
    BY DEF IInv, TypeOK, CpuInv
<1>1. /\ Cardinality(held[c][k]) \in Nat
      /\ cpu[c].ncli = 0 <=> held[c][k] = {} /\ pc[c][k] \notin {"spin", "pop"}
    BY <1>0, NcliZero
<1>2. TypeOK'
    BY <1>0, <1>1 DEF TypeOK, Cli, At, Goto, Levels, Labels, pushcli
<1>3. LockHasOneHolder'
    BY <1>0 DEF LockHasOneHolder, Cli, TypeOK, At, Goto
<1>4. CpuInv(c)'
    BY <1>0, <1>1 DEF TypeOK, Cli, At, Goto, Levels, CpuInv, Pending, pushcli
<1>5. ASSUME NEW d \in Cpus, d # c PROVE CpuInv(d)'
    <2>1. CpuInv(d) BY DEF IInv
    <2> QED BY <1>0, <1>5, <2>1, CpuInvFrame DEF TypeOK, Cli, At, Goto
<1> QED BY <1>2, <1>3, <1>4, <1>5 DEF IInv

(* A successful exchange: the lock was free, so it gets one holder. *)
LEMMA XchgStep ==
    ASSUME IInv, NEW c \in Cpus, Xchg(c)
    PROVE  IInv'
<1> DEFINE k == level[c]
<1>0. TypeOK /\ LockHasOneHolder /\ CpuInv(c) /\ k \in Levels /\ k \in {0, 1}
    BY DEF IInv, TypeOK, CpuInv
<1>1. /\ Cardinality(held[c][k]) \in Nat
      /\ cpu[c].ncli = 0 <=> held[c][k] = {} /\ pc[c][k] \notin {"spin", "pop"}
    BY <1>0, NcliZero
<1>a. target[c][k] \notin held[c][k]
    BY <1>0 DEF Xchg, LockHasOneHolder, TypeOK
<1>b. IsFiniteSet(held[c][k]) BY <1>0 DEF CpuInv
<1>c. /\ IsFiniteSet(held[c][k] \cup {target[c][k]})
      /\ Cardinality(held[c][k] \cup {target[c][k]}) = Cardinality(held[c][k]) + 1
    BY <1>a, <1>b, FS_AddElement, SMTT(60)
<1>2. TypeOK'
    BY <1>0, <1>1 DEF TypeOK, Xchg, At, Goto, Levels, Labels
<1>3. LockHasOneHolder'
    BY <1>0, SMTT(60) DEF LockHasOneHolder, Xchg, TypeOK, At, Goto
<1>d. /\ held'[c] = [held[c] EXCEPT ![k] = @ \cup {target[c][k]}]
      /\ pc'[c] = [pc[c] EXCEPT ![k] = "run"] /\ pc[c][k] = "spin"
      /\ UNCHANGED <<level, eflags, base, cpu>>
    BY <1>0 DEF TypeOK, Xchg, At, Goto
<1>e. /\ \A j \in Levels : j # k => held'[c][j] = held[c][j] /\ pc'[c][j] = pc[c][j]
      /\ held'[c][k] = held[c][k] \cup {target[c][k]}
      /\ pc'[c][k] = "run"
    BY <1>0, <1>d DEF TypeOK
<1>g. /\ IsFiniteSet(held'[c][k])
      /\ Cardinality(held'[c][level'[c]]) = Cardinality(held[c][k]) + 1
      /\ held'[c][k] # {}
    BY <1>c, <1>d, <1>e, ZenonT(60)
<1>f. Pending(c) = 1 /\ Pending(c)' = 0 BY <1>d, <1>e DEF Pending
<1>4. CpuInv(c)'
    BY <1>0, <1>1, <1>d, <1>e, <1>f, <1>g DEF CpuInv
<1>5. ASSUME NEW d \in Cpus, d # c PROVE CpuInv(d)'
    <2>1. CpuInv(d) BY DEF IInv
    <2> QED BY <1>0, <1>5, <2>1, CpuInvFrame DEF TypeOK, Xchg, At, Goto
<1> QED BY <1>2, <1>3, <1>4, <1>5 DEF IInv

(* release_spinlock's check and store; the check sees the word set. *)
LEMMA ReleaseStep ==
    ASSUME IInv, NEW c \in Cpus, NEW l \in Locks, Release(c, l)
    PROVE  IInv'
<1> DEFINE k == level[c]
<1>0. TypeOK /\ LockHasOneHolder /\ CpuInv(c) /\ k \in Levels /\ k \in {0, 1}
    BY DEF IInv, TypeOK, CpuInv
<1>1. /\ Cardinality(held[c][k]) \in Nat
      /\ cpu[c].ncli = 0 <=> held[c][k] = {} /\ pc[c][k] \notin {"spin", "pop"}
    BY <1>0, NcliZero
<1>a. is_locked[l] = 1 /\ is_locked[l] # 0 /\ l \in held[c][k] /\ pc[c][k] = "run"
    BY <1>0 DEF Release, At, LockHasOneHolder, TypeOK
<1>b. IsFiniteSet(held[c][k]) BY <1>0 DEF CpuInv
<1>c. /\ IsFiniteSet(held[c][k] \ {l})
      /\ Cardinality(held[c][k] \ {l}) = Cardinality(held[c][k]) - 1
    BY <1>a, <1>b, FS_RemoveElement
<1>d. cpu[c].ncli # 0 /\ cpu[c].intr = 0 BY <1>0, <1>1, <1>a DEF CpuInv
<1>e. cpu[c] \in [intr : 0..1, ncli : Nat, intena : 0..1] BY <1>0 DEF TypeOK
<1>f. holding_spinlock(cpu[c]) = cpu[c]
    BY <1>d, <1>e DEF holding_spinlock, pushcli, popcli
<1>g. /\ cpu' = cpu
      /\ is_locked' = [is_locked EXCEPT ![l] = 0]
      /\ held' = [held EXCEPT ![c][k] = held[c][k] \ {l}]
      /\ pc' = [pc EXCEPT ![c][k] = "pop"]
    BY <1>0, <1>a, <1>f DEF Release, Goto, TypeOK
<1>2. TypeOK'
    BY <1>0, <1>1, <1>a, <1>g DEF TypeOK, Release, At, Goto, Levels, Labels
<1>3. LockHasOneHolder'
    BY <1>0, <1>a, <1>g DEF LockHasOneHolder, Release, TypeOK, At, Goto
<1>h. /\ IsFiniteSet(held'[c][k])
      /\ Cardinality(held'[c][level'[c]]) = Cardinality(held[c][k]) - 1
      /\ \A j \in Levels : j # k => held'[c][j] = held[c][j] /\ pc'[c][j] = pc[c][j]
      /\ pc'[c][k] = "pop" /\ UNCHANGED <<level, eflags, base>>
    BY <1>0, <1>c, <1>g, ZenonT(60) DEF TypeOK, Release
<1>i. Pending(c) = 0 /\ Pending(c)' = 1 BY <1>a, <1>h DEF Pending
<1>4. CpuInv(c)'
    <2>1. cpu'[c].ncli = Cardinality(held'[c][level'[c]]) + Pending(c)'
        BY <1>0, <1>1, <1>g, <1>h, <1>i, SMTT(60) DEF CpuInv
    <2>2. \A j \in Levels : /\ IsFiniteSet(held'[c][j])
                            /\ j # level'[c] => held'[c][j] = {} /\ pc'[c][j] \in {"run", "cli"}
                            /\ j > level'[c] => pc'[c][j] = "run"
                            /\ pc'[c][j] # "panic"
                            /\ pc'[c][j] = "cli" /\ held'[c][j] = {} => eflags'[c][j] = base'[c][j]
        BY <1>0, <1>h DEF CpuInv
    <2> QED BY <1>0, <1>d, <1>g, <1>h, <2>1, <2>2, ZenonT(60) DEF CpuInv
<1>5. ASSUME NEW d \in Cpus, d # c PROVE CpuInv(d)'
    <2>1. CpuInv(d) BY DEF IInv
    <2> QED BY <1>0, <1>5, <2>1, CpuInvFrame, SMTT(60) DEF TypeOK, Release, At, Goto
<1> QED BY <1>2, <1>3, <1>4, <1>5 DEF IInv

(* popcli: only the outermost one can set the flag. *)
LEMMA PopStep ==
    ASSUME IInv, NEW c \in Cpus, Pop(c)
    PROVE  IInv'
<1> DEFINE k == level[c]
<1>0. TypeOK /\ LockHasOneHolder /\ CpuInv(c) /\ k \in Levels /\ k \in {0, 1}
    BY DEF IInv, TypeOK, CpuInv
<1>1. /\ Cardinality(held[c][k]) \in Nat
      /\ cpu[c].ncli = 0 <=> held[c][k] = {} /\ pc[c][k] \notin {"spin", "pop"}
    BY <1>0, NcliZero
<1>a. cpu[c].ncli # 0 /\ cpu[c].intr = 0 /\ pc[c][k] = "pop"
    BY <1>0, <1>1 DEF CpuInv, Pop, At
<1>b. cpu[c] \in [intr : 0..1, ncli : Nat, intena : 0..1] BY <1>0 DEF TypeOK
<1>c. ~popcliPanics(cpu[c]) BY <1>a, <1>b DEF popcliPanics
<1>d. cpu[c].ncli = Cardinality(held[c][k]) + 1 BY <1>0, <1>a DEF CpuInv, Pending
<1>e. pc' = [pc EXCEPT ![c][k] = "run"] /\ cpu' = [cpu EXCEPT ![c] = popcli(cpu[c])]
    BY <1>c DEF Pop, Goto
<1>f. popcli(cpu[c]) \in [intr : 0..1, ncli : Nat, intena : 0..1]
    BY <1>a, <1>b DEF popcli
<1>2. TypeOK'
    BY <1>0, <1>1, <1>e, <1>f DEF TypeOK, Pop, At, Goto, Levels, Labels
<1>3. LockHasOneHolder'
    BY <1>0, SMTT(60) DEF LockHasOneHolder, Pop, TypeOK, At, Goto
<1>4. CpuInv(c)'
    BY <1>0, <1>1, <1>a, <1>b, <1>d, <1>e, <1>f DEF TypeOK, Pop, At, Goto, Levels, CpuInv, Pending, popcli
<1>5. ASSUME NEW d \in Cpus, d # c PROVE CpuInv(d)'
    <2>1. CpuInv(d) BY DEF IInv
    <2> QED BY <1>0, <1>5, <2>1, CpuInvFrame DEF TypeOK, Pop, At, Goto
<1> QED BY <1>2, <1>3, <1>4, <1>5 DEF IInv

(* Code outside every lock section enables interrupts. *)
LEMMA StiStep ==
    ASSUME IInv, NEW c \in Cpus, Sti(c)
    PROVE  IInv'
<1> DEFINE k == level[c]
<1>0. TypeOK /\ LockHasOneHolder /\ CpuInv(c) /\ k \in Levels /\ k \in {0, 1}
    BY DEF IInv, TypeOK, CpuInv
<1>1. /\ Cardinality(held[c][k]) \in Nat
      /\ cpu[c].ncli = 0 <=> held[c][k] = {} /\ pc[c][k] \notin {"spin", "pop"}
    BY <1>0, NcliZero
<1>2. TypeOK'
    BY <1>0, <1>1 DEF TypeOK, Sti, At, Goto, Levels, Labels, WithIntr
<1>3. LockHasOneHolder'
    BY <1>0 DEF LockHasOneHolder, Sti, TypeOK, At, Goto
<1>4. CpuInv(c)'
    BY <1>0, <1>1 DEF TypeOK, Sti, At, Goto, Levels, CpuInv, Pending, WithIntr
<1>5. ASSUME NEW d \in Cpus, d # c PROVE CpuInv(d)'
    <2>1. CpuInv(d) BY DEF IInv
    <2> QED BY <1>0, <1>5, <2>1, CpuInvFrame, SMTT(60) DEF TypeOK, Sti, At, Goto
<1> QED BY <1>2, <1>3, <1>4, <1>5 DEF IInv

(* An interrupt: the flag was set, so nothing is held below the handler. *)
LEMMA InterruptStep ==
    ASSUME IInv, NEW c \in Cpus, Interrupt(c)
    PROVE  IInv'
<1> DEFINE k == level[c]
<1>0. TypeOK /\ LockHasOneHolder /\ CpuInv(c) /\ k \in Levels /\ k \in {0, 1}
    BY DEF IInv, TypeOK, CpuInv
<1>1. /\ Cardinality(held[c][k]) \in Nat
      /\ cpu[c].ncli = 0 <=> held[c][k] = {} /\ pc[c][k] \notin {"spin", "pop"}
    BY <1>0, NcliZero
<1>2. TypeOK'
    BY <1>0, <1>1 DEF TypeOK, Interrupt, At, Goto, Levels, Labels, WithIntr
<1>3. LockHasOneHolder'
    BY <1>0 DEF LockHasOneHolder, Interrupt, TypeOK, At, Goto
<1>a. k = 0 /\ cpu[c].ncli = 0 /\ base[c][0] = 1 /\ level'[c] = 1
    BY <1>0, <1>1 DEF Interrupt, CpuInv, TypeOK
<1>b. held'[c][1] = {} /\ pc'[c][1] = "run" /\ Cardinality({}) = 0
    BY <1>0, <1>a, FS_EmptySet DEF Interrupt, CpuInv, Levels
<1>c. /\ UNCHANGED <<held, pc, eflags>>
      /\ cpu'[c].ncli = 0 /\ cpu'[c].intr = 0
      /\ base'[c][0] = 1 /\ base'[c][1] = 0
      /\ pc[c][0] \in {"run", "cli"} /\ held[c][0] = {}
    BY <1>0, <1>1, <1>a DEF Interrupt, At, TypeOK, CpuInv, WithIntr, Levels, Labels
<1>d. Pending(c)' = 0 BY <1>a, <1>b, SMTT(60) DEF Pending
<1>e. \A j \in Levels : /\ IsFiniteSet(held'[c][j])
                        /\ j # level'[c] => held'[c][j] = {} /\ pc'[c][j] \in {"run", "cli"}
                        /\ j > level'[c] => pc'[c][j] = "run"
                        /\ pc'[c][j] # "panic"
    BY <1>0, <1>a, <1>c DEF CpuInv, Levels
<1>f. \A j \in Levels : pc'[c][j] = "cli" /\ held'[c][j] = {} => eflags'[c][j] = base'[c][j]
    BY <1>0, <1>a, <1>b, <1>c, SMTT(60) DEF CpuInv, Levels, TypeOK, Interrupt
<1>4. CpuInv(c)'
    BY <1>0, <1>a, <1>b, <1>c, <1>d, <1>e, <1>f, SMTT(60) DEF CpuInv
<1>5. ASSUME NEW d \in Cpus, d # c PROVE CpuInv(d)'
    <2>1. CpuInv(d) BY DEF IInv
    <2> QED BY <1>0, <1>5, <2>1, CpuInvFrame, SMTT(60) DEF TypeOK, Interrupt, At, Goto
<1> QED BY <1>2, <1>3, <1>4, <1>5 DEF IInv

(* The handler returns; it holds nothing. *)
LEMMA IretStep ==
    ASSUME IInv, NEW c \in Cpus, Iret(c)
    PROVE  IInv'
<1> DEFINE k == level[c]
<1>0. TypeOK /\ LockHasOneHolder /\ CpuInv(c) /\ k \in Levels /\ k \in {0, 1}
    BY DEF IInv, TypeOK, CpuInv
<1>1. /\ Cardinality(held[c][k]) \in Nat
      /\ cpu[c].ncli = 0 <=> held[c][k] = {} /\ pc[c][k] \notin {"spin", "pop"}
    BY <1>0, NcliZero
<1>2. TypeOK'
    BY <1>0, <1>1 DEF TypeOK, Iret, At, Goto, Levels, Labels, WithIntr
<1>3. LockHasOneHolder'
    BY <1>0 DEF LockHasOneHolder, Iret, TypeOK, At, Goto
<1>a. k = 1 /\ cpu[c].ncli = 0 /\ base[c][0] = 1 /\ level'[c] = 0
    BY <1>0, <1>1, SMTT(60) DEF Iret, At, CpuInv, TypeOK
<1>b. held'[c][0] = {} /\ pc'[c][0] \in {"run", "cli"} /\ Cardinality({}) = 0
    BY <1>0, <1>a, FS_EmptySet, SMTT(60) DEF Iret, CpuInv, Levels
<1>c. /\ UNCHANGED <<held, pc, eflags>>
      /\ cpu'[c].ncli = 0 /\ cpu'[c].intr = 1
      /\ base'[c][0] = 1 /\ base'[c][0] = 1
      /\ pc[c][1] \in {"run"} /\ held[c][1] = {}
    BY <1>0, <1>1, <1>a DEF Iret, At, TypeOK, CpuInv, WithIntr, Levels
<1>d. Pending(c)' = 0 BY <1>a, <1>b, SMTT(60) DEF Pending
<1>e. \A j \in Levels : /\ IsFiniteSet(held'[c][j])
                        /\ j # level'[c] => held'[c][j] = {} /\ pc'[c][j] \in {"run", "cli"}
                        /\ j > level'[c] => pc'[c][j] = "run"
                        /\ pc'[c][j] # "panic"
    BY <1>0, <1>a, <1>c DEF CpuInv, Levels
<1>f. \A j \in Levels : pc'[c][j] = "cli" /\ held'[c][j] = {} => eflags'[c][j] = base'[c][j]
    BY <1>0, <1>a, <1>b, <1>c, SMTT(60) DEF CpuInv, Levels, TypeOK, Iret
<1>4. CpuInv(c)'
    BY <1>0, <1>a, <1>b, <1>c, <1>d, <1>e, <1>f, SMTT(60) DEF CpuInv
<1>5. ASSUME NEW d \in Cpus, d # c PROVE CpuInv(d)'
    <2>1. CpuInv(d) BY DEF IInv
    <2> QED BY <1>0, <1>5, <2>1, CpuInvFrame DEF TypeOK, Iret, At, Goto
<1> QED BY <1>2, <1>3, <1>4, <1>5 DEF IInv

-----------------------------------------------------------------------------
(* The inductive invariant holds in every reachable state. *)
THEOREM Inductive == Spec => []IInv
<1>1. Init => IInv BY InitIInv
<1>2. IInv /\ [Next]_vars => IInv'
    <2> SUFFICES ASSUME IInv, [Next]_vars PROVE IInv' OBVIOUS
    <2>1. CASE UNCHANGED vars
        BY <2>1 DEF vars, IInv, TypeOK, LockHasOneHolder, CpuInv, Pending
    <2>2. ASSUME NEW c \in Cpus, NEW l \in Locks, ReadEflags(c, l) PROVE IInv'
        BY <2>2, ReadEflagsStep
    <2>3. ASSUME NEW c \in Cpus, Sti(c) PROVE IInv' BY <2>3, StiStep
    <2>4. ASSUME NEW c \in Cpus, Interrupt(c) PROVE IInv' BY <2>4, InterruptStep
    <2>5. ASSUME NEW c \in Cpus, Cli(c) PROVE IInv' BY <2>5, CliStep
    <2>6. ASSUME NEW c \in Cpus, Xchg(c) PROVE IInv' BY <2>6, XchgStep
    <2>7. ASSUME NEW c \in Cpus, NEW l \in Locks, Release(c, l) PROVE IInv'
        BY <2>7, ReleaseStep
    <2>8. ASSUME NEW c \in Cpus, Pop(c) PROVE IInv' BY <2>8, PopStep
    <2>9. ASSUME NEW c \in Cpus, Iret(c) PROVE IInv' BY <2>9, IretStep
    <2>10. ASSUME NEW c \in Cpus, XchgAgain(c) PROVE UNCHANGED vars
        BY <2>10 DEF XchgAgain
    <2> QED BY <2>1, <2>2, <2>3, <2>4, <2>5, <2>6, <2>7, <2>8, <2>9, <2>10
        DEF Next, Finish
<1> QED BY <1>1, <1>2, PTL DEF Spec

(* Type correctness of the lock words, percpu fields and program state. *)
THEOREM TypeCorrect == Spec => []TypeOK
BY Inductive, PTL DEF IInv

(* Mutual exclusion: acquire_spinlock and release_spinlock give every lock *)
(* at most one holder, and the lock word says whether it has one.          *)
THEOREM MutualExclusion == Spec => []LockHasOneHolder
BY Inductive, PTL DEF IInv

(* Interrupted code neither holds a lock nor waits for one, and handlers   *)
(* are never interrupted: the self-deadlock pushcli is there to prevent    *)
(* cannot happen.                                                          *)
THEOREM NoHandlerSelfDeadlock == Spec => []InterruptedHoldsNothing
<1>1. IInv => InterruptedHoldsNothing
    BY DEF IInv, CpuInv, InterruptedHoldsNothing
<1> QED BY <1>1, Inductive, PTL

(* ncli counts the nesting of lock sections. *)
THEOREM NcliCounts == Spec => []NcliIsNestingDepth
<1>1. IInv => NcliIsNestingDepth
    BY DEF IInv, CpuInv, Pending, NcliIsNestingDepth
<1> QED BY <1>1, Inductive, PTL

(* popcli gives the interrupt flag back as the outermost pushcli found it. *)
THEOREM FlagRestored == Spec => []InterruptFlagTransparent
<1>1. IInv => InterruptFlagTransparent
    <2> SUFFICES ASSUME IInv, NEW c \in Cpus
                 PROVE  /\ held[c][level[c]] = {} /\ pc[c][level[c]] \in {"run", "cli"}
                              => cpu[c].intr = base[c][level[c]]
                        /\ held[c][level[c]] # {} \/ pc[c][level[c]] \in {"spin", "pop"}
                              => cpu[c].intr = 0
        BY DEF InterruptFlagTransparent
    <2>1. CpuInv(c) /\ TypeOK BY DEF IInv
    <2>2. cpu[c].ncli = 0 <=> held[c][level[c]] = {} /\ pc[c][level[c]] \notin {"spin", "pop"}
        BY <2>1, NcliZero
    <2> QED BY <2>1, <2>2 DEF CpuInv
<1> QED BY <1>1, Inductive, PTL

(* No panic of release_spinlock or popcli is reachable. *)
THEOREM PanicFree == Spec => []NoPanic
<1>1. IInv => NoPanic BY DEF IInv, CpuInv, NoPanic
<1> QED BY <1>1, Inductive, PTL
=============================================================================
