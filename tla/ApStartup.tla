----------------------------- MODULE ApStartup ------------------------------
(***************************************************************************)
(* Bringing the application processors up (apic/ap_startup.c, the percpu   *)
(* structures of sched/percpu.c, sched_init_cpu, and the second half of    *)
(* kernel_main): the boot CPU sets up a percpu structure with stacks and a *)
(* TSS for each processor of the MADT, then sends each processor its       *)
(* start-up interrupts one after the other, each AP takes its stack from   *)
(* the one slot of the trampoline and its index from a shared counter, and *)
(* kernel_main gives every CPU of the MADT its first threads.              *)
(*                                                                         *)
(* The boot CPU waits with delay loops and bounded polls, which end        *)
(* whether or not the AP has got anywhere: every wait may end at any time, *)
(* and both start-up interrupts may be lost.                               *)
(***************************************************************************)
EXTENDS Integers, Sequences, FiniteSets

CONSTANTS
    Madt,       \* the processors as parsed: a sequence of [apic_id, enabled]
    BspId       \* the APIC id of the boot CPU

ncpu == Len(Madt)
Indices == 0..(ncpu - 1)
ApicIds == {Madt[i].apic_id : i \in 1..ncpu}
Aps == ApicIds \ {BspId}

ASSUME StartupAssumption ==
    /\ ncpu >= 1 /\ BspId \in ApicIds /\ ApicIds \subseteq 1..255
    /\ \A i, j \in 1..ncpu : Madt[i].apic_id = Madt[j].apic_id => i = j

VARIABLES
    lapic,              \* whether lapic_init found the local APIC's address
    bsp,                \* where kernel_main is, and its locals
    stack_slot,         \* the word at AP_TRAMPOLINE_ADDR + 0xE8
    ap_started_count,
    next_cpu_index,
    ap,                 \* ap[a]: where the AP is, its stack and its index
    percpu,             \* percpu[x]: fields of percpus[x]; a stack is the page number
                        \* it was given, 0 for none, in the TSS fields too
    apic_to_cpu,
    gdtr,               \* gdtr[a]: whose GDT and TSS CPU a has loaded, -1 for the boot GDT
    oom,                \* whether kalloc has run out of pages
    run_queue,          \* run_queue[x]: how many threads are in CPU x's queue
    ready_queues,       \* the indices whose queue has been initialised (history)
    added,              \* added[x]: threads added to queue x from then on (history)
    in_time             \* the APs that were counted when the wait for them ended (history)

vars == <<lapic, bsp, stack_slot, ap_started_count, next_cpu_index, ap, percpu,
          apic_to_cpu, gdtr, oom, run_queue, ready_queues, added, in_time>>

queues == <<run_queue, ready_queues, added>>
cpus == <<lapic, percpu, apic_to_cpu, gdtr, queues>>

Zeroed == [apic_id |-> 0, started |-> FALSE, ready |-> FALSE,
           int_stack |-> 0, kstack |-> 0, rsp0 |-> 0, ist1 |-> 0]

(* Mistake: the counter of indices starts at the boot CPU's own. *)
InitFromZero ==
    /\ lapic \in BOOLEAN
    /\ bsp = [pc |-> "percpu", i |-> 0, old_count |-> 0, started |-> 0]
    /\ stack_slot = 0
    /\ ap_started_count = 0
    /\ next_cpu_index = 0
    /\ ap = [a \in Aps |-> [pc |-> "off", rsp |-> 0, index |-> 0]]
    /\ percpu = [x \in Indices |-> Zeroed]
    /\ apic_to_cpu = [a \in ApicIds |-> 0]
    /\ gdtr = [a \in ApicIds |-> -1]
    /\ oom = FALSE
    /\ run_queue = [x \in Indices |-> 0]
    /\ ready_queues = {}
    /\ added = [x \in Indices |-> 0]
    /\ in_time = {}

(* Static variables are zero.  setup_idt has run lapic_init when the APs   *)
(* are started: the MADT may not give the local APIC's address.            *)
Init ==
    /\ lapic \in BOOLEAN
    /\ bsp = [pc |-> "percpu", i |-> 0, old_count |-> 0, started |-> 0]
    /\ stack_slot = 0
    /\ ap_started_count = 0
    /\ next_cpu_index = 1
    /\ ap = [a \in Aps |-> [pc |-> "off", rsp |-> 0, index |-> 0]]
    /\ percpu = [x \in Indices |-> Zeroed]
    /\ apic_to_cpu = [a \in ApicIds |-> 0]
    /\ gdtr = [a \in ApicIds |-> -1]
    /\ oom = FALSE
    /\ run_queue = [x \in Indices |-> 0]
    /\ ready_queues = {}
    /\ added = [x \in Indices |-> 0]
    /\ in_time = {}

(* The index of the percpu structure that CPU a uses, once percpu_init_bsp *)
(* has run.                                                                *)
mycpu(a) ==
    LET same == {x \in Indices : percpu[x].apic_id = a} IN
    IF apic_to_cpu[a] \in Indices THEN apic_to_cpu[a]
    ELSE IF same # {} THEN CHOOSE x \in same : \A y \in same : x <= y
    ELSE 0

-----------------------------------------------------------------------------
(* kernel_main before the APs run. *)

boot == <<lapic, ap_started_count, next_cpu_index, ap, added, in_time>>

percpu_init_bsp ==
    /\ bsp.pc = "percpu"
    /\ percpu' = [percpu EXCEPT ![0] = [Zeroed EXCEPT !.apic_id = BspId, !.started = TRUE]]
    /\ apic_to_cpu' = [a \in ApicIds |-> IF a = BspId THEN 0 ELSE -1]
    /\ bsp' = [bsp EXCEPT !.pc = "stacks"]
    /\ UNCHANGED <<boot, stack_slot, gdtr, oom, queues>>

(* A stack kalloc had no page for leaves its field of the TSS zero. *)
setup_tss(cpu) == [cpu EXCEPT !.rsp0 = cpu.kstack, !.ist1 = cpu.int_stack]

(* percpu_setup_gdt and percpu_load_gdt: CPU a uses the GDT and the TSS of *)
(* percpus[x].                                                             *)
percpu_load_gdt(a, x) == [gdtr EXCEPT ![a] = x]

(* One CPU of the loop: an interrupt stack and a kernel stack for each.    *)
(* The boot CPU builds and loads its GDT at once.  Nothing frees pages     *)
(* before the threads run, so kalloc goes on failing once it has.          *)
percpu_alloc_stacks ==
    LET x == bsp.i IN
    /\ bsp.pc = "stacks" /\ x < ncpu
    /\ \E pages \in IF oom THEN {0} ELSE 0..2 :
          /\ percpu' = [percpu EXCEPT ![x] =
                          setup_tss([@ EXCEPT !.int_stack = IF pages > 0 THEN 2 * x + 1 ELSE 0,
                                              !.kstack = IF pages > 1 THEN 2 * x + 2 ELSE 0])]
          /\ oom' = (pages < 2)
    /\ gdtr' = IF x = 0 THEN percpu_load_gdt(BspId, x) ELSE gdtr
    /\ bsp' = [bsp EXCEPT !.i = @ + 1]
    /\ UNCHANGED <<boot, stack_slot, apic_to_cpu, queues>>

(* kalloc may fail.  The pages of one call are had together or not at all: *)
(* init_thread and push_thread_list do not test what kalloc returned.      *)
MayRunOut == oom' \in {oom, TRUE}

(* The run queue of percpus[x] starts out empty. *)
InitQueue(x) ==
    /\ run_queue' = [run_queue EXCEPT ![x] = 0]
    /\ ready_queues' = ready_queues \cup {x}

(* sched_init_cpu on the boot CPU. *)
BspSchedInit ==
    /\ bsp.pc = "stacks" /\ bsp.i = ncpu
    /\ InitQueue(mycpu(BspId))
    /\ percpu' = [percpu EXCEPT ![mycpu(BspId)].ready = FALSE]
    /\ MayRunOut
    /\ bsp' = [bsp EXCEPT !.pc = IF oom' THEN "panic" ELSE "proc"]
    /\ UNCHANGED <<boot, stack_slot, apic_to_cpu, gdtr>>

(* The first process and its threads, which no scheduler ever looks at:    *)
(* only the panic of allocproc matters.                                    *)
procinit ==
    /\ bsp.pc = "proc"
    /\ MayRunOut
    /\ bsp' = [bsp EXCEPT !.pc = IF oom' THEN "panic" ELSE "trampoline", !.i = 1]
    /\ UNCHANGED <<boot, stack_slot, cpus>>

setup_trampoline ==
    /\ bsp.pc = "trampoline"
    /\ stack_slot' = 0
    /\ bsp' = [bsp EXCEPT !.pc = "next"]
    /\ UNCHANGED <<boot, cpus, oom>>

-----------------------------------------------------------------------------
(* start_all_aps on the boot CPU.  Without a local APIC it takes 0 for its *)
(* own id, and sends nothing.                                              *)

others == <<ap_started_count, next_cpu_index, ap, in_time>>

lapic_get_id == IF lapic THEN BspId ELSE 0

Target == Madt[bsp.i].apic_id

Startable == bsp.pc = "next" /\ bsp.i <= ncpu /\ Madt[bsp.i].enabled /\ Target # lapic_get_id

(* A processor that is disabled, or is the boot CPU. *)
SkipCpu ==
    /\ bsp.pc = "next" /\ bsp.i <= ncpu
    /\ ~Madt[bsp.i].enabled \/ Target = lapic_get_id
    /\ bsp' = [bsp EXCEPT !.i = @ + 1]
    /\ UNCHANGED <<stack_slot, others, cpus, oom>>

(* kalloc returned no stack: an error is logged, and on with the next. *)
NoStack ==
    /\ Startable
    /\ oom' = TRUE
    /\ bsp' = [bsp EXCEPT !.i = @ + 1]
    /\ UNCHANGED <<stack_slot, others, cpus>>

(* The stack of this AP goes into the trampoline's slot. *)
SetStack ==
    /\ Startable /\ ~oom
    /\ stack_slot' = Target
    /\ bsp' = [bsp EXCEPT !.pc = "send"]
    /\ UNCHANGED <<others, cpus, oom>>

(* old_count is read and INIT is sent: the AP waits for a start-up IPI. *)
lapic_send_init ==
    /\ bsp.pc = "send"
    /\ bsp' = [bsp EXCEPT !.pc = "sipi1", !.old_count = ap_started_count]
    /\ ap' = IF lapic THEN [ap EXCEPT ![Target].pc = "wait"] ELSE ap
    /\ UNCHANGED <<stack_slot, ap_started_count, next_cpu_index, in_time, cpus, oom>>

(* Mistake: the count is read once more, when the AP may be counted.       *)
lapic_send_sipi_late_count ==
    /\ bsp.pc \in {"sipi1", "sipi2"}
    /\ bsp' = [bsp EXCEPT !.pc = IF @ = "sipi1" THEN "sipi2" ELSE "poll",
                          !.old_count = ap_started_count]
    /\ \/ lapic /\ ap[Target].pc = "wait" /\ ap' = [ap EXCEPT ![Target].pc = "sipi"]
       \/ UNCHANGED ap
    /\ UNCHANGED <<stack_slot, ap_started_count, next_cpu_index, in_time, cpus, oom>>

(* A start-up IPI, sent twice because the first may be lost; the second    *)
(* may be lost as well.  One that reaches an AP which runs already changes *)
(* nothing.                                                                *)
lapic_send_sipi ==
    /\ bsp.pc \in {"sipi1", "sipi2"}
    /\ bsp' = [bsp EXCEPT !.pc = IF @ = "sipi1" THEN "sipi2" ELSE "poll"]
    /\ \/ lapic /\ ap[Target].pc = "wait" /\ ap' = [ap EXCEPT ![Target].pc = "sipi"]
       \/ UNCHANGED ap
    /\ UNCHANGED <<stack_slot, ap_started_count, next_cpu_index, in_time, cpus, oom>>

Counted(a) == a \in Aps /\ ap[a].pc \in {"sched", "ready", "loop", "panic"}

(* start_ap returns, and the next processor is looked at. *)
StartApReturns(counted) ==
    /\ bsp' = [bsp EXCEPT !.pc = "next", !.i = @ + 1, !.started = @ + counted]
    /\ in_time' = IF Counted(Target) THEN in_time \cup {Target} ELSE in_time
    /\ UNCHANGED <<stack_slot, ap_started_count, next_cpu_index, ap, cpus, oom>>

(* Mistake: the poll does not wait for a further AP. *)
PollStartedEarly ==
    /\ bsp.pc = "poll" /\ ap_started_count >= bsp.old_count
    /\ StartApReturns(1)

PollStarted ==
    /\ bsp.pc = "poll" /\ ap_started_count > bsp.old_count
    /\ StartApReturns(1)

(* Mistake: the polls are not counted. *)
PollForever ==
    /\ bsp.pc = "poll" /\ ap_started_count <= bsp.old_count
    /\ UNCHANGED vars

(* After 1000 polls: "WARNING: AP did not start".  The AP may yet come. *)
PollTimeout ==
    /\ bsp.pc = "poll" /\ ap_started_count <= bsp.old_count
    /\ StartApReturns(0)

(* kernel_main's delay loop begins, and ends. *)
AllSent ==
    /\ bsp.pc = "next" /\ bsp.i > ncpu
    /\ bsp' = [bsp EXCEPT !.pc = "wait", !.i = 0]
    /\ UNCHANGED <<stack_slot, others, cpus, oom>>

WaitEnds ==
    /\ bsp.pc = "wait"
    /\ bsp' = [bsp EXCEPT !.pc = "demo"]
    /\ UNCHANGED <<stack_slot, others, cpus, oom>>

(* create_demo_threads: a thread for CPU i / 2, two for each CPU below     *)
(* ncpu, whether it has come up or not.  Even after a failure there may be a page: a thread that exits    *)
(* frees its queue node.                                                   *)
AddDemoThread ==
    LET x == bsp.i \div 2 IN
    /\ bsp.pc = "demo" /\ bsp.i < 2 * ncpu
    /\ run_queue' = [run_queue EXCEPT ![x] = @ + 1]
    /\ added' = IF x \in ready_queues THEN [added EXCEPT ![x] = @ + 1] ELSE added
    /\ bsp' = [bsp EXCEPT !.i = @ + 1]
    /\ UNCHANGED <<lapic, stack_slot, others, percpu, apic_to_cpu, gdtr, oom, ready_queues>>

(* create_thread found no page: on with the next thread. *)
SkipDemoThread ==
    /\ bsp.pc = "demo" /\ bsp.i < 2 * ncpu
    /\ oom' = TRUE
    /\ bsp' = [bsp EXCEPT !.i = @ + 1]
    /\ UNCHANGED <<stack_slot, others, cpus>>

(* scheduler_ready and sched_run. *)
EnterScheduler ==
    /\ bsp.pc = "demo" /\ bsp.i = 2 * ncpu
    /\ bsp' = [bsp EXCEPT !.pc = "loop"]
    /\ percpu' = [percpu EXCEPT ![mycpu(BspId)].ready = TRUE]
    /\ UNCHANGED <<lapic, stack_slot, others, apic_to_cpu, gdtr, oom, queues>>

-----------------------------------------------------------------------------
(* The application processor a: the trampoline, then ap_entry. *)

(* The trampoline: what it does before mov rsp, [0x80E8] touches nothing   *)
(* that is shared.                                                         *)
LoadStack(a) ==
    /\ ap[a].pc = "sipi"
    /\ ap' = [ap EXCEPT ![a].pc = "entry", ![a].rsp = stack_slot]
    /\ UNCHANGED <<bsp, stack_slot, ap_started_count, next_cpu_index, in_time, cpus, oom>>

(* The atomic fetch-and-add on next_cpu_index. *)
TakeIndex(a) ==
    /\ ap[a].pc = "entry"
    /\ ap' = [ap EXCEPT ![a].pc = "init", ![a].index = next_cpu_index]
    /\ next_cpu_index' = next_cpu_index + 1
    /\ UNCHANGED <<bsp, stack_slot, ap_started_count, in_time, cpus, oom>>

(* Mistake: the structure is cleared first, as the boot CPU's is. *)
percpu_init_ap_cleared(a) ==
    LET x == ap[a].index IN
    /\ ap[a].pc = "init"
    /\ percpu' = [percpu EXCEPT ![x] = [Zeroed EXCEPT !.apic_id = a, !.started = TRUE]]
    /\ apic_to_cpu' = [apic_to_cpu EXCEPT ![a] = x]
    /\ gdtr' = percpu_load_gdt(a, x)
    /\ ap' = [ap EXCEPT ![a].pc = "count"]
    /\ UNCHANGED <<lapic, bsp, stack_slot, ap_started_count, next_cpu_index, in_time, oom, queues>>

(* An index that no percpu structure has is ignored; then lapic_init. *)
percpu_init_ap(a) ==
    LET x == ap[a].index IN
    /\ ap[a].pc = "init"
    /\ IF x \in Indices \ {0}
       THEN /\ percpu' = [percpu EXCEPT ![x] = setup_tss([@ EXCEPT !.apic_id = a, !.started = TRUE])]
            /\ apic_to_cpu' = [apic_to_cpu EXCEPT ![a] = x]
            /\ gdtr' = percpu_load_gdt(a, x)
       ELSE UNCHANGED <<percpu, apic_to_cpu, gdtr>>
    /\ ap' = [ap EXCEPT ![a].pc = "count"]
    /\ UNCHANGED <<lapic, bsp, stack_slot, ap_started_count, next_cpu_index, in_time, oom, queues>>

(* The fetch-and-add on ap_started_count. *)
CountStarted(a) ==
    /\ ap[a].pc = "count"
    /\ ap_started_count' = ap_started_count + 1
    /\ ap' = [ap EXCEPT ![a].pc = "sched"]
    /\ UNCHANGED <<bsp, stack_slot, next_cpu_index, in_time, cpus, oom>>

(* setup_idt_ap, then sched_init_cpu: the run queue starts out empty; the  *)
(* scheduler's stack and the idle thread take pages.                       *)
sched_init_cpu(a) ==
    LET x == mycpu(a) IN
    /\ ap[a].pc = "sched"
    /\ InitQueue(x)
    /\ percpu' = [percpu EXCEPT ![x].ready = FALSE]
    /\ MayRunOut
    /\ ap' = [ap EXCEPT ![a].pc = IF oom' THEN "panic" ELSE "ready"]
    /\ UNCHANGED <<lapic, bsp, stack_slot, ap_started_count, next_cpu_index, in_time,
                   apic_to_cpu, gdtr, added>>

(* scheduler_ready = true and sched_run. *)
ApEnterScheduler(a) ==
    /\ ap[a].pc = "ready"
    /\ percpu' = [percpu EXCEPT ![mycpu(a)].ready = TRUE]
    /\ ap' = [ap EXCEPT ![a].pc = "loop"]
    /\ UNCHANGED <<lapic, bsp, stack_slot, ap_started_count, next_cpu_index, in_time,
                   apic_to_cpu, gdtr, oom, queues>>

-----------------------------------------------------------------------------
ap_entry(a) ==
    \/ LoadStack(a) \/ TakeIndex(a) \/ percpu_init_ap(a) \/ CountStarted(a)
    \/ sched_init_cpu(a) \/ ApEnterScheduler(a)

kernel_main ==
    \/ percpu_init_bsp \/ percpu_alloc_stacks \/ BspSchedInit \/ procinit
    \/ setup_trampoline
    \/ SkipCpu \/ NoStack \/ SetStack \/ lapic_send_init \/ lapic_send_sipi \/ PollStarted \/ PollTimeout
    \/ AllSent \/ WaitEnds \/ AddDemoThread \/ SkipDemoThread
    \/ EnterScheduler

Next == kernel_main \/ \E a \in Aps : ap_entry(a)

Spec == Init /\ [][Next]_vars

Up(a) == ap[a].pc \notin {"off", "wait", "sipi"}

(* "Allocate stack for this AP": every AP that runs is on the stack that   *)
(* start_all_aps allocated for it, and on no other CPU's.                  *)
OwnStack == \A a \in Aps : Up(a) => ap[a].rsp = a

(* What two CPUs do on one stack is undefined, and it can happen (Spec     *)
(* does not satisfy []OwnStack): OwnStackSpec follows the machine for as   *)
(* long as it does not.  The boot CPU's loops are bounded, and a CPU that  *)
(* has been started goes on.                                               *)
OwnStackSpec ==
    /\ Init /\ [][OwnStack /\ Next]_vars
    /\ WF_vars(OwnStack /\ kernel_main)
    /\ \A a \in Aps : WF_vars(OwnStack /\ ap_entry(a))

-----------------------------------------------------------------------------
(* The types of the start-up variables; no AP takes an index beyond the    *)
(* percpu structures.                                                      *)
TypeOK ==
    /\ bsp.pc \in {"percpu", "stacks", "proc", "trampoline", "next", "send", "sipi1",
                   "sipi2", "poll", "wait", "demo", "loop", "panic"}
    /\ bsp.i \in 0..(2 * ncpu) /\ bsp.started \in 0..ncpu
    /\ stack_slot \in ApicIds \cup {0}
    /\ ap_started_count \in 0..(ncpu - 1)
    /\ next_cpu_index \in 1..ncpu
    /\ \A a \in Aps : ap[a].index \in Indices
    /\ apic_to_cpu \in [ApicIds -> Indices \cup {-1}]
    /\ gdtr \in [ApicIds -> Indices \cup {-1}]
    /\ oom \in BOOLEAN /\ run_queue \in [Indices -> 0..2]

Stacks(x) == {percpu[x].rsp0, percpu[x].ist1}
OwnTss(a, x) ==
    /\ gdtr[a] = x
    /\ \A y \in Indices \ {x} : Stacks(x) \cap Stacks(y) = {}
    /\ 0 \notin Stacks(x) /\ Cardinality(Stacks(x)) = 2

(* From percpu_init_ap on, mycpu finds the AP's own structure: one that no *)
(* other CPU uses, that carries its APIC id and is marked started.  The    *)
(* GDT and TSS it has loaded are those of that structure, with two stacks  *)
(* that are nobody else's (where percpu_alloc_stacks found no page, the    *)
(* boot ends in a panic before an AP is sent for).  No index leaves the    *)
(* percpu structures.                                                      *)
OwnPercpu ==
    TypeOK /\ \A a \in Aps : ap[a].pc \in {"count", "sched", "ready", "loop", "panic"} =>
        /\ mycpu(a) # mycpu(BspId)
        /\ \A b \in Aps \ {a} : Up(b) => ap[b].index # mycpu(a)
        /\ percpu[mycpu(a)].apic_id = a /\ percpu[mycpu(a)].started
        /\ OwnTss(a, mycpu(a))

(* "Number of APs successfully started": start_all_aps never reports more  *)
(* APs than have counted themselves, and each of those has its structure   *)
(* marked started; an increase of the count by an AP that is late for its  *)
(* own wait may be taken for the next AP's, but no increase is reported    *)
(* twice.  Every AP that was counted when the wait for it ended is in the  *)
(* reported number: only late APs can be missing from it.                  *)
ReportIsTrue ==
    /\ bsp.started <= ap_started_count
    /\ ap_started_count < Cardinality({x \in Indices : percpu[x].started}) \/ bsp.pc = "percpu"
    /\ Cardinality(in_time) <= bsp.started

(* create_demo_threads gives threads to CPUs that may not have come up,    *)
(* and the delay before it may be too short for one that is coming: the    *)
(* sched_init_cpu of that CPU then throws out what its queue holds.  No    *)
(* other thread is thrown out: once a queue has been initialised, every    *)
(* thread added to it stays, however late the other APs initialise theirs. *)
ThreadsKept == \A x \in ready_queues : run_queue[x] = added[x]

(* The boot ends, whichever start-up interrupts are lost and however slow  *)
(* the APs are (unless two CPUs come to share a stack): kernel_main        *)
(* reaches its scheduler, and so does every AP that a start-up interrupt   *)
(* has reached; a CPU panics instead only when kalloc has run out of pages.*)
BootCompletes ==
    LET End == {"loop"} \cup IF oom THEN {"panic"} ELSE {} IN
    <>(\/ ~OwnStack
       \/ bsp.pc \in End /\ \A a \in Aps : ap[a].pc \in End \cup {"off", "wait"})
=============================================================================
