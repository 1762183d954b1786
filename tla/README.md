# ShipOS verification project

ShipOS is an x86-64 kernel in C: it boots through GRUB on one processor, takes
its memory, page tables, interrupt controllers and terminals into use, starts
the other processors, and runs kernel threads on all of them. This directory
holds TLA+ models of its parts, TLC configurations that check them on small
instances, and TLAPS proofs of the results that do not depend on the size of
the instance. `PROJECT.json` is the index: components, runs, the source lines
every definition stands for, hazards and theorems.

Paths below are relative to `src/kernel/`.

## 1. The system

| Part | Source | What runs it |
|---|---|---|
| spinlocks, interrupt masking | `sync/spinlock.c`, `sched/percpu.c` (pushcli, popcli) | every CPU, and the interrupt handlers |
| page allocator | `kalloc/kalloc.c` | boot CPU during boot; APs in `sched_init_cpu` |
| page tables | `paging/paging.c` | boot CPU; the processor's table walker reads them at any time |
| ACPI discovery | `desc/*.c`, `main.c` | boot CPU, before the upper memory is freed |
| interrupt controllers, IDT, handlers | `apic/lapic.c`, `apic/ioapic.c`, `idt/*` | boot CPU; keyboard and timer hardware |
| AP start-up, per-CPU data | `apic/ap_startup.c`, `apic/ap_trampoline.asm`, `sched/percpu.c` | boot CPU and every AP, concurrently |
| SMP scheduler, threads, context switch | `sched/smp_sched.c`, `sched/threads.c`, `lib/src/swtch.asm` | every CPU |
| terminals, VGA, serial, printf, logging, panic | `tty/`, `vga/`, `serial/`, `lib/src/str_utils.c`, `lib/src/panic.c` | every CPU; the keyboard handler |
| boot assembly, interrupt stubs | `../x86_64/boot`, `idt/interrupt_stub.asm` | once per CPU, interrupt |
| first scheduler, mutex, generic lists | `sched/scheduler.c`, `sched/proc.c`, `sync/mutex.c`, `list/` | nothing today but `procinit`; modelled as callers would use them (linkedlist.h is a template that nothing instantiates) |
| not in use | `pic/`, `pit/`, `vm/`, `lib/src/shutdown.c` | nothing (shutdown: test builds) |

How they meet: the locks are used by the scheduler (`sched_lock`), the serial
ports and the terminals; the handlers take the output locks, so a lock is only
safe while interrupts are off. The scheduler's run queues are linked lists with
one owner CPU and remote writers. The page allocator serves page tables, stacks
and thread nodes, and has no lock. ACPI tables lie in memory that the second
`kinit` clears; the I/O APIC code reads their copy later.

The sources of concurrency are the (up to 64) processors, interrupts on each
of them, the timer and keyboard hardware, the UARTs and the TLB. The kernel
persists nothing and exchanges no messages, so crashes of the kernel and
unreliable delivery do not arise; what can fail is an allocation, an AP that
does not answer, and a missing device or table.

## 2. Modules

| Module | Models | Composition |
|---|---|---|
| `Spinlock` | acquire, release, holding with pushcli/popcli; interrupts | |
| `ThreadLife` | *abstract*: life of a thread | |
| `SmpSched` | sched_run, idle thread, yield, exit, add, remove, balance; queues as sequences | refines `ThreadLife` |
| `RunQueue` | one ring, one step per C statement | justifies the atomic queues of `SmpSched` |
| `Context` | switch_context instruction by instruction, init_thread's first frame | justifies the atomic switch of `SmpSched` |
| `LegacySched` | scheduler.c, proc.c, the thread lists' pop, shift and peek, mutex.c | |
| `SeqList` | *abstract*: a sequence with insert and remove | |
| `LinkedList` | linkedlist.h, node by node | refines `SeqList` |
| `List` | list.c: circular list with an embedded node | |
| `PageAlloc` | *abstract*: a page is free or has one owner | |
| `Kalloc` | kinit, kalloc, kfree, one step per load or store | refines `PageAlloc` |
| `AddrSpace` | *abstract*: map of pages with range requests | |
| `Paging` | walk, kvminit, map/unmap calls, va_to_pa; TLB | refines `AddrSpace` |
| `Acpi` | RSDP scan, root table, MADT, mapping, copies | extended by `Interrupts` |
| `Interrupts` | IDT, local APICs and I/O APICs, handlers on every CPU, the boot CPU's page fault, keyboard, timers | composes with `Acpi` |
| `ApStartup` | percpu structures and stacks, start_all_aps with its three IPIs, trampoline, ap_entry, end of kernel_main | |
| `Format` | str_utils.c, printf directives, and a reference for them | extended by `Console` |
| `Console` | tty, vga, serial, printf, panic, keyboard handler | composes with `Format` |
| `*Proofs` | TLAPS proofs for `Spinlock`, `SmpSched`, `Kalloc`, `LegacySched` | extend those modules |
| `MC*` | instances for TLC | extend the module of that name |
| `MCOneCpu` | one instance for the parts where one call at a time is at work | extends `Kalloc`, `RunQueue`, `List`, `LinkedList`, `LegacySched`, `Context` |

### How state and actions correspond to the code

**Spinlock.** `is_locked[l]` is the lock word and `cpu[c]` holds EFLAGS.IF and
the percpu fields `ncli` and `intena`. Each CPU has a stack of execution levels
(thread code, a handler on top of it, and a third level that exists so that an
interrupted handler would be seen). `ReadEflags` and `Cli` are the two halves
of pushcli, with an interrupt possible between them; `Xchg` is the atomic
exchange of acquire_spinlock, `Release` the store of the zero, `Pop` popcli with
its panics. `Nesting` lists which lock is taken inside which.

**SmpSched.** `run_queue[c]` is the ring read off from its head, `pc[c]` the
point of `sched_run`, of the thread, or of the call it makes. `sched_run` picks
(rotating the ring), sets `current_thread`, marks ON_CPU and switches in
separate steps; `sched_add_thread` takes `sched_lock`, links and releases.
CPU 0 begins in kernel_main. `Started` are the CPUs whose `started` flag is set:
the choice of the least loaded CPU and the balancing pass over the others, but a
caller that names a CPU may name one that was never started; `stranded` are the
threads it gave to such a CPU, which nobody runs. `Spec` is the kernel as it is.
`BalanceSpec` adds calls of `sched_balance`, which nothing calls today.

**RunQueue.** `q` holds the words of `percpu.run_queue`, `num_threads` and the
nodes; `call[p]` is the statement the owner CPU or the remote CPU is at.
`QueueSerialSpec` lets operations alternate, `QueueSpec` lets them overlap.

**Context.** `core` has the registers, the stack and the word the stack pointer
is at; `mem[s]` the words of stack `s`; `ctx[s]` the saved stack pointer
(`thread->context`, `cpu->scheduler_ctx`). Every push, pop, the two moves and the
ret are steps. Interrupts are on during a switch, so after every instruction the
words below the stack pointer are taken as lost. Code between switches may have
changed every register and hold a local on its stack.

**LegacySched.** `procs` is the ring of processes and each one's ring of threads,
as sequences from the node the list pointer is at; `task[t]` a thread's state,
the mutex it waits for and the ones it holds; `mutex[m]` the spinlock word and the
queue. Each loop of get_next_thread is an action per round. acquire_mutex ends at
its yield when the mutex is taken, and `Woken` is what it does after it.

**LinkedList / SeqList, List.** The pointers of nodes, the ends and the count, with
one action per function of the template or of list.c. The refinement reads
the sequence off from the first node on. A call that writes through null, or gives
kfree a node that malloc returned (`list_free` of a list that is not empty; malloc
is not part of the kernel), is recorded as undefined and ends the behaviour.

**Kalloc.** `next[p]` is the first word of page `p`, `freelist` the list head,
`reg[c]` a value loaded and not yet stored. Addresses are numbers, so
PGROUNDUP and the bound of kinit's loop are computed as in the code. `Junk` is
the 0x05 fill read as a pointer. `stack` is a history of the chain used to state
the properties. `SerialSpec` has no overlapping calls, `Spec` has.

**ApStartup.** `stack_slot` is the trampoline's only stack word,
`ap_started_count` and `next_cpu_index` the shared counters, `percpu[x]` the
fields the start-up writes (the stacks and TSS of percpu_alloc_stacks among
them), `gdtr[a]` whose GDT a CPU has loaded, `bsp` and `ap[a]` program points.
kalloc may run out (`oom`) at each place that tests its result: a stack is left
out, an AP or a thread skipped, or the CPU panics. The tests that the code leaves
out (init_thread, push_thread_list) are taken to find a page. lapic_init may have
found no local APIC; every IPI is then dropped. start_ap sends INIT and the start-up
IPI twice; each start-up IPI may be lost, and an AP that runs ignores it. No
timing is assumed: every delay loop and every poll of the boot CPU may end before
the AP has acted, or after. `ready_queues`, `added` and `in_time` are histories.
Two CPUs can come to share a stack (section 4), after which what they do is
undefined: `OwnStackSpec` is `Spec` for as long as they do not.

**Paging / AddrSpace.** `mem[t][i]` is entry `i` of the table in page `t`; a page
fresh from kalloc holds `Junk`, whose present bit is set. `k` is the call in
progress with its loop variables; every store into a table, the zeroing of a
new table and every invlpg is a step, and `TlbFill` may cache any translation
between them. Tables the boot assembly left are in `Init`.

**Acpi / Interrupts.** `boot.pc` walks through kernel_main from the RSDP scan to
the enabling of interrupts. An allocation, and with it the mapping of a controller
or the copy of a table, may fail; the copy of a table longer than a page
writes past its page, which ends the behaviour (`overrun`); a MADT entry of length
zero keeps the loop over the entries, and the boot, where it is. Every redirection
entry is as the firmware left it, unmasked, until ioapic_init masks it; an I/O APIC
beyond MAX_IOAPICS is not listed and stays so. Enabling the keyboard is the three
exchanges with its controller, in which a scancode that is already there is taken
for the configuration byte. The local APIC has IRR and ISR with priorities, the
keyboard line is edge triggered (a scancode raises it only when the output
buffer was empty), `Deliver` runs the gate of the highest pending vector and
`Handler` the statements of the handler up to its EOI. An AP loads the same IDT
and starts a timer of its own; every CPU has a local APIC and refuses external
vectors below 16 as the hardware does. The one exception modelled is a page fault
of the boot CPU, on a register that is not mapped; its handler prints and stops.

**Format / Console.** `Format` computes the characters of each conversion on
integers of given widths. `Console` unfolds a call into elementary steps (take a
lock, scroll, store, copy one cell to VGA memory, wait for a transmitter, send)
kept in `todo[p]`. A number wider than printf's buffer, whose size the formatting
functions are not given, writes past it and ends the call (`overrun`). The memory
at address 0 is `tty[NULL]`, because LOG is called before `init_tty` with
`active_tty` null. `cleared`, `text` and `wire` are histories the properties speak
of.

In every module operators that the comments call variants or mistakes (a dropped
guard, a swapped order) are used by no action; they are there to show that
each property would notice that mistake.

## 3. Runs

`tlc -config <cfg> <module>` in this directory. "violation" runs are ones where
the code does not do what one of its comments or tests says (section 4).

| Run | Module, cfg | Distinct states | Question |
|---|---|---|---|
| `spinlock` | MCSpinlock | 24 591 | mutual exclusion, interrupt masking, every spin ends |
| `smpsched` | MCSmpSched | 111 245 | one CPU per thread, no thread lost, exit is final, round robin, no starvation |
| `balance_exit` | MCSmpSched, MCBalanceExit | violation | the same with calls of sched_balance |
| `one_cpu` | MCOneCpu | 160 429 | page allocator, run queue, both generic lists, first scheduler with its mutex, context switch: each keeps its data over every sequence of calls |
| `kalloc_smp` | MCKalloc, MCKallocSmp | violation | the allocator with two CPUs in kalloc |
| `run_queue_ring_race` | MCRunQueue, MCRunQueueRace | violation | the run queue when a remote add overlaps the owner |
| `ap_startup` | MCApStartup | 109 252 | own percpu, true count, threads kept, boot ends |
| `ap_late_stack` | MCApStartup, MCApStartupLate | violation | own stack, when an AP answers after its time-out |
| `paging` | MCPaging | 82 050 | tables readable at every store, TLB never stale, rollback, calls return |
| `interrupts` | MCInterrupts | 62 719 | ACPI to handlers on all CPUs: mapped before touched, keys read, timers tick |
| `console` | MCConsole | 100 069 | terminals, screen, serial messages, conversions |
| `console_two_locks` | MCConsole, MCConsoleLocks | violation | a terminal's text when one CPU prints while another is in printf |

### What they show

* `LockHasOneHolder`, `InterruptedHoldsNothing`, `NcliIsNestingDepth`,
  `InterruptFlagTransparent`: a lock has one holder across CPUs and interrupt
  levels; interrupted code holds no lock; `ncli` is the depth of the lock
  sections; code finds its interrupt flag after the outermost release as it
  left it, even when an interrupt arrives between pushcli's read of EFLAGS and
  its cli. `SpinEnds`: a CPU that spins gets the lock or sees it free again.
* `OneCpuPerThread`, `LinkedOnce`, `AdmittedIsLinked`, `ExitIsFinal`: in every
  interleaving a thread is on one CPU, on one ring, never lost, and does not run
  after sched_exit. `NoOvertaking` bounds how often another thread may run
  first, `RunnableRuns` says a runnable thread does run, unless its caller asked for
  a CPU that was never started. `ImplementsThreadLife` is the refinement.
* `ListIsSound`, `DistinctPages`, `NoFault`, `ImplementsPageAlloc`: after each
  store the chain through the pages is exactly the pages that are free, and the
  first kinit with the second neither overlap nor reach the kernel image.
* `RunQueueSound`: between operations the nodes of a run queue form one ring in
  both directions, the count is its length, and its order is the one `SmpSched`
  assumes. `ListsKeepShape` says the like of list.c and linkedlist.h, and
  `ImplementsSequence` that the template is a sequence.
* `ContextKept`: whoever is switched to continues on its own stack with the
  registers, stack pointer and locals it had when it called switch_context; a new
  thread starts its function with its two arguments; an exited one never returns.
* `SchedulerFindsRunnable`: get_next_thread gives up only when no thread is
  RUNNABLE, although both rings turn while it searches, and it loses none.
  `MutexExclusive`: one holder, whose word is set, and nobody takes a mutex between
  a waiter's wake-up and its retry.
* `OwnPercpu`, `ReportIsTrue`, `ThreadsKept`, `BootCompletes`: as long as no two CPUs
  share a stack, every AP has its own percpu structure, GDT and TSS stacks, however
  late it is; the reported number counts no AP twice and misses only late ones; a
  run queue that has been initialised loses no thread (threads given to a CPU that
  initialises its queue afterwards are lost, which create_demo_threads does not
  prevent); kernel_main and every AP that a start-up IPI reached get to their
  scheduler loop, and panic instead only when kalloc has run out. The machine has
  a disabled processor, and a boot CPU that is not first in the MADT.
* `TablesFormTree`, `TlbCoherent`, `ImplementsAddrSpace`, `CallsReturn`: no table
  the walker can reach ever holds junk; between calls the TLB agrees with the
  tables; a failed map_pages leaves the pages before the failing one unmapped.
* `NoFault`, `TablesFound`, `OnlyKeyboardUnmasked`,
  `KeysAreRead`, `TimerKeepsTicking`: a controller is mapped before its first
  access; the processors found are those of the table up to the array size; the
  MADT is still readable after kinit cleared the firmware's copy; from the masking
  in ioapic_init on, no line but the keyboard's is unmasked on the I/O APICs it
  listed; no scancode stays in the controller.
* `ScreenShowsActive`, `TerminalShowsItsText`, `MessagesArrive`,
  `FieldsReadBack`, `CallsReturn`: whenever no call is under way the VGA memory is
  the active terminal's buffer; a buffer is the last rows of its text; what one
  printf, one print or one serial_printf writes is not broken up by another of the
  same; the serial registry holds as many ports as fit twice, the last of them is
  the default, and nothing is sent to a port that did not echo; a formatted number
  reads back as the value passed, in a field of the shape asked for, and stays in
  printf's buffer if the width is smaller than that and the precision leaves room
  for a prefix. All this is for
  the kernel's own way of calling: set_tty with interrupts off, and terminals used
  by one CPU or by several in the same function.

### Bounds, and why they are enough

* *Spinlock*: two CPUs, the four locks in their two real nestings, two operations
  per CPU (`MaxOps`). A conflict needs two CPUs or one CPU and its handler; the
  proofs remove the bound.
* *SmpSched*: two CPUs and a third that was never started, three threads. Three
  threads give a ring on which a thread can be skipped; the proofs cover any
  number for everything but the order and liveness. Symmetry is used only in
  `balance_exit`, an invariant.
* *Kalloc* (a part of `one_cpu`): two CPUs, pages of 4 bytes, a kernel that ends
  inside a page, a first range of one page and a second of three. The last page of
  each range is not freed, which the model takes over. The proofs cover every
  layout with a page-aligned INIT_PHYSTOP.
* *One CPU*: a run queue of four threads, so that a node has two distinct
  neighbours and there is one more to add; four entries for list.c and five nodes
  for linkedlist.h, so that get_node walks more than one step from either end and
  malloc fails once all are in use (the nodes are interchangeable, hence the
  symmetry; every property of the run is a safety property). Two processes of two
  threads and two mutexes give a waiter behind a waiter and a cycle of holders.
  Two threads with stacks of 18 words: a context, a return address and a local.
  The six parts share nothing and a behaviour is one of one of them.
* *ApStartup*: four processors, one of them disabled, with a local APIC or without;
  two APs are enough for one to be late for the other. Memory runs out at any
  point or never, and any start-up IPI may be lost. The violation uses three processors.
* *Paging*: three levels of two entries; eight pages, three pages for tables and
  two calls after kvminit, so that a call can run out at each level and a second
  call meets what a failed one left. `Requests` has ranges that start and end
  inside a page, size 0, remapping and overlap.
* *Interrupts*: eight sets of tables (bad checksums, old and new RSDP, missing MADT,
  too many processors and I/O APICs, a cut-off entry, one of length zero, an
  override, tables longer than a page), zero to three pages left, so that each
  copy and mapping can be the one that fails, and two scancodes: one being read and
  one that arrives before the EOI. One AP beside the boot CPU, each with its timer.
* *Console*: a screen of 2 x 3 and two terminals, so that wrap, newline and scroll
  meet within a few characters; integers of 2 to 5 bits in place of 8 to 64, all
  with their minimum among the arguments; a buffer of 8 characters with fields
  of 7, 8 and 9; every subset of the four ports.

### Fairness

Weak fairness of a CPU's own steps: a processor executes its instructions. In
`Spinlock` the retry of the exchange is not what is made fair, a CPU finishing
what it began is. In `SmpSched` it also says that a thread reaches its next yield
or exit (the demo threads do; there is no preemption) and that the periodic timer
ends hlt in the idle thread. In `Interrupts` delivery is strongly fair: the
interrupt flag goes off and on, and the local APIC presents what is pending
whenever it is on. The UARTs drain. Nothing is assumed about when keys are
pressed, or whether an AP is started in `Interrupts`. In `ApStartup` nothing is
assumed about delays or the delivery of IPIs, only that the boot CPU and an AP that
runs go on, up to the step at which two CPUs share a stack.

## 4. Where code and comments disagree

| Run | What happens |
|---|---|
| `kalloc_smp` | the lock in kalloc and kfree is commented out; two CPUs get one page (test.c: distinct addresses) |
| `run_queue_ring_race` | sched_add_thread links under `sched_lock`, the owner rotates without it: the ring breaks (percpu.h: circular list) |
| `ap_late_stack` | an AP slower than its time-out loads the next AP's stack (ap_startup.c: stack for this AP) |
| `balance_exit` | sched_balance can migrate a thread that is already picked; it then runs after it exited (smp_sched.h: never run again). No caller today |
| `console_two_locks` | print and printf take different locks, so a print moves the cursor between putchar's test of the line and its store, which lands below the last line (tty.c: locks that make both thread-safe) |

These are why the allocator and the run queue in `one_cpu` are checked for calls that
do not overlap, `ap_startup` for as long as no two CPUs share a stack, and `console`
for CPUs that print through the same function: under that condition the rest of the
properties hold. `SmpSched` treats queue operations as atomic, so its results
are conditional on the ring operations not overlapping, which `one_cpu`
supports and `run_queue_ring_race` shows the kernel does not ensure.

Smaller disagreements, modelled as the code has them:

* clear_current_tty and clear_vga clear half of the two-byte cells.
* Each serial port is registered twice until the table is full: one, two and three
  ports give a count of 2, 4 and 4, and with three or four the default is the second
  port and not the last.
* ioapic.c says that all interrupts are masked initially; this is so for the first
  MAX_IOAPICS I/O APICs of the table.
* format_unsigned and format_signed ask for a buffer that is large enough, and
  printf passes on any width and precision.
* release_mutex with a waiter leaves the spinlock word set, so the waiter it wakes
  panics on it; pop_thread_list and pop_proc_list assign in their test and drop
  the nodes behind the first, so further waiters are never woken.
  `MutexExclusive` is what is left: exclusion.
* current_proc_rounds is never incremented, so ROUNDS_PER_PROC is never reached.
* remove_nxt and remove_prv of linkedlist.h write through null at the ends, and
  remove_prv keeps the count; list_free gives kfree the nodes that new_node took
  from malloc. `ListSound` speaks of lists no such call has met.
* The build does not pass -mno-red-zone: a leaf function may keep locals below the
  stack pointer, where an interrupt's frame goes. `Context` takes locals to lie
  above it, which holds at every call of switch_context.

## 5. Proofs

`tlapm SpinlockProofs.tla`, and so on. Each theorem holds for every value of the
constants allowed by the named assumption of its module.

**SpinlockProofs** (`SpinlockAssumption`: some locks, any nesting relation, any
CPUs). `MutualExclusion`, `NoHandlerSelfDeadlock`, `NcliCounts`, `FlagRestored`,
`PanicFree`, `TypeCorrect`. None of the invariants is inductive alone: that a
lock has one holder needs the held sets of the interrupted levels to be empty, which
needs the interrupt flag to be clear while `ncli` is positive, which needs `ncli`
to be the depth. The inductive `IInv` is the type invariant, `LockHasOneHolder`
and per CPU `CpuInv`: the depth equation, the flag equal to the outer flag at
depth 0 and clear with `intena` equal to it elsewhere, and levels above the
running one idle.

**SmpSchedProofs** (`SchedAssumption`: at least one CPU, any of them started, the
boot CPU among these; distinct names).
`ThreadHasOneCpu`, `RingsDisjoint`, `NoThreadLost`, `ExitFinal`, `CallerIsCurrent`,
`TypeCorrect`, and `Refinement` (`Spec => ImplementsThreadLife`). A thread could be
on two CPUs only if it were on two rings or picked from one while running on the
other, so `IInv` ties together: each ring has distinct threads and no two share
one (`RingInv`); no two CPUs are busy with one thread (`BusyInv`); per CPU, what
the program point says about `current_thread`, the local `next` and the thread's
state (`CpuInv`); what a thread's state says about where it is (`ThreadInv`); and
that the CPU about to link a new thread holds `sched_lock` (`PushInv`). The
refinement maps a thread to *on*, *new*, *ready* or *gone*; each action is shown
to be one abstract step or a stutter.

**KallocProofs** (`KallocAssumption`: any page size and layout with KEND <=
INIT_PHYSTOP <= PHYSTOP and INIT_PHYSTOP a multiple of the page size, which
memlayout.h has). About `SerialSpec`, calls that do not overlap, for any number of
CPUs and pages: `PagesDistinct`, `ListSound`, `NeverFaults`, `TypeCorrect` and
`Refinement` (`SerialSpec => ImplementsPageAlloc`). `IInv` adds to the three
properties what the locals of a call in progress say about the list (`Locals`),
that only one CPU is in a call (`Serial`) and that pages kinit has still to free
belong to no caller (`Boot`). The page-rounding facts are lemmas on the operators.

**LegacySchedProofs** (`LegacyAssumption`: every thread has a process).
`MutexExcludes`: `LegacySpec => []MutexExclusive` for any processes, threads and
mutexes. The property is not inductive: that a woken waiter keeps others out
rests on the word it finds set (`WokenInv`), which rests on release_mutex
waking a thread that waits for that very mutex (`QueueInv`); that the thread which
runs is RUNNABLE (`RunInv`) is what makes both apply to it. Nothing about the order
in which the scheduler picks is used.

**Only model-checked.** Liveness (`SpinEnds`, `RunnableRuns`, `BootCompletes`,
`CallsReturn`, `KeysAreRead`, `TimerKeepsTicking`) and everything about `RunQueue`,
`Context`, `List`, `LinkedList`, the search of `LegacySched`, `ApStartup`, `Paging`,
`Acpi`, `Interrupts`, `Format` and `Console`. What the digit loops of `Format`
compute for every input is an induction over data and stays with TLC; so does
liveness under fairness, and that `LinkedList` is a sequence, whose mapping walks
the chain of nodes.

## 6. Not modelled

* **Register contents** outside the context switch: the interrupt stubs, the mode
  switches of the boot code and the trampoline. An interrupt entry is one step.
* **Bit layouts** of descriptors, page entries and ACPI tables: written once, read
  only by the hardware. Which GDT and TSS a CPU loads, with which stacks, is
  modelled. A checksum is good or bad.
* **PIC and PIT** (replaced by the APICs, called by nothing), **shutdown** (two port
  writes of test builds), **vm** (a stub), the built-in tests, generate_pid,
  lapic_timer_stop and lapic_send_ipi. sched_tick has no effect and is a stutter.
* **The local APIC's error interrupt** (vector 51): the model's controller raises
  none. **Exceptions** other than the boot CPU's page fault.
* **UART line settings**, cursor hardware, colours beyond the attribute byte.
* **TLBs of several CPUs**: no caller changes a mapping once the APs run.

## 7. Plan

Order of work: locks, scheduler, allocator (with proofs), then the ring,
AP start-up, paging, interrupts, console, then the lists, the first scheduler with
its mutex and the context switch. Left, in order:

1. `RunQueue`: prove `CircularList` and `CountIsLength` of `QueueSerialSpec` for any
   number of threads, and state formally that the ring refines the sequences of
   `SmpSched`.
2. `ApStartup`: prove `OwnPercpu`, `ReportIsTrue` and `ThreadsKept` of `OwnStackSpec`
   for any MADT.
3. `Paging`: prove `TablesFormTree`. `Context`: prove `ContextKept` for any number of
   threads and any stack size.
4. A composition of `Kalloc` with `Paging` and `ApStartup`, in place of their own
   pools of pages.
