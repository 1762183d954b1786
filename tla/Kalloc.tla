------------------------------- MODULE Kalloc -------------------------------
(***************************************************************************)
(* The physical page allocator (kalloc/kalloc.c): a free list threaded     *)
(* through the first word of the free pages, with no lock (the calls of    *)
(* acquire_spinlock are commented out), so every load and store of the     *)
(* list is a step of its own.  kernel_main fills the list with two calls   *)
(* of kinit on the boot CPU; the other CPUs allocate only after that.      *)
(*                                                                         *)
(* Addresses are scaled down; 0 is the null pointer and Junk what kalloc's *)
(* fill pattern reads as when it is taken for a pointer.                   *)
(***************************************************************************)
EXTENDS Integers, Sequences

CONSTANTS
    PGSIZE,         \* bytes in a page
    KEND,           \* first address behind the kernel image
    INIT_PHYSTOP,   \* end of the memory the first kinit frees
    PHYSTOP,        \* end of the memory the second one frees
    Cpus,           \* the processors; CPU 0 boots
    Junk

PGROUNDUP(a) == PGSIZE * ((a + PGSIZE - 1) \div PGSIZE)

(* Mistake: the start is rounded down. *)
KinitRangeDown(start, stop) ==
    {p \in PGSIZE * (start \div PGSIZE)..stop : p % PGSIZE = 0 /\ p + PGSIZE < stop}

(* The pages kinit(start, stop) frees: p + PGSIZE < stop. *)
KinitRange(start, stop) ==
    {p \in PGROUNDUP(start)..stop : p % PGSIZE = 0 /\ p + PGSIZE < stop}

Pages == KinitRange(KEND, INIT_PHYSTOP) \cup KinitRange(INIT_PHYSTOP, PHYSTOP)

ASSUME KallocAssumption ==
    /\ PGSIZE \in Nat \ {0} /\ KEND \in Nat \ {0}
    /\ INIT_PHYSTOP \in Nat /\ PHYSTOP \in Nat
    /\ KEND <= INIT_PHYSTOP /\ INIT_PHYSTOP <= PHYSTOP
    /\ INIT_PHYSTOP % PGSIZE = 0
    /\ Junk \notin Int
    /\ 0 \in Cpus

VARIABLES
    freelist,   \* kmem.freelist
    next,       \* next[p]: the word at address p, read as struct run's next
    pc,         \* pc[c]: where CPU c is in kalloc or kfree
    r,          \* r[c]: the local r of the call
    reg,        \* reg[c]: the pointer loaded and not yet stored
    owned,      \* owned[c]: the pages kalloc gave CPU c and that it may free
    kinit,      \* the pages the kinit call in progress has still to free
    calls,      \* calls of kinit that kernel_main has still to make
    stack       \* the free pages, last freed first (history)

vars == <<freelist, next, pc, r, reg, owned, kinit, calls, stack>>

Init ==
    /\ freelist = 0
    /\ next = [p \in Pages |-> 0]
    /\ pc = [c \in Cpus |-> "run"]
    /\ r = [c \in Cpus |-> 0]
    /\ reg = [c \in Cpus |-> 0]
    /\ owned = [c \in Cpus |-> {}]
    /\ kinit = {}
    /\ calls = 2
    /\ stack = <<>>

Goto(c, label) == pc' = [pc EXCEPT ![c] = label]

(* CPU c runs kernel code that may call the allocator: the boot CPU        *)
(* between its kinit calls, every CPU once the system is up.               *)
Running(c) == pc[c] = "run" /\ kinit = {} /\ (calls = 0 \/ (c = 0 /\ calls = 1))

-----------------------------------------------------------------------------
(* kinit(KEND, INIT_PHYSTOP), then kinit(INIT_PHYSTOP, PHYSTOP). *)
Kinit ==
    /\ pc[0] = "run" /\ kinit = {} /\ calls > 0
    /\ calls' = calls - 1
    /\ kinit' = IF calls = 2 THEN KinitRange(KEND, INIT_PHYSTOP)
                             ELSE KinitRange(INIT_PHYSTOP, PHYSTOP)
    /\ UNCHANGED <<freelist, next, pc, r, reg, owned, stack>>

(* kalloc *)

(* r = kmem.freelist; a null list returns null.                            *)
AllocLoad(c) ==
    /\ Running(c)
    /\ r' = [r EXCEPT ![c] = freelist]
    /\ Goto(c, IF freelist = 0 THEN "run" ELSE "next")
    /\ UNCHANGED <<freelist, next, reg, owned, kinit, calls, stack>>

(* The load of r->next.  An r that is no page (the fill pattern) faults,   *)
(* and the fault handler never returns.                                    *)
AllocNext(c) ==
    /\ pc[c] = "next"
    /\ IF r[c] \in Pages
       THEN reg' = [reg EXCEPT ![c] = next[r[c]]] /\ Goto(c, "take")
       ELSE Goto(c, "fault") /\ UNCHANGED reg
    /\ UNCHANGED <<freelist, next, r, owned, kinit, calls, stack>>

(* Mistake: the list keeps the page. *)
AllocTakeKeeps(c) ==
    /\ pc[c] = "take"
    /\ Goto(c, "fill")
    /\ UNCHANGED <<freelist, next, r, reg, owned, kinit, calls, stack>>

(* The store of kmem.freelist. *)
AllocTake(c) ==
    /\ pc[c] = "take"
    /\ freelist' = reg[c]
    /\ stack' = IF stack = <<>> THEN stack ELSE SubSeq(stack, 1, Len(stack) - 1)
    /\ Goto(c, "fill")
    /\ UNCHANGED <<next, r, reg, owned, kinit, calls>>

(* memset(r, 5, PGSIZE) and the return. *)
AllocFill(c) ==
    /\ pc[c] = "fill"
    /\ next' = [next EXCEPT ![r[c]] = Junk]
    /\ owned' = [owned EXCEPT ![c] = @ \cup {r[c]}]
    /\ Goto(c, "run")
    /\ UNCHANGED <<freelist, r, reg, kinit, calls, stack>>

-----------------------------------------------------------------------------
(* kfree *)

(* kinit frees its pages in ascending order, other code what it was given. *)
MayFree(c, p) ==
    \/ c = 0 /\ p \in kinit /\ \A k \in kinit : p <= k
    \/ Running(c) /\ p \in owned[c]

(* The address checks of kfree. *)
kfreePanics(p) == p % PGSIZE # 0 \/ p < KEND \/ p >= PHYSTOP

(* memset(pa, 0, PGSIZE). *)
FreeClear(c, p) ==
    /\ pc[c] = "run" /\ MayFree(c, p)
    /\ IF kfreePanics(p)
       THEN Goto(c, "fault") /\ UNCHANGED <<next, r>>
       ELSE /\ next' = [next EXCEPT ![p] = 0]
            /\ r' = [r EXCEPT ![c] = p]
            /\ Goto(c, "link")
    /\ UNCHANGED <<freelist, reg, owned, kinit, calls, stack>>

(* r->next = kmem.freelist: the load and the store. *)
FreeLoad(c) ==
    /\ pc[c] = "link"
    /\ reg' = [reg EXCEPT ![c] = freelist]
    /\ Goto(c, "store")
    /\ UNCHANGED <<freelist, next, r, owned, kinit, calls, stack>>

(* Mistake: the page is not linked to the list behind it. *)
FreeStoreSkipped(c) ==
    /\ pc[c] = "store"
    /\ Goto(c, "put")
    /\ UNCHANGED <<freelist, next, r, reg, owned, kinit, calls, stack>>

FreeStore(c) ==
    /\ pc[c] = "store"
    /\ next' = [next EXCEPT ![r[c]] = reg[c]]
    /\ Goto(c, "put")
    /\ UNCHANGED <<freelist, r, reg, owned, kinit, calls, stack>>

(* kmem.freelist = r; in kinit the loop goes on with the next page. *)
FreePut(c) ==
    /\ pc[c] = "put"
    /\ freelist' = r[c]
    /\ stack' = Append(stack, r[c])
    /\ owned' = [owned EXCEPT ![c] = @ \ {r[c]}]
    /\ kinit' = kinit \ {r[c]}
    /\ Goto(c, "run")
    /\ UNCHANGED <<next, r, reg, calls>>

-----------------------------------------------------------------------------
Step(c) ==
    \/ AllocLoad(c) \/ AllocNext(c) \/ AllocTake(c) \/ AllocFill(c)
    \/ \E p \in Pages : FreeClear(c, p)
    \/ FreeLoad(c) \/ FreeStore(c) \/ FreePut(c)

Next == Kinit \/ \E c \in Cpus : Step(c)

Spec == Init /\ [][Next]_vars

(* The same calls when none begins before the others have returned: one    *)
(* CPU alone, or callers that happen not to meet.                          *)
SerialNext ==
    Kinit \/ \E c \in Cpus : Step(c) /\ \A d \in Cpus \ {c} : pc[d] = "run"

SerialSpec == Init /\ [][SerialNext]_vars

-----------------------------------------------------------------------------
(* The pages kinit has not freed yet. *)
Fresh ==
    kinit \cup (IF calls = 2 THEN Pages
               ELSE IF calls = 1 THEN KinitRange(INIT_PHYSTOP, PHYSTOP) ELSE {})

(* What CPU c owns, with the page a kalloc has taken and not returned yet; *)
(* the boot CPU also holds the fresh pages.                                *)
Held(c) ==
    owned[c] \cup (IF pc[c] = "fill" THEN {r[c]} ELSE {})
             \cup (IF c = 0 THEN Fresh ELSE {})

Linked == {stack[i] : i \in 1..Len(stack)}

Labels == {"run", "next", "take", "fill", "link", "store", "put", "fault"}

(* The types of the allocator's variables. *)
TypeOK ==
    /\ freelist \in Pages \cup {0, Junk}
    /\ next \in [Pages -> Pages \cup {0, Junk}]
    /\ pc \in [Cpus -> Labels]
    /\ r \in [Cpus -> Pages \cup {0, Junk}]
    /\ reg \in [Cpus -> Pages \cup {0, Junk}]
    /\ owned \in [Cpus -> SUBSET Pages]
    /\ kinit \subseteq Pages
    /\ calls \in 0..2
    /\ stack \in Seq(Pages)

(* "consecutive kalloc calls return distinct addresses": a page that was   *)
(* handed out and not freed is handed out to nobody else.                  *)
DistinctPages ==
    \A c, d \in Cpus : c # d => Held(c) \cap Held(d) = {}

(* The words in memory are the list: following next from freelist visits   *)
(* the free pages, last freed first, and ends in null; no page is on the   *)
(* list twice, none is both free and owned, and none is lost.              *)
ListIsSound ==
    /\ freelist = IF stack = <<>> THEN 0 ELSE stack[Len(stack)]
    /\ \A i \in 1..Len(stack) : next[stack[i]] = IF i = 1 THEN 0 ELSE stack[i - 1]
    /\ \A i, j \in 1..Len(stack) : stack[i] = stack[j] => i = j
    /\ \A c \in Cpus : Held(c) \cap Linked = {}
    /\ Pages = Linked \cup UNION {Held(c) : c \in Cpus}

(* Neither kfree's panic nor a fault on a wild list pointer is reached. *)
NoFault == \A c \in Cpus : pc[c] # "fault"

Abstract == INSTANCE PageAlloc WITH free <- Linked, owned <- [c \in Cpus |-> Held(c)]

(* The list implements an allocator: each call takes one free page or      *)
(* gives back one of the caller's, at one moment.                          *)
ImplementsPageAlloc == Abstract!Spec
=============================================================================
