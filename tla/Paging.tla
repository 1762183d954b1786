------------------------------- MODULE Paging -------------------------------
(***************************************************************************)
(* The kernel's page tables (paging/paging.c) on the boot processor: the   *)
(* table walk with its allocation on demand, the boot-time mappings        *)
(* (kvminit, map_apic_region, map_low_memory), map_page, map_pages with    *)
(* its rollback, map_mmio, unmap_pages and va_to_pa.  Every store into a   *)
(* table is a step, because the processor reads the tables on its own: it  *)
(* may load any translation it finds into its TLB between two steps.       *)
(*                                                                         *)
(* Page numbers stand for page-aligned addresses.  The tables the boot     *)
(* code built have numbers below zero, the pages kalloc hands out the      *)
(* numbers of Pool; the code reaches both through the identity mapping.    *)
(***************************************************************************)
EXTENDS Integers, FiniteSets

CONSTANTS
    LEVELS,     \* levels of tables, 4 in the code
    ENTRIES,    \* entries per table, 512 in the code
    PGSIZE,     \* bytes per page
    Pool,       \* the pages kalloc can hand out
    KvmEnd,     \* the bytes kvminit is given, from the end of the first leaf table
    Requests,   \* the calls considered
    MaxCalls    \* how many of them in a row

ASSUME PagingAssumption ==
    /\ LEVELS \in Nat /\ LEVELS > 1 /\ ENTRIES \in Nat \ {0} /\ PGSIZE \in Nat \ {0}
    /\ Pool \subseteq Nat /\ MaxCalls \in Nat

VARIABLES
    mem,        \* mem[t][i]: entry i of the table in page t
    free,       \* the pages of Pool kalloc has left
    tlb,        \* the entry the processor has cached for page tlb.page, any one
                \* page: the cached entries of two pages do not affect each other
    k,          \* the call in progress: its locals and where it is
    req,        \* its arguments, op "none" between calls
    res,        \* what the last call returned
    old,        \* the translations when the call began (history)
    calls       \* calls made (bounds the model only)

vars == <<mem, free, tlb, k, req, res, old, calls>>

VPages == 0 .. ENTRIES ^ LEVELS - 1
Slots == 0 .. ENTRIES - 1
BootTable(level) == -1 - level
Root == BootTable(LEVELS - 1)
Tables == Pool \cup {BootTable(l) : l \in 0 .. LEVELS - 1}

(* Flags of a leaf entry: writable, and writable but not cached. *)
PTE_W == 1
PTE_W_PCD == 2

Entry(addr, fl) == [p |-> 1, addr |-> addr, fl |-> fl]
None == [p |-> 0, addr |-> 0, fl |-> 0]
(* kalloc fills a page with 0x05, whose lowest bit reads as "present". *)
JunkAddr == 5
Junk == [i \in Slots |-> Entry(JunkAddr, 5)]

PGROUNDDOWN(a) == a \div PGSIZE
PGROUNDUP(a) == (a + PGSIZE - 1) \div PGSIZE
level_index(v, level) == (v \div ENTRIES ^ level) % ENTRIES

(* What the processor finds when it walks the tables for page v. *)
Translate(v) ==
    LET tbl[l \in 0 .. LEVELS - 1] ==
            IF l = LEVELS - 1 THEN Entry(Root, PTE_W)
            ELSE LET up == tbl[l + 1] IN
                 IF up.p = 0 THEN None
                 ELSE IF up.addr \in Tables THEN mem[up.addr][level_index(v, l + 1)]
                 ELSE Junk[0]
    IN  IF tbl[0].p = 0 THEN None
        ELSE IF tbl[0].addr \in Tables THEN mem[tbl[0].addr][level_index(v, 0)]
        ELSE Junk[0]
Translation == [v \in VPages |-> Translate(v)]

NoReq == [op |-> "none", va |-> 0, size |-> 0, pa |-> 0, fl |-> 0]

(* The page range [lo, hi) each call loops over, from its byte arguments.  *)
(* map_mmio adds the offset in the page to the size it passes on.          *)
Range(r) ==
    CASE r.op = "kvminit" -> [lo |-> PGROUNDUP(r.va), hi |-> PGROUNDUP(r.va + r.size)]
      [] r.op = "region"  -> [lo |-> PGROUNDDOWN(r.va),
                              hi |-> PGROUNDDOWN(r.va) + PGROUNDUP(r.size)]
      [] r.op = "mmio"    -> LET aligned == PGROUNDDOWN(r.va) * PGSIZE
                                 map_size == r.size + (r.va - aligned)
                             IN [lo |-> PGROUNDDOWN(aligned), hi |-> PGROUNDUP(aligned + map_size)]
      [] r.op = "query"   -> [lo |-> PGROUNDDOWN(r.va), hi |-> PGROUNDDOWN(r.va) + 1]
      [] OTHER            -> [lo |-> PGROUNDDOWN(r.va), hi |-> PGROUNDUP(r.va + r.size)]

(* The locals of a call that is about to start its loop. *)
Locals(r) ==
    [pc |-> "page", cur |-> Range(r).lo, lo |-> Range(r).lo, hi |-> Range(r).hi,
     undo |-> 0, tbl |-> Root, level |-> 0, new |-> Root]
Idle == [pc |-> "idle", cur |-> 0, lo |-> 0, hi |-> 0,
         undo |-> 0, tbl |-> Root, level |-> 0, new |-> Root]

(* kvminit(INIT_PHYSTOP, PHYSTOP): the loop stops a page early, as kinit's *)
(* does, so the request is for one page less than the bytes it was given.  *)
kvminitRequest ==
    [op |-> "kvminit", va |-> ENTRIES * PGSIZE, size |-> KvmEnd - ENTRIES * PGSIZE - PGSIZE,
     pa |-> ENTRIES * PGSIZE, fl |-> PTE_W]

(* The boot code maps the pages of one leaf table one to one; kernel_main  *)
(* then calls kvminit before anything else touches the tables.             *)
Init ==
    /\ mem = [t \in Tables |-> [i \in Slots |->
                IF t \in Pool THEN Junk[i]
                ELSE IF t = BootTable(0) THEN Entry(i, PTE_W)
                ELSE IF i = 0 THEN Entry(t + 1, PTE_W) ELSE None]]
    /\ \E n \in 0 .. Cardinality(Pool) :        \* whatever kinit has found
          free = CHOOSE S \in SUBSET Pool : Cardinality(S) = n
    /\ tlb \in [page : VPages, e : {None}]
    /\ req = kvminitRequest /\ k = Locals(kvminitRequest)
    /\ res = 0 /\ calls = 0
    /\ old = [v \in VPages |-> IF v < ENTRIES THEN Entry(v, PTE_W) ELSE None]

-----------------------------------------------------------------------------
Allocates == req.op \in {"kvminit", "region", "map", "mmio"} /\ k.undo = 0
Slot == level_index(k.cur, k.level)
Found == mem[k.tbl][Slot]
Target == req.pa \div PGSIZE + k.cur - k.lo

Return(result) ==
    /\ k' = Idle /\ req' = NoReq /\ res' = result
NextPage == k' = [k EXCEPT !.pc = "page", !.cur = @ + 1] /\ UNCHANGED <<req, res>>

Call(r) ==
    /\ k.pc = "idle" /\ calls < MaxCalls
    /\ req' = r /\ k' = Locals(r) /\ old' = Translation
    /\ calls' = calls + 1
    /\ UNCHANGED <<mem, free, tlb, res>>

(* The head of every loop over pages: enter walk for the next page; when   *)
(* the range is done, map_apic_region and map_low_memory start their       *)
(* second loop, and the others return.                                     *)
StartWalk ==
    /\ k.pc = "page" /\ k.cur < k.hi
    /\ k' = [k EXCEPT !.pc = "walk", !.tbl = Root, !.level = LEVELS - 1]
    /\ UNCHANGED <<mem, free, tlb, req, res, old, calls>>

EndLoop ==
    /\ k.pc = "page" /\ k.cur = k.hi
    /\ IF req.op = "region"
       THEN k' = [k EXCEPT !.pc = "flush", !.cur = k.lo] /\ UNCHANGED <<req, res>>
       ELSE Return(CASE req.op = "map"  -> (IF k.undo = 1 THEN -1 ELSE 0)
                     [] req.op = "mmio" -> (IF k.undo = 1 THEN 0 ELSE req.va)
                     [] OTHER           -> res)
    /\ UNCHANGED <<mem, free, tlb, old, calls>>

(* map_pages has met a page it cannot map and unmaps the ones before it. *)
Undo == k' = [k EXCEPT !.pc = "page", !.cur = k.lo, !.hi = k.cur, !.undo = 1]
        /\ UNCHANGED <<req, res>>

(* Variants with a plausible mistake each; no action uses them. *)
FailedRetries == k' = [k EXCEPT !.pc = "page"] /\ UNCHANGED <<req, res>>
kallocNotCleared ==
    /\ k.pc = "walk" /\ k.level > 0 /\ Found.p = 0 /\ Allocates /\ free # {}
    /\ LET f == CHOOSE f \in free : TRUE IN
       /\ free' = free \ {f}
       /\ mem' = [mem EXCEPT ![f] = Junk]
       /\ k' = [k EXCEPT !.pc = "link", !.new = f]
    /\ UNCHANGED <<tlb, req, res, old, calls>>

(* What each caller does when walk returns no entry: map_pages undoes its  *)
(* work, the boot-time loops skip the page, kvminit spins for ever.        *)
Failed ==
    CASE req.op \in {"map", "mmio"} /\ k.undo = 0 -> Undo
      [] req.op = "kvminit" -> k' = [k EXCEPT !.pc = "hang"] /\ UNCHANGED <<req, res>>
      [] req.op = "query"   -> Return(0)
      [] OTHER              -> NextPage

(* walk, one level: follow a present entry. *)
Descend ==
    /\ k.pc = "walk" /\ k.level > 0 /\ Found.p = 1
    /\ k' = [k EXCEPT !.tbl = Found.addr, !.level = @ - 1]
    /\ UNCHANGED <<mem, free, tlb, req, res, old, calls>>

(* walk, one level: nothing there.  With alloc a new table is made, zeroed *)
(* and only then linked; without it, or without memory, walk returns 0.    *)
kalloc ==
    /\ k.pc = "walk" /\ k.level > 0 /\ Found.p = 0 /\ Allocates /\ free # {}
    /\ LET f == CHOOSE f \in free : TRUE IN     \* whichever heads the free list
       /\ free' = free \ {f}
       /\ mem' = [mem EXCEPT ![f] = Junk]
       /\ k' = [k EXCEPT !.pc = "memset", !.new = f]
    /\ UNCHANGED <<tlb, req, res, old, calls>>

WalkFails ==
    /\ k.pc = "walk" /\ k.level > 0 /\ Found.p = 0
    /\ Allocates => free = {}
    /\ Failed
    /\ UNCHANGED <<mem, free, tlb, old, calls>>

ClearTable ==
    /\ k.pc = "memset"
    /\ mem' = [mem EXCEPT ![k.new] = [i \in Slots |-> None]]
    /\ k' = [k EXCEPT !.pc = "link"]
    /\ UNCHANGED <<free, tlb, req, res, old, calls>>

init_entry ==
    /\ k.pc = "link"
    /\ mem' = [mem EXCEPT ![k.tbl][Slot] = Entry(k.new, PTE_W)]
    /\ k' = [k EXCEPT !.pc = "walk", !.tbl = k.new, !.level = @ - 1]
    /\ UNCHANGED <<free, tlb, req, res, old, calls>>

(* walk has found the leaf entry of the page; each caller's use of it. *)
AtLeaf == k.pc = "walk" /\ k.level = 0
SetLeaf(e) == mem' = [mem EXCEPT ![k.tbl][Slot] = e]

boot_map ==
    /\ AtLeaf /\ req.op \in {"kvminit", "region"}
    /\ SetLeaf(Entry(Target, req.fl))
    /\ NextPage
    /\ UNCHANGED <<free, tlb, old, calls>>

map_pageRedirects ==
    /\ AtLeaf /\ req.op \in {"map", "mmio"} /\ k.undo = 0
    /\ SetLeaf(Entry(Target, req.fl))
    /\ k' = [k EXCEPT !.pc = "invlpg"]
    /\ UNCHANGED <<req, res, free, tlb, old, calls>>
unmap_pageNoFlush ==
    /\ AtLeaf /\ (req.op = "unmap" \/ k.undo = 1)
    /\ SetLeaf(None)
    /\ NextPage
    /\ UNCHANGED <<free, tlb, old, calls>>

map_page ==
    /\ AtLeaf /\ req.op \in {"map", "mmio"} /\ k.undo = 0
    /\ IF Found.p = 1 /\ Found.addr # Target
       THEN Undo /\ UNCHANGED mem
       ELSE /\ SetLeaf(Entry(Target, req.fl))
            /\ k' = [k EXCEPT !.pc = "invlpg"]
            /\ UNCHANGED <<req, res>>
    /\ UNCHANGED <<free, tlb, old, calls>>

unmap_page ==
    /\ AtLeaf /\ (req.op = "unmap" \/ k.undo = 1)
    /\ IF Found.p = 0
       THEN NextPage /\ UNCHANGED mem
       ELSE SetLeaf(None) /\ k' = [k EXCEPT !.pc = "invlpg"] /\ UNCHANGED <<req, res>>
    /\ UNCHANGED <<free, tlb, old, calls>>

va_to_pa ==
    /\ AtLeaf /\ req.op = "query"
    /\ Return(IF Found.p = 0 THEN 0 ELSE Found.addr * PGSIZE + (req.va % PGSIZE))
    /\ UNCHANGED <<mem, free, tlb, old, calls>>

(* The invlpg that ends map_page and unmap_page, and the flush loop of     *)
(* map_apic_region and map_low_memory.                                     *)
Invalidate(v) == tlb' = IF v = tlb.page THEN [tlb EXCEPT !.e = None] ELSE tlb

invlpg ==
    /\ k.pc = "invlpg"
    /\ Invalidate(k.cur)
    /\ NextPage
    /\ UNCHANGED <<mem, free, old, calls>>

flush ==
    /\ k.pc = "flush"
    /\ IF k.cur < k.hi
       THEN /\ Invalidate(k.cur)
            /\ k' = [k EXCEPT !.cur = @ + 1] /\ UNCHANGED <<req, res>>
       ELSE Return(res) /\ UNCHANGED tlb
    /\ UNCHANGED <<mem, free, old, calls>>

(* The processor loads a translation, possibly by speculation; it never    *)
(* caches an entry that is not present.                                    *)
TlbFill ==
    /\ Translate(tlb.page).p = 1
    /\ tlb' = [tlb EXCEPT !.e = Translate(tlb.page)]
    /\ UNCHANGED <<mem, free, k, req, res, old, calls>>

Step ==
    \/ StartWalk \/ EndLoop \/ Descend \/ kalloc \/ WalkFails \/ ClearTable
    \/ init_entry \/ boot_map \/ map_page \/ unmap_page \/ va_to_pa \/ invlpg \/ flush

(* kvminit's loop on a failed walk. *)
Hang == k.pc = "hang" /\ UNCHANGED vars

Next ==
    \/ \E r \in Requests : Call(r)
    \/ Step
    \/ Hang
    \/ TlbFill

Spec == Init /\ [][Next]_vars

(* The processor executes the kernel's instructions, whatever its TLB does. *)
FairSpec == Spec /\ WF_vars(Step)

-----------------------------------------------------------------------------
IsEntry(e) ==
    e \in {None, Junk[0]} \/ (e.p = 1 /\ e.addr \in Int /\ e.fl \in {PTE_W, PTE_W_PCD})

(* The types of the tables, the pool, the TLB and the call in progress. *)
TypeOK ==
    /\ DOMAIN mem = Tables /\ \A t \in Tables : \A i \in Slots : IsEntry(mem[t][i])
    /\ free \subseteq Pool
    /\ tlb.page \in VPages /\ IsEntry(tlb.e)
    /\ k.pc \in {"idle", "page", "walk", "memset", "link", "invlpg", "flush", "hang"}
    /\ k.cur \in Nat /\ k.hi \in Nat /\ k.tbl \in Tables /\ k.new \in Tables
    /\ k.level \in 0 .. LEVELS - 1
    /\ calls \in 0 .. MaxCalls

(* The present entries of a set of tables, and the tables of each level. *)
Links(S) == {x \in S \X Slots : mem[x[1]][x[2]].p = 1}
LinkedTo(x) == mem[x[1]][x[2]].addr
TablesAt ==
    LET T[l \in 0 .. LEVELS - 1] ==
            IF l = LEVELS - 1 THEN {Root}
            ELSE {LinkedTo(x) : x \in Links(T[l + 1] \cap Tables)}
    IN  T

(* The tables form a tree: every one hangs from a single entry, so no two  *)
(* pages share a leaf entry by accident; and none is a page kalloc could   *)
(* hand out again, or has handed out and walk has not zeroed yet, so the   *)
(* processor never reads 0x05 junk as an entry.  All entries have their    *)
(* types.                                                                  *)
TablesFormTree ==
    TypeOK /\ \A l \in 0 .. LEVELS - 2 :
        /\ TablesAt[l] \subseteq Tables \ free
        /\ \A m \in l + 1 .. LEVELS - 1 : TablesAt[l] \cap TablesAt[m] = {}
        /\ \A x, y \in Links(TablesAt[l + 1]) : LinkedTo(x) = LinkedTo(y) => x = y
        /\ \A t \in TablesAt[l], i \in Slots : mem[t][i] # Junk[i]

(* The TLB may lag behind the tables only for pages of the call that is    *)
(* changing them: whatever it had cached, and whatever it loads while the  *)
(* call runs, no stale entry is left when the call returns.                *)
TlbCoherent ==
    LET v == tlb.page IN
        tlb.e.p = 1 /\ tlb.e # Translate(v) =>
            /\ req.op # "none" /\ k.lo <= v
            /\ v < k.hi
            /\ k.pc = "flush" => k.cur <= v
            /\ req.op \in {"map", "mmio", "unmap"} => v = k.cur /\ k.pc = "invlpg"

(* The calls implement an address space: each changes only the pages it    *)
(* was asked about, one store at a time, never redirects a page in use,    *)
(* and returns with its range mapped or, on failure, rolled back.          *)
AS == INSTANCE AddrSpace WITH
        map <- Translation, PteFlags <- {PTE_W, PTE_W_PCD}
ImplementsAddrSpace == AS!Spec

(* Every call returns; kvminit alone spins for ever, and only when kalloc  *)
(* has no page left for a table.                                           *)
CallsReturn == [](req.op # "none" => <>(req.op = "none" \/ (k.pc = "hang" /\ free = {})))
=============================================================================
