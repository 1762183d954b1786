---------------------------- MODULE KallocProofs ----------------------------
(***************************************************************************)
(* The free list is sound, and implements an atomic page allocator, for    *)
(* every memory layout and every set of CPUs, as long as no two calls of   *)
(* the allocator overlap.                                                  *)
(***************************************************************************)
EXTENDS Kalloc, SequenceTheorems, TLAPS

Range1 == KinitRange(KEND, INIT_PHYSTOP)
Range2 == KinitRange(INIT_PHYSTOP, PHYSTOP)

(* Dividing and multiplying again loses less than the divisor. *)
LEMMA Division ==
    ASSUME NEW b \in Nat, NEW n \in Nat, n > 0
    PROVE  n * (b \div n) \in Int /\ n * (b \div n) > b - n
  BY Z3

(* Rounding up does not go below the address. *)
LEMMA RoundUp == ASSUME NEW a \in Nat PROVE PGROUNDUP(a) \in Int /\ PGROUNDUP(a) >= a
<1> DEFINE b == a + PGSIZE - 1
<1> DEFINE m == PGSIZE * (b \div PGSIZE)
<1>1. b \in Nat /\ PGSIZE \in Nat /\ PGSIZE > 0
  BY KallocAssumption
<1>2. m \in Int /\ m > b - PGSIZE
  <2> HIDE DEF b
  <2> QED
    BY <1>1, Division
<1> HIDE DEF m
<1>3. m >= a
  BY <1>1, <1>2
<1> QED
  BY <1>2, <1>3 DEF PGROUNDUP, m

(* kinit frees pages behind the kernel and below PHYSTOP, all aligned, and *)
(* its two calls free different pages.                                     *)
LEMMA Layout ==
    /\ Pages = Range1 \cup Range2
    /\ Range1 \cap Range2 = {}
    /\ Pages \subseteq Int
    /\ \A p \in Pages : ~kfreePanics(p) /\ p # 0
<1>1. \A p \in Range1 : /\ p \in Int /\ p >= KEND /\ p + PGSIZE < INIT_PHYSTOP
                        /\ p % PGSIZE = 0
  BY RoundUp, KallocAssumption DEF Range1, KinitRange
<1>2. \A p \in Range2 : /\ p \in Int /\ p >= INIT_PHYSTOP /\ p + PGSIZE < PHYSTOP
                        /\ p % PGSIZE = 0
  BY RoundUp, KallocAssumption DEF Range2, KinitRange
<1>3. Pages = Range1 \cup Range2
  BY DEF Pages, Range1, Range2
<1> QED
  BY <1>1, <1>2, <1>3, KallocAssumption DEF kfreePanics

-----------------------------------------------------------------------------
(* Where the calls are in the list. *)
Top == stack[Len(stack)]

Locals(c) ==
    /\ pc[c] \in {"next", "take"} => stack # <<>> /\ r[c] = Top
    /\ pc[c] = "take" => reg[c] = next[r[c]]
    /\ pc[c] = "fill" => r[c] \in Pages /\ r[c] \notin owned[c]
    /\ pc[c] \in {"link", "store", "put"} =>
          r[c] \in Pages /\ (r[c] \in owned[c] \/ (c = 0 /\ r[c] \in kinit))
    /\ pc[c] = "store" => reg[c] = freelist
    /\ pc[c] = "put" => next[r[c]] = freelist

Serial == \A c, d \in Cpus : c # d => pc[c] = "run" \/ pc[d] = "run"

(* The pages that kinit has not freed belong to no caller. *)
Boot ==
    /\ calls = 2 => kinit = {}
    /\ calls = 1 => kinit \subseteq Range1
    /\ calls = 0 => kinit \subseteq Range2
    /\ Fresh \subseteq Pages
    /\ owned[0] \cap Fresh = {}
    /\ pc[0] = "fill" => r[0] \notin Fresh

IInv ==
    /\ TypeOK /\ ListIsSound /\ DistinctPages /\ NoFault
    /\ Serial /\ Boot /\ \A c \in Cpus : Locals(c)

-----------------------------------------------------------------------------
(* Kinit starts a call on pages that were fresh already. *)
LEMMA KinitKeepsHeld ==
    ASSUME TypeOK, Boot, Kinit PROVE Fresh' = Fresh /\ \A c \in Cpus : Held(c)' = Held(c)
<1>1. Fresh' = Fresh
  <2>1. CASE calls = 2
    BY <2>1, Layout DEF Kinit, Fresh, Boot, Range1, Range2
  <2>2. CASE calls = 1
    BY <2>2, Layout DEF Kinit, Fresh, Boot, Range1, Range2
  <2> QED
    BY <2>1, <2>2 DEF Kinit, TypeOK
<1> QED
  BY <1>1 DEF Held, Kinit

(* A step that leaves the list, the owners and kinit alone, and does not   *)
(* enter or leave "fill", changes nothing of what is free or held.         *)
LEMMA SameHeld ==
    ASSUME TypeOK, NEW c \in Cpus, UNCHANGED <<owned, kinit, calls>>,
           pc' = [pc EXCEPT ![c] = pc'[c]], pc[c] # "fill", pc'[c] # "fill",
           \A d \in Cpus \ {c} : r'[d] = r[d]
    PROVE  Fresh' = Fresh /\ \A d \in Cpus : Held(d)' = Held(d)
<1>1. Fresh' = Fresh
  BY DEF Fresh
<1>2. ASSUME NEW d \in Cpus PROVE Held(d)' = Held(d)
  <2>1. pc'[d] = "fill" <=> pc[d] = "fill"
    BY DEF TypeOK
  <2>2. pc[d] = "fill" => r'[d] = r[d]
    OBVIOUS
  <2> QED
    BY <2>1, <2>2, <1>1 DEF Held
<1> QED
  BY <1>1, <1>2

(* What AllocTake does: the top page leaves the list and is held by c. *)
LEMMA TakeMoves ==
    ASSUME IInv, NEW c \in Cpus, AllocTake(c)
    PROVE  /\ Fresh' = Fresh
           /\ Held(c)' = Held(c) \cup {Top} /\ Top \in Linked
           /\ \A d \in Cpus \ {c} : Held(d)' = Held(d)
           /\ Linked' = Linked \ {Top}
           /\ stack' \in Seq(Pages) /\ Len(stack') = Len(stack) - 1
           /\ \A i \in 1..Len(stack') : stack'[i] = stack[i]
           /\ Len(stack) \in Nat \ {0}
<1>1. Fresh' = Fresh
  BY DEF AllocTake, Fresh
<1>2. stack \in Seq(Pages) /\ stack # <<>> /\ r[c] = Top /\ pc[c] = "take"
  BY DEF IInv, TypeOK, Locals, AllocTake
<1>3. /\ stack' \in Seq(Pages) /\ Len(stack') = Len(stack) - 1
      /\ \A i \in 1..Len(stack') : stack'[i] = stack[i]
      /\ Len(stack) \in Nat \ {0}
  <2>1. Len(stack) \in Nat \ {0}
    BY <1>2
  <2>2. stack' = SubSeq(stack, 1, Len(stack) - 1)
    BY <1>2 DEF AllocTake
  <2>3. PICK n \in Nat : n = Len(stack) - 1
    BY <2>1
  <2>4. \A i \in 1..n : stack[i] \in Pages
    BY <1>2, <2>1, <2>3
  <2>5. /\ SubSeq(stack, 1, n) \in Seq(Pages)
        /\ Len(SubSeq(stack, 1, n)) = IF 1 <= n THEN n - 1 + 1 ELSE 0
        /\ \A i \in 1 .. n - 1 + 1 : SubSeq(stack, 1, n)[i] = stack[1 + i - 1]
    BY <2>4, SubSeqProperties
  <2>6. stack' = SubSeq(stack, 1, n)
    BY <2>2, <2>3
  <2>7. Len(stack') = n
    BY <2>5, <2>6, <2>3
  <2>8. \A i \in 1..n : stack'[i] = stack[i]
    BY <2>5, <2>6
  <2> QED
    BY <2>1, <2>3, <2>5, <2>6, <2>7, <2>8
<1>4. pc' = [pc EXCEPT ![c] = "fill"] /\ pc \in [Cpus -> Labels]
  BY DEF AllocTake, Goto, IInv, TypeOK
<1>5. Held(c)' = Held(c) \cup {Top}
  BY <1>1, <1>2, <1>4 DEF Held, AllocTake
<1>6. ASSUME NEW d \in Cpus \ {c} PROVE Held(d)' = Held(d)
  BY <1>1, <1>4 DEF Held, AllocTake
<1>7. \A i, j \in 1..Len(stack) : stack[i] = stack[j] => i = j
  BY DEF IInv, ListIsSound
<1>8. Linked' = Linked \ {Top}
  BY <1>3, <1>7 DEF Linked, Top
<1>9. Top \in Linked
  BY <1>3 DEF Linked, Top
<1> QED
  BY <1>1, <1>3, <1>5, <1>6, <1>8, <1>9

(* What FreePut does: a page c held becomes the top of the list. *)
LEMMA PutMoves ==
    ASSUME IInv, NEW c \in Cpus, FreePut(c)
    PROVE  /\ Fresh' = Fresh \ {r[c]} /\ r[c] \in Held(c) /\ r[c] \in Pages
           /\ Held(c)' = Held(c) \ {r[c]}
           /\ \A d \in Cpus \ {c} : Held(d)' = Held(d)
           /\ Linked' = Linked \cup {r[c]}
           /\ stack' \in Seq(Pages) /\ Len(stack') = Len(stack) + 1
           /\ \A i \in 1..Len(stack) : stack'[i] = stack[i]
           /\ stack'[Len(stack) + 1] = r[c]
           /\ Len(stack) \in Nat
<1>1. /\ pc[c] = "put" /\ r[c] \in Pages
      /\ r[c] \in owned[c] \/ (c = 0 /\ r[c] \in kinit)
  BY DEF IInv, Locals, FreePut
<1>2. r[c] \in Held(c)
  BY <1>1 DEF Held, Fresh
<1>3. calls # 2
  <2>1. CASE r[c] \in owned[c]
    <3>1. CASE c = 0
      BY <2>1, <3>1, <1>1 DEF IInv, Boot, Fresh
    <3>2. CASE c # 0
      <4>1. Held(c) \cap Held(0) = {}
        BY <3>2, KallocAssumption DEF IInv, DistinctPages
      <4> QED
        BY <4>1, <2>1, <1>1 DEF Held, Fresh
    <3> QED
      BY <3>1, <3>2
  <2>2. CASE c = 0 /\ r[c] \in kinit
    BY <2>2 DEF IInv, Boot
  <2> QED
    BY <1>1, <2>1, <2>2
<1>4. r[c] \notin (IF calls = 1 THEN Range2 ELSE {})
  <2>1. CASE calls = 1
    <3>1. CASE c = 0 /\ r[c] \in kinit
      BY <3>1, <2>1, Layout DEF IInv, Boot
    <3>2. CASE r[c] \in owned[c] /\ c = 0
      BY <3>2, <2>1 DEF IInv, Boot, Fresh, Range2
    <3>3. CASE r[c] \in owned[c] /\ c # 0
      <4>1. Held(c) \cap Held(0) = {}
        BY <3>3, KallocAssumption DEF IInv, DistinctPages
      <4> QED
        BY <4>1, <3>3, <2>1 DEF Held, Fresh, Range2
    <3> QED
      BY <1>1, <3>1, <3>2, <3>3
  <2> QED
    BY <2>1
<1>5. Fresh' = Fresh \ {r[c]}
  BY <1>3, <1>4 DEF Fresh, FreePut, Range2
<1>6. pc' = [pc EXCEPT ![c] = "run"] /\ pc \in [Cpus -> Labels] /\ owned \in [Cpus -> SUBSET Pages]
  BY DEF FreePut, Goto, IInv, TypeOK
<1>7. Held(c)' = Held(c) \ {r[c]}
  BY <1>1, <1>5, <1>6 DEF Held, FreePut
<1>8. ASSUME NEW d \in Cpus \ {c} PROVE Held(d)' = Held(d)
  <2>1. r[c] \notin Held(d)
    BY <1>2 DEF IInv, DistinctPages
  <2>2. owned'[d] = owned[d] /\ pc'[d] = pc[d] /\ r' = r
    BY <1>6 DEF FreePut
  <2>3. d = 0 => Fresh' = Fresh
    BY <2>1, <1>5 DEF Held
  <2> QED
    BY <2>2, <2>3 DEF Held
<1>9. stack \in Seq(Pages) /\ stack' = Append(stack, r[c])
  BY DEF IInv, TypeOK, FreePut
<1>10. /\ stack' \in Seq(Pages) /\ Len(stack') = Len(stack) + 1
       /\ \A i \in 1..Len(stack) : stack'[i] = stack[i]
       /\ stack'[Len(stack) + 1] = r[c]
       /\ Len(stack) \in Nat
  BY <1>1, <1>9
<1>11. Linked' = Linked \cup {r[c]}
  BY <1>10 DEF Linked
<1> QED
  BY <1>1, <1>2, <1>5, <1>7, <1>8, <1>10, <1>11

-----------------------------------------------------------------------------
(* Every step of SerialSpec preserves the inductive invariant. *)
LEMMA InitIInv == Init => IInv
<1> SUFFICES ASSUME Init PROVE IInv
  OBVIOUS
<1>1. TypeOK /\ NoFault /\ Serial
  BY DEF Init, TypeOK, NoFault, Serial, Labels
<1>2. Linked = {} /\ Len(stack) = 0
  BY DEF Init, Linked
<1>3. Fresh = Pages
  BY DEF Init, Fresh
<1>4. \A c \in Cpus : Held(c) = IF c = 0 THEN Pages ELSE {}
  BY <1>3 DEF Init, Held
<1>5. DistinctPages
  BY <1>4 DEF DistinctPages
<1>6. ListIsSound
  <2>1. Pages = UNION {Held(c) : c \in Cpus}
    BY <1>4, KallocAssumption
  <2> QED
    BY <1>2, <1>4, <2>1 DEF ListIsSound, Init
<1>7. Boot
  BY <1>3, KallocAssumption DEF Boot, Init
<1>8. \A c \in Cpus : Locals(c)
  BY DEF Locals, Init
<1> QED
  BY <1>1, <1>5, <1>6, <1>7, <1>8 DEF IInv

(* The free pages, held pages and list after a step that moves nothing. *)
LEMMA PlacesKept ==
    ASSUME IInv, UNCHANGED stack, \A c \in Cpus : Held(c)' = Held(c),
           freelist' = freelist, \A p \in Linked : next'[p] = next[p]
    PROVE  ListIsSound' /\ DistinctPages'
<1>1. Linked' = Linked
  BY DEF Linked
<1>2. UNION {Held(c)' : c \in Cpus} = UNION {Held(c) : c \in Cpus}
  OBVIOUS
<1>3. (UNION {Held(c) : c \in Cpus})' = UNION {Held(c)' : c \in Cpus}
  OBVIOUS
<1>4. \A i \in 1..Len(stack) : stack[i] \in Linked
  BY DEF Linked
<1>5. ListIsSound'
  BY <1>1, <1>2, <1>3, <1>4 DEF IInv, ListIsSound
<1>6. DistinctPages'
  BY DEF IInv, DistinctPages
<1> QED
  BY <1>5, <1>6

(* One step of a call, while no other CPU is in the allocator. *)
LEMMA StepIInv ==
    ASSUME IInv, NEW c \in Cpus, Step(c), \A d \in Cpus \ {c} : pc[d] = "run"
    PROVE  IInv'
<1> USE DEF Running
<1> DEFINE Goal == /\ TypeOK' /\ ListIsSound' /\ DistinctPages' /\ Boot' /\ Locals(c)'
                   /\ pc'[c] # "fault" /\ \A d \in Cpus \ {c} : pc'[d] = pc[d]
<1>0. SUFFICES Goal
  BY DEF IInv, NoFault, Serial, Locals
<1>a. /\ freelist \in Pages \cup {0, Junk} /\ next \in [Pages -> Pages \cup {0, Junk}]
      /\ pc \in [Cpus -> Labels] /\ r \in [Cpus -> Pages \cup {0, Junk}]
      /\ reg \in [Cpus -> Pages \cup {0, Junk}] /\ owned \in [Cpus -> SUBSET Pages]
      /\ stack \in Seq(Pages)
  BY DEF IInv, TypeOK
<1>1. CASE AllocLoad(c)
  <2>1. pc' = [pc EXCEPT ![c] = pc'[c]] /\ pc[c] = "run" /\ pc'[c] \in {"run", "next"}
    BY <1>1, <1>a DEF AllocLoad, Goto
  <2>2. TypeOK'
    BY <1>1, <1>a, <2>1 DEF AllocLoad, IInv, TypeOK, Labels
  <2>3. Fresh' = Fresh /\ \A d \in Cpus : Held(d)' = Held(d)
    BY <1>1, <1>a, <2>1, SameHeld DEF AllocLoad, IInv
  <2>4. ListIsSound' /\ DistinctPages'
    BY <1>1, <2>3, PlacesKept DEF AllocLoad
  <2>5. Boot'
    <3>1. pc'[0] = "fill" => pc[0] = "fill" /\ r'[0] = r[0]
      BY <1>1, <2>1, <1>a, KallocAssumption DEF AllocLoad
    <3> QED
      BY <1>1, <2>3, <3>1 DEF AllocLoad, IInv, Boot
  <2>6. pc'[c] = "next" => stack # <<>> /\ r'[c] = Top
    BY <1>1, <1>a DEF AllocLoad, Goto, IInv, ListIsSound, Top
  <2>7. Locals(c)'
    BY <1>1, <2>1, <2>6 DEF Locals, Top, AllocLoad
  <2> QED
    BY <2>1, <2>2, <2>4, <2>5, <2>7, <1>a
<1>2. CASE AllocNext(c)
  <2>0. stack # <<>> /\ r[c] = Top /\ r[c] \in Pages /\ pc[c] = "next"
    <3>1. stack # <<>> /\ r[c] = Top /\ pc[c] = "next"
      BY <1>2 DEF AllocNext, IInv, Locals
    <3> QED
      BY <3>1, <1>a DEF Top
  <2>1. pc' = [pc EXCEPT ![c] = "take"] /\ reg' = [reg EXCEPT ![c] = next[r[c]]]
    BY <1>2, <2>0 DEF AllocNext, Goto
  <2>2. TypeOK'
    BY <1>2, <1>a, <2>0, <2>1 DEF AllocNext, IInv, TypeOK, Labels
  <2>3. Fresh' = Fresh /\ \A d \in Cpus : Held(d)' = Held(d)
    BY <1>2, <1>a, <2>0, <2>1, SameHeld DEF AllocNext, IInv
  <2>4. ListIsSound' /\ DistinctPages'
    BY <1>2, <2>3, PlacesKept DEF AllocNext
  <2>5. Boot'
    BY <1>2, <2>1, <2>3, <1>a DEF AllocNext, IInv, Boot
  <2>7. Locals(c)'
    BY <1>2, <2>0, <2>1, <1>a DEF Locals, Top, AllocNext
  <2> QED
    BY <2>1, <2>2, <2>4, <2>5, <2>7, <1>a
<1>3. CASE AllocTake(c)
  <2>0. /\ stack # <<>> /\ r[c] = Top /\ pc[c] = "take" /\ r[c] \in Pages
        /\ reg[c] = next[Top] /\ freelist' = reg[c] /\ next' = next
    <3>1. stack # <<>> /\ r[c] = Top /\ pc[c] = "take" /\ reg[c] = next[r[c]]
      BY <1>3 DEF AllocTake, IInv, Locals
    <3> QED
      BY <3>1, <1>3, <1>a DEF Top, AllocTake
  <2>1. pc' = [pc EXCEPT ![c] = "fill"]
    BY <1>3 DEF AllocTake, Goto
  <2>2. /\ Fresh' = Fresh
        /\ Held(c)' = Held(c) \cup {Top} /\ Top \in Linked
        /\ \A d \in Cpus \ {c} : Held(d)' = Held(d)
        /\ Linked' = Linked \ {Top}
        /\ stack' \in Seq(Pages) /\ Len(stack') = Len(stack) - 1
        /\ \A i \in 1..Len(stack') : stack'[i] = stack[i]
        /\ Len(stack) \in Nat \ {0}
    BY <1>3, TakeMoves
  <2>3. TypeOK'
    BY <1>3, <1>a, <2>0, <2>1, <2>2 DEF AllocTake, IInv, TypeOK, Labels
  <2>4. \A d \in Cpus : Held(d) \cap Linked = {}
    BY DEF IInv, ListIsSound
  <2>5. DistinctPages'
    BY <2>2, <2>4 DEF IInv, DistinctPages
  <2>6. ListIsSound'
    <3>1. freelist' = IF stack' = <<>> THEN 0 ELSE stack'[Len(stack')]
      <4>1. freelist' = IF Len(stack) = 1 THEN 0 ELSE stack[Len(stack) - 1]
        <5>1. \A i \in 1..Len(stack) : next[stack[i]] = IF i = 1 THEN 0 ELSE stack[i - 1]
          BY DEF IInv, ListIsSound
        <5> QED
          BY <2>0, <2>2, <5>1 DEF Top
      <4>2. stack' = <<>> <=> Len(stack) = 1
        BY <2>2, EmptySeq
      <4> QED
        BY <4>1, <4>2, <2>2
    <3>2. \A i \in 1..Len(stack') : next'[stack'[i]] = IF i = 1 THEN 0 ELSE stack'[i - 1]
      BY <2>0, <2>2 DEF IInv, ListIsSound
    <3>3. \A i, j \in 1..Len(stack') : stack'[i] = stack'[j] => i = j
      BY <2>2 DEF IInv, ListIsSound
    <3>4. \A d \in Cpus : Held(d)' \cap Linked' = {}
      BY <2>2, <2>4
    <3>5. Pages = Linked' \cup UNION {Held(d)' : d \in Cpus}
      <4>1. Pages = Linked \cup UNION {Held(d) : d \in Cpus}
        BY DEF IInv, ListIsSound
      <4>2. UNION {Held(d)' : d \in Cpus} = {Top} \cup UNION {Held(d) : d \in Cpus}
        BY <2>2
      <4> QED
        BY <4>1, <4>2, <2>2
    <3> QED
      BY <3>1, <3>2, <3>3, <3>4, <3>5 DEF ListIsSound
  <2>7. Boot'
    <3>1. c = 0 => Top \notin Fresh
      BY <2>2, <2>4 DEF Held
    <3> QED
      BY <1>3, <2>0, <2>1, <2>2, <3>1, <1>a DEF AllocTake, IInv, Boot
  <2>8. Locals(c)'
    <3>1. r[c] \notin owned[c]
      BY <2>0, <2>2, <2>4 DEF Held
    <3> QED
      BY <1>3, <2>0, <2>1, <3>1, <1>a DEF Locals, AllocTake
  <2> QED
    BY <2>1, <2>3, <2>5, <2>6, <2>7, <2>8, <1>a
<1>4. CASE AllocFill(c)
  <2>0. pc[c] = "fill" /\ r[c] \in Pages /\ r[c] \notin owned[c] /\ r[c] \in Held(c)
    BY <1>4 DEF AllocFill, IInv, Locals, Held
  <2>1. pc' = [pc EXCEPT ![c] = "run"] /\ owned' = [owned EXCEPT ![c] = @ \cup {r[c]}]
        /\ next' = [next EXCEPT ![r[c]] = Junk]
    BY <1>4 DEF AllocFill, Goto
  <2>2. TypeOK'
    BY <1>4, <1>a, <2>0, <2>1 DEF AllocFill, IInv, TypeOK, Labels
  <2>3. Fresh' = Fresh
    BY <1>4 DEF AllocFill, Fresh
  <2>4. ASSUME NEW d \in Cpus PROVE Held(d)' = Held(d)
    <3>1. CASE d = c
      BY <3>1, <2>0, <2>1, <2>3, <1>4, <1>a DEF Held, AllocFill
    <3>2. CASE d # c
      BY <3>2, <2>1, <2>3, <1>4, <1>a DEF Held, AllocFill
    <3> QED
      BY <3>1, <3>2
  <2>5. r[c] \notin Linked
    BY <2>0 DEF IInv, ListIsSound
  <2>6. ListIsSound' /\ DistinctPages'
    BY <1>4, <1>a, <2>1, <2>4, <2>5, PlacesKept DEF AllocFill
  <2>7. Boot'
    BY <1>4, <1>a, <2>0, <2>1, <2>3, KallocAssumption DEF AllocFill, IInv, Boot
  <2>8. Locals(c)'
    BY <2>1, <1>a DEF Locals
  <2> QED
    BY <2>1, <2>2, <2>6, <2>7, <2>8, <1>a
<1>5. ASSUME NEW p \in Pages, FreeClear(c, p) PROVE Goal
  <2>0. ~kfreePanics(p)
    BY Layout
  <2>1. /\ pc[c] = "run" /\ next' = [next EXCEPT ![p] = 0]
        /\ r' = [r EXCEPT ![c] = p] /\ pc' = [pc EXCEPT ![c] = "link"]
    BY <1>5, <2>0 DEF FreeClear, Goto
  <2>2. p \in owned[c] \/ (c = 0 /\ p \in kinit)
    BY <1>5 DEF FreeClear, MayFree
  <2>3. TypeOK'
    BY <1>5, <1>a, <2>1 DEF FreeClear, IInv, TypeOK, Labels
  <2>4. Fresh' = Fresh /\ \A d \in Cpus : Held(d)' = Held(d)
    BY <1>5, <1>a, <2>1, SameHeld DEF FreeClear, IInv
  <2>5. p \notin Linked
    <3>1. p \in Held(c)
      BY <2>2 DEF Held, Fresh
    <3> QED
      BY <3>1 DEF IInv, ListIsSound
  <2>6. ListIsSound' /\ DistinctPages'
    <3>1. \A q \in Linked : next'[q] = next[q]
      <4>1. \A q \in Linked : q \in Pages /\ q # p
        BY <2>5, <1>a DEF Linked
      <4> QED
        BY <4>1, <2>1, <1>a
    <3> QED
      BY <1>5, <2>4, <3>1, PlacesKept DEF FreeClear
  <2>7. Boot'
    BY <1>5, <2>1, <2>4, <1>a DEF FreeClear, IInv, Boot
  <2>8. Locals(c)'
    BY <1>5, <2>1, <2>2, <1>a DEF Locals, FreeClear
  <2> QED
    BY <2>1, <2>3, <2>6, <2>7, <2>8, <1>a
<1>6. CASE FreeLoad(c)
  <2>1. pc[c] = "link" /\ pc' = [pc EXCEPT ![c] = "store"] /\ reg' = [reg EXCEPT ![c] = freelist]
    BY <1>6 DEF FreeLoad, Goto
  <2>2. TypeOK'
    BY <1>6, <1>a, <2>1 DEF FreeLoad, IInv, TypeOK, Labels
  <2>3. Fresh' = Fresh /\ \A d \in Cpus : Held(d)' = Held(d)
    BY <1>6, <1>a, <2>1, SameHeld DEF FreeLoad, IInv
  <2>4. ListIsSound' /\ DistinctPages'
    BY <1>6, <2>3, PlacesKept DEF FreeLoad
  <2>5. Boot'
    BY <1>6, <2>1, <2>3, <1>a DEF FreeLoad, IInv, Boot
  <2>6. Locals(c)'
    BY <1>6, <2>1, <1>a DEF Locals, FreeLoad, IInv
  <2> QED
    BY <2>1, <2>2, <2>4, <2>5, <2>6, <1>a
<1>7. CASE FreeStore(c)
  <2>0. /\ pc[c] = "store" /\ r[c] \in Pages /\ reg[c] = freelist
        /\ r[c] \in owned[c] \/ (c = 0 /\ r[c] \in kinit)
    BY <1>7 DEF FreeStore, IInv, Locals
  <2>1. pc' = [pc EXCEPT ![c] = "put"] /\ next' = [next EXCEPT ![r[c]] = reg[c]]
    BY <1>7 DEF FreeStore, Goto
  <2>2. TypeOK'
    BY <1>7, <1>a, <2>0, <2>1 DEF FreeStore, IInv, TypeOK, Labels
  <2>3. Fresh' = Fresh /\ \A d \in Cpus : Held(d)' = Held(d)
    BY <1>7, <1>a, <2>0, <2>1, SameHeld, ZenonT(60) DEF FreeStore, IInv
  <2>4. \A q \in Linked : next'[q] = next[q]
    <3>1. r[c] \in Held(c)
      BY <2>0 DEF Held, Fresh
    <3>2. r[c] \notin Linked
      BY <3>1 DEF IInv, ListIsSound
    <3>3. \A q \in Linked : q \in Pages /\ q # r[c]
      BY <3>2, <1>a DEF Linked
    <3> QED
      BY <3>3, <2>1, <1>a
  <2>5. ListIsSound' /\ DistinctPages'
    BY <1>7, <2>3, <2>4, PlacesKept DEF FreeStore
  <2>6. Boot'
    BY <1>7, <2>1, <2>3, <1>a DEF FreeStore, IInv, Boot
  <2>7. Locals(c)'
    BY <1>7, <2>0, <2>1, <1>a DEF Locals, FreeStore
  <2> QED
    BY <2>1, <2>2, <2>5, <2>6, <2>7, <1>a
<1>8. CASE FreePut(c)
  <2>0. pc[c] = "put" /\ next[r[c]] = freelist /\ freelist' = r[c] /\ next' = next /\ r' = r
    BY <1>8 DEF FreePut, IInv, Locals
  <2>1. /\ pc' = [pc EXCEPT ![c] = "run"] /\ kinit' = kinit \ {r[c]}
        /\ owned' = [owned EXCEPT ![c] = @ \ {r[c]}]
    BY <1>8 DEF FreePut, Goto
  <2>2. /\ Fresh' = Fresh \ {r[c]} /\ r[c] \in Held(c) /\ r[c] \in Pages
        /\ Held(c)' = Held(c) \ {r[c]}
        /\ \A d \in Cpus \ {c} : Held(d)' = Held(d)
        /\ Linked' = Linked \cup {r[c]}
        /\ stack' \in Seq(Pages) /\ Len(stack') = Len(stack) + 1
        /\ \A i \in 1..Len(stack) : stack'[i] = stack[i]
        /\ stack'[Len(stack) + 1] = r[c]
        /\ Len(stack) \in Nat
    BY <1>8, PutMoves
  <2>3. TypeOK'
    BY <1>8, <1>a, <2>0, <2>1, <2>2 DEF FreePut, IInv, TypeOK, Labels
  <2>4. /\ \A d \in Cpus : Held(d) \cap Linked = {}
        /\ \A d \in Cpus \ {c} : r[c] \notin Held(d)
    BY <2>2 DEF IInv, ListIsSound, DistinctPages
  <2>5. DistinctPages'
    BY <2>2 DEF IInv, DistinctPages
  <2>6. ListIsSound'
    <3>1. freelist' = IF stack' = <<>> THEN 0 ELSE stack'[Len(stack')]
      <4>1. stack' # <<>>
        BY <2>2, EmptySeq
      <4> QED
        BY <4>1, <2>0, <2>2
    <3>2. r[c] \notin Linked
      BY <2>2, <2>4
    <3>3. ASSUME NEW i \in 1..Len(stack')
          PROVE  next'[stack'[i]] = IF i = 1 THEN 0 ELSE stack'[i - 1]
      <4>1. CASE i \in 1..Len(stack)
        BY <4>1, <2>0, <2>2 DEF IInv, ListIsSound
      <4>2. CASE i = Len(stack) + 1
        <5>1. next'[stack'[i]] = IF stack = <<>> THEN 0 ELSE stack[Len(stack)]
          BY <4>2, <2>0, <2>2 DEF IInv, ListIsSound
        <5>2. stack = <<>> <=> Len(stack) = 0
          BY <1>a, EmptySeq
        <5> QED
          BY <4>2, <5>1, <5>2, <2>2
      <4> QED
        BY <4>1, <4>2, <2>2
    <3>4. \A i, j \in 1..Len(stack') : stack'[i] = stack'[j] => i = j
      <4>1. \A i \in 1..Len(stack) : stack'[i] = stack[i] /\ stack[i] # r[c]
        BY <2>2, <3>2 DEF Linked
      <4>2. \A i, j \in 1..Len(stack) : stack[i] = stack[j] => i = j
        BY DEF IInv, ListIsSound
      <4> QED
        BY <4>1, <4>2, <2>2
    <3>5. \A d \in Cpus : Held(d)' \cap Linked' = {}
      BY <2>2, <2>4
    <3>6. Pages = Linked' \cup UNION {Held(d)' : d \in Cpus}
      <4>1. Pages = Linked \cup UNION {Held(d) : d \in Cpus}
        BY DEF IInv, ListIsSound
      <4>2. UNION {Held(d)' : d \in Cpus} = (UNION {Held(d) : d \in Cpus}) \ {r[c]}
        BY <2>2, <2>4
      <4> QED
        BY <4>1, <4>2, <2>2
    <3> QED
      BY <3>1, <3>3, <3>4, <3>5, <3>6 DEF ListIsSound
  <2>7. Boot'
    BY <1>8, <2>0, <2>1, <2>2, <1>a, KallocAssumption DEF FreePut, IInv, Boot
  <2>8. Locals(c)'
    BY <2>1, <1>a DEF Locals
  <2> QED
    BY <2>1, <2>3, <2>5, <2>6, <2>7, <2>8, <1>a
<1> QED
  <2> HIDE DEF Goal
  <2> QED
    BY <1>1, <1>2, <1>3, <1>4, <1>5, <1>6, <1>7, <1>8 DEF Step

(* The step of kernel_main that starts a call of kinit. *)
LEMMA KinitIInv == ASSUME IInv, Kinit PROVE IInv'
<1>1. Fresh' = Fresh /\ \A c \in Cpus : Held(c)' = Held(c)
  BY KinitKeepsHeld DEF IInv
<1>2. ListIsSound' /\ DistinctPages'
  BY <1>1, PlacesKept DEF Kinit
<1>3. TypeOK'
  BY Layout DEF IInv, TypeOK, Kinit, Range1, Range2
<1>4. Boot'
  <2>1. calls' = 1 => kinit' = Range1
    BY DEF Kinit, Range1, IInv, TypeOK
  <2>2. calls' = 0 => kinit' = Range2
    BY DEF Kinit, Range2, IInv, TypeOK
  <2>3. calls' # 2
    BY DEF Kinit, IInv, TypeOK
  <2> QED
    BY <1>1, <2>1, <2>2, <2>3 DEF IInv, Boot, Kinit
<1>5. NoFault' /\ Serial'
  BY DEF IInv, NoFault, Serial, Kinit
<1>6. \A c \in Cpus : Locals(c)'
  <2>1. kinit = {} /\ UNCHANGED <<freelist, next, pc, r, reg, owned, stack>>
    BY DEF Kinit
  <2> QED
    BY <2>1 DEF IInv, Locals, Top
<1> QED
  BY <1>2, <1>3, <1>4, <1>5, <1>6 DEF IInv

(* The inductive invariant holds in every state the serial calls reach. *)
THEOREM Inductive == SerialSpec => []IInv
<1>1. Init => IInv
  BY InitIInv
<1>2. IInv /\ [SerialNext]_vars => IInv'
  <2> SUFFICES ASSUME IInv, [SerialNext]_vars PROVE IInv'
    OBVIOUS
  <2>1. CASE Kinit
    BY <2>1, KinitIInv
  <2>2. ASSUME NEW c \in Cpus, Step(c), \A d \in Cpus \ {c} : pc[d] = "run" PROVE IInv'
    BY <2>2, StepIInv
  <2>3. CASE UNCHANGED vars
    <3>1. Fresh' = Fresh /\ \A c \in Cpus : Held(c)' = Held(c)
      BY <2>3 DEF vars, Fresh, Held
    <3>2. ListIsSound' /\ DistinctPages'
      BY <2>3, <3>1, PlacesKept DEF vars
    <3>3. TypeOK' /\ NoFault' /\ Serial'
      BY <2>3 DEF vars, IInv, TypeOK, NoFault, Serial
    <3>4. Boot' /\ \A c \in Cpus : Locals(c)'
      BY <2>3, <3>1 DEF vars, IInv, Boot, Locals, Top
    <3> QED
      BY <3>2, <3>3, <3>4 DEF IInv
  <2> QED
    BY <2>1, <2>2, <2>3 DEF SerialNext
<1> QED
  BY <1>1, <1>2, PTL DEF SerialSpec

(* The types of the allocator's variables hold for every memory layout. *)
THEOREM TypeCorrect == SerialSpec => []TypeOK
  BY Inductive, PTL DEF IInv

(* kalloc hands a page to one owner at a time, whatever the number of      *)
(* pages and CPUs, while calls do not overlap.                             *)
THEOREM PagesDistinct == SerialSpec => []DistinctPages
  BY Inductive, PTL DEF IInv

(* The chain in memory is always the free pages, each once; kalloc fails   *)
(* only when no page is free.                                              *)
THEOREM ListSound == SerialSpec => []ListIsSound
  BY Inductive, PTL DEF IInv

(* kfree's panic and a fault on a list pointer are unreachable. *)
THEOREM NeverFaults == SerialSpec => []NoFault
  BY Inductive, PTL DEF IInv

-----------------------------------------------------------------------------
(* The loads and stores of the list implement an atomic allocator. *)
THEOREM Refinement == SerialSpec => ImplementsPageAlloc
<1> DEFINE held == [c \in Cpus |-> Held(c)]
<1>1. Init => Abstract!Init
  <2> SUFFICES ASSUME Init PROVE Abstract!Init
    OBVIOUS
  <2>1. Linked = {}
    BY DEF Init, Linked
  <2>2. Fresh = Pages
    BY DEF Init, Fresh
  <2>3. \A c \in Cpus : Held(c) \in {{}, Pages}
    BY <2>2 DEF Init, Held
  <2> QED
    BY <2>1, <2>3 DEF Abstract!Init
<1>2. IInv /\ [SerialNext]_vars => [Abstract!Next]_<<Linked, held>>
  <2> SUFFICES ASSUME IInv, [SerialNext]_vars
               PROVE  Abstract!Next \/ (Linked' = Linked /\ \A c \in Cpus : Held(c)' = Held(c))
    OBVIOUS
  <2>1. CASE Kinit
    BY <2>1, KinitKeepsHeld DEF IInv, Kinit, Linked
  <2>2. CASE UNCHANGED vars
    BY <2>2 DEF vars, Held, Fresh, Linked
  <2>3. ASSUME NEW c \in Cpus, AllocTake(c) PROVE Abstract!Next
    <3>1. /\ Held(c)' = Held(c) \cup {Top} /\ Top \in Linked
          /\ \A d \in Cpus \ {c} : Held(d)' = Held(d)
          /\ Linked' = Linked \ {Top}
      BY <2>3, TakeMoves
    <3>2. Top \in Pages
      BY <3>1 DEF IInv, ListIsSound
    <3>3. Abstract!Alloc(c, Top)
      BY <3>1 DEF Abstract!Alloc
    <3> QED
      BY <3>2, <3>3 DEF Abstract!Next
  <2>4. ASSUME NEW c \in Cpus, FreePut(c) PROVE Abstract!Next
    <3>1. /\ r[c] \in Held(c) /\ r[c] \in Pages
          /\ Held(c)' = Held(c) \ {r[c]}
          /\ \A d \in Cpus \ {c} : Held(d)' = Held(d)
          /\ Linked' = Linked \cup {r[c]}
      BY <2>4, PutMoves
    <3>2. Abstract!Free(c, r[c])
      BY <3>1, ZenonT(60) DEF Abstract!Free
    <3> QED
      BY <3>1, <3>2 DEF Abstract!Next
  <2>5. ASSUME NEW c \in Cpus, Step(c), ~AllocTake(c), ~FreePut(c)
        PROVE  Linked' = Linked /\ \A d \in Cpus : Held(d)' = Held(d)
    <3>1. TypeOK /\ pc \in [Cpus -> Labels] /\ owned \in [Cpus -> SUBSET Pages]
          /\ r \in [Cpus -> Pages \cup {0, Junk}]
      BY DEF IInv, TypeOK
    <3>2. UNCHANGED stack
      BY <2>5 DEF Step, AllocLoad, AllocNext, AllocFill, FreeClear, FreeLoad, FreeStore
    <3>3. CASE AllocFill(c)
      <4>1. pc[c] = "fill" /\ Fresh' = Fresh /\ r' = r
        BY <3>3 DEF AllocFill, Fresh
      <4>2. \A d \in Cpus : Held(d)' = Held(d)
        BY <3>1, <3>3, <4>1 DEF AllocFill, Goto, Held
      <4> QED
        BY <3>2, <4>2 DEF Linked
    <3>4. CASE ~AllocFill(c)
      <4>1. /\ UNCHANGED <<owned, kinit, calls>>
            /\ pc' = [pc EXCEPT ![c] = pc'[c]] /\ pc[c] # "fill" /\ pc'[c] # "fill"
            /\ \A d \in Cpus \ {c} : r'[d] = r[d]
        BY <2>5, <3>1, <3>4 DEF Step, AllocLoad, AllocNext, FreeClear, FreeLoad, FreeStore,
                                Goto, Running
      <4> QED
        BY <3>1, <3>2, <4>1, SameHeld DEF Linked
    <3> QED
      BY <3>3, <3>4
  <2> QED
    BY <2>1, <2>2, <2>3, <2>4, <2>5 DEF SerialNext
<1> QED
  BY <1>1, <1>2, Inductive, PTL DEF SerialSpec, ImplementsPageAlloc, Abstract!Spec
=============================================================================
