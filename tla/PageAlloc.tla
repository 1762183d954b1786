------------------------------ MODULE PageAlloc ------------------------------
(***************************************************************************)
(* What a page allocator promises: a page is free or has one owner, and    *)
(* moves between the two only by an allocation or by its owner's free.     *)
(***************************************************************************)
CONSTANTS Cpus, Pages

VARIABLES
    free,       \* the pages that can be allocated
    owned       \* owned[c]: the pages CPU c was given or still holds

(* The boot CPU starts out with all pages and frees them one by one. *)
Init == free = {} /\ owned \in [Cpus -> {{}, Pages}]

Alloc(c, p) ==
    /\ p \in free
    /\ free' = free \ {p}
    /\ owned' = [owned EXCEPT ![c] = @ \cup {p}]

Free(c, p) ==
    /\ p \in owned[c]
    /\ free' = free \cup {p}
    /\ owned' = [owned EXCEPT ![c] = @ \ {p}]

Next == \E c \in Cpus, p \in Pages : Alloc(c, p) \/ Free(c, p)

Spec == Init /\ [][Next]_<<free, owned>>
=============================================================================
