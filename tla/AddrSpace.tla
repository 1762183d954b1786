----------------------------- MODULE AddrSpace -----------------------------
(***************************************************************************)
(* What the paging code promises its callers, with no tables in sight: an  *)
(* address space is a map from virtual pages to entries, a request works   *)
(* on the pages that hold the bytes it names, one page at a time, and      *)
(* returns in a state its callers may rely on.                             *)
(***************************************************************************)
EXTENDS Integers

CONSTANTS
    VPages,     \* the virtual page numbers
    PGSIZE,     \* bytes per page
    PteFlags    \* the flag combinations a leaf entry may have

None == [p |-> 0, addr |-> 0, fl |-> 0]
PageEntries == {None} \cup [p : {1}, addr : VPages, fl : PteFlags]

VARIABLES
    map,        \* map[v]: the entry the processor finds for page v, or None
    req,        \* the request in progress, op "none" between requests
    old,        \* the map as it was when the request began
    res         \* what the last request returned

avars == <<map, req, old, res>>

NoReq == [op |-> "none", va |-> 0, size |-> 0, pa |-> 0, fl |-> 0]

(* The pages holding the bytes va .. va + size - 1, and what each must map to. *)
Touched(r) == {v \in VPages : v >= r.va \div PGSIZE /\ v * PGSIZE < r.va + r.size}
Want(r, v) == [p |-> 1, addr |-> r.pa \div PGSIZE + v - r.va \div PGSIZE, fl |-> r.fl]

Begin ==
    /\ req.op = "none" /\ req'.op \in {"region", "map", "mmio", "unmap", "query"}
    /\ old' = map
    /\ UNCHANGED <<map, res>>

(* A page gets its entry.  map_page never redirects a page that is in use; *)
(* the boot-time calls may.                                                *)
Enter(v) ==
    /\ req.op \in {"kvminit", "region", "map", "mmio"}
    /\ v \in Touched(req)
    /\ req.op \in {"map", "mmio"} /\ map[v] # None => map[v].addr = Want(req, v).addr
    /\ map' = [map EXCEPT ![v] = Want(req, v)]
    /\ UNCHANGED <<req, old, res>>

(* A page loses its entry: it is unmapped, or a failing call undoes what it did. *)
Remove(v) ==
    /\ v \in Touched(req)
    /\ \/ req.op = "unmap"
       \/ req.op \in {"map", "mmio"} /\ map[v] = Want(req, v)
    /\ map' = [map EXCEPT ![v] = None]
    /\ UNCHANGED <<req, old, res>>

(* The states a request may return in.  A call that fails leaves no page   *)
(* half done: up to the page it failed at nothing is mapped, and from      *)
(* there on nothing has changed.                                           *)
Returns(r, result) ==
    LET T == Touched(r) IN
    CASE r.op = "kvminit" -> \A v \in T : map[v] = Want(r, v)
      [] r.op = "region"  -> \A v \in T : map[v] \in {Want(r, v), old[v]}
      [] r.op = "unmap"   -> \A v \in T : map[v] = None
      [] r.op = "query"   ->
            LET e == map[r.va \div PGSIZE] IN
            map = old /\ result = IF e = None THEN 0 ELSE e.addr * PGSIZE + (r.va % PGSIZE)
      [] r.op \in {"map", "mmio"} ->
            \/ /\ result = (IF r.op = "map" THEN 0 ELSE r.va)
               /\ \A v \in T : map[v] = Want(r, v)
            \/ /\ result = (IF r.op = "map" THEN -1 ELSE 0)
               /\ \E w \in T : \A v \in T : map[v] = IF v < w THEN None ELSE old[v]

Finish ==
    /\ req.op # "none"
    /\ Returns(req, res')
    /\ req' = NoReq
    /\ UNCHANGED <<map, old>>

Init ==
    /\ map \in [VPages -> PageEntries] /\ old = map
    /\ req.op \in {"none", "kvminit"}
    /\ res = 0

Next ==
    \/ Begin
    \/ \E v \in VPages : Enter(v) \/ Remove(v)
    \/ Finish

Spec == Init /\ [][Next]_avars
=============================================================================
