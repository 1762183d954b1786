------------------------------ MODULE MCPaging ------------------------------
(* Page tables for TLC: three levels of two entries and pages of two       *)
(* bytes, so eight virtual pages.  The boot tables map pages 0 and 1,      *)
(* kvminit pages 2 and 3; pages 4 to 7 need more tables than Pool has.     *)
EXTENDS Paging

Args(op, VA, Size, PA(_), Fl) ==
    {[op |-> op, va |-> a, size |-> s, pa |-> PA(a), fl |-> f] : a \in VA, s \in Size, f \in Fl}
SameAddress(a) == a
ToPageTwo(a) == 4

KernelRequests ==
    Args("map", {7, 8}, {1, 4}, SameAddress, {PTE_W})
    \cup Args("map", {6, 11}, {2}, ToPageTwo, {PTE_W})
    \cup Args("mmio", {5, 9}, {0, 3}, SameAddress, {PTE_W_PCD})
    \cup Args("region", {0, 10}, {4}, SameAddress, {PTE_W, PTE_W_PCD})
    \cup Args("unmap", {7, 9}, {1, 4}, SameAddress, {PTE_W})
    \cup Args("query", {1, 7, 15}, {1}, SameAddress, {PTE_W})
=============================================================================
