------------------------------ MODULE MCKalloc ------------------------------
(* The allocator for TLC: pages of four bytes, a kernel that ends inside a *)
(* page, and four pages to hand out.                                       *)
EXTENDS Kalloc

TwoCpus == {0, 1}
=============================================================================
