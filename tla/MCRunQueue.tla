----------------------------- MODULE MCRunQueue -----------------------------
(* One run queue for TLC; the threads are interchangeable. *)
EXTENDS RunQueue, TLC

Symmetry == Permutations(Threads)
=============================================================================
