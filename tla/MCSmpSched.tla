----------------------------- MODULE MCSmpSched -----------------------------
(* The scheduler with small sets of CPUs and threads. *)
EXTENDS SmpSched, TLC

(* Threads are interchangeable in the runs without liveness. *)
Symmetry == Permutations(Threads)
=============================================================================
