----------------------------- MODULE MCMutexRing -----------------------------
(* MutexRing with small sets of threads for TLC. *)
EXTENDS MutexRing, TLC

CONSTANTS p1, p2, k1, k2

ThreadSymmetry == Permutations(Producers) \cup Permutations(Consumers)
===============================================================================
