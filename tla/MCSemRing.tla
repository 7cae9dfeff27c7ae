------------------------------ MODULE MCSemRing ------------------------------
(* SemRing with small sets of threads for TLC. *)
EXTENDS SemRing, TLC

CONSTANTS p1, p2, k1, k2

ThreadSymmetry == Permutations(Producers) \cup Permutations(Consumers)
===============================================================================
