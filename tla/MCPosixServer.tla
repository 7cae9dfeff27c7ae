----------------------------- MODULE MCPosixServer -----------------------------
(* PosixServer with a small set of clients for TLC. *)
EXTENDS PosixServer, TLC

CONSTANTS c1, c2, c3

ClientSymmetry == Permutations(Clients)
===============================================================================
