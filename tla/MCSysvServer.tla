----------------------------- MODULE MCSysvServer -----------------------------
(* SysvServer with a small set of clients for TLC. *)
EXTENDS SysvServer

CONSTANTS c1, c2, c3

SomeProcesses == {c1, Server}
===============================================================================
