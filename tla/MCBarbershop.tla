----------------------------- MODULE MCBarbershop -----------------------------
(* Both barbershops with a small set of clients for TLC. *)
EXTENDS BarbershopVariants

CONSTANTS c1, c2, c3

AllMortal == Procs
===============================================================================
