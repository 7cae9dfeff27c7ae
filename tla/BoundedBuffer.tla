---------------------------- MODULE BoundedBuffer ----------------------------
(***************************************************************************)
(* What the cyclic array of lab7_threads promises to its producers and     *)
(* consumers, with no locks and no slots: a queue of at most N lines, from *)
(* which the lines come out in the order in which they went in, each once. *)
(* Modules MutexRing (one consumer) and SemRing implement it.              *)
(***************************************************************************)
EXTENDS Integers, Sequences

CONSTANTS
  Lines,     \* the lines of the file
  N          \* size of the cyclic array

VARIABLES
  waiting,   \* lines nobody put into the buffer yet
  buffer,    \* the buffered lines, oldest first
  taken      \* the lines taken so far, in the order in which they were taken

vars == <<waiting, buffer, taken>>

Init ==
  /\ waiting = Lines
  /\ buffer = <<>>
  /\ taken = <<>>

Put(l) ==
  /\ Len(buffer) < N
  /\ waiting' = waiting \ {l}
  /\ buffer' = Append(buffer, l)
  /\ UNCHANGED taken

Get ==
  /\ buffer # <<>>
  /\ buffer' = Tail(buffer)
  /\ taken' = Append(taken, Head(buffer))
  /\ UNCHANGED waiting

Next == Get \/ \E l \in waiting : Put(l)

Spec == Init /\ [][Next]_vars
===============================================================================
