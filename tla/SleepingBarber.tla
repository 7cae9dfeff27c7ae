---------------------------- MODULE SleepingBarber ----------------------------
(***************************************************************************)
(* What the barbershop of lab6_semaphores_shared_mem promises, with no     *)
(* semaphore, no status word and no polling: clients queue up, the barber  *)
(* calls them in the order in which they queued, there is one chair, and a *)
(* client leaves with fewer shaves than it came for only when it finds the *)
(* waiting room full.  Module Barbershop implements this specification.    *)
(***************************************************************************)
EXTENDS Integers, Sequences

CONSTANTS
  Clients,   \* the client processes
  Nobody,    \* an empty chair
  seats,     \* chairs in the waiting room
  shaves     \* shaves every client wants

VARIABLES
  open,      \* the barber has furnished the waiting room
  waiting,   \* the clients in the waiting room, first come first
  chair,     \* the client called to the barber's chair, or Nobody
  shaven,    \* shaves each client got so far
  gone       \* the clients that left

vars == <<open, waiting, chair, shaven, gone>>

Room == open /\ Len(waiting) < seats

Outside(c) ==
  /\ c \notin gone
  /\ chair # c
  /\ \A i \in 1..Len(waiting) : waiting[i] # c

Init ==
  /\ open = FALSE
  /\ waiting = <<>>
  /\ chair = Nobody
  /\ shaven = [c \in Clients |-> 0]
  /\ gone = {}

Open ==
  /\ ~open
  /\ open' = TRUE
  /\ UNCHANGED <<waiting, chair, shaven, gone>>

(* A client comes in for its first shave and finds a free chair. *)
Arrive(c) ==
  /\ Outside(c) /\ Room
  /\ waiting' = Append(waiting, c)
  /\ UNCHANGED <<open, chair, shaven, gone>>

(* A client finds no free chair when it arrives. *)
TurnAway(c) ==
  /\ Outside(c) /\ ~Room
  /\ gone' = gone \cup {c}
  /\ UNCHANGED <<open, waiting, chair, shaven>>

(* The barber calls the client that has waited longest. *)
Call ==
  /\ chair = Nobody
  /\ waiting # <<>>
  /\ chair' = Head(waiting)
  /\ waiting' = Tail(waiting)
  /\ UNCHANGED <<open, shaven, gone>>

(* The client gets up, shaven; it queues again or it leaves. *)
GetUp(c) ==
  /\ chair = c
  /\ chair' = Nobody
  /\ shaven' = [shaven EXCEPT ![c] = @ + 1]
  /\ \/ /\ shaven'[c] < shaves /\ Room
        /\ waiting' = Append(waiting, c)
        /\ UNCHANGED gone
     \/ /\ shaven'[c] = shaves \/ ~Room
        /\ gone' = gone \cup {c}
        /\ UNCHANGED waiting
  /\ UNCHANGED open

Next ==
  \/ Open \/ Call
  \/ \E c \in Clients : Arrive(c) \/ TurnAway(c) \/ GetUp(c)

Spec == Init /\ [][Next]_vars
===============================================================================
