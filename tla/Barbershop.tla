------------------------------ MODULE Barbershop ------------------------------
(***************************************************************************)
(* The barbershop of lab6_semaphores_shared_mem (POSIX variant): one       *)
(* barber process and a set of client processes that share a status word,  *)
(* the pid in the chair and an array used as a queue, all read and written *)
(* between sem_take and sem_return of one semaphore.  Nobody blocks on the *)
(* status: every process polls it, taking the semaphore again each time.   *)
(*                                                                         *)
(* A critical section is two steps, sem_take and then its body with the    *)
(* sem_return, so a signal can end a process that holds the semaphore.     *)
(* init_barbershop writes the shared memory without the semaphore.         *)
(***************************************************************************)
EXTENDS Integers

CONSTANTS
  Clients,       \* the processes client_spawner forks
  Barber,        \* the barber process
  Nobody,        \* pid 0: an unused queue entry, the chair before any invitation
  NoPid,         \* pid -1: what dequeue returns for an empty queue
  MAX_CLIENTS,   \* length of the shared array q
  seats,         \* the barber's argument: chairs in the waiting room
  shaves,        \* the spawner's argument: shaves every client wants
  Mortal         \* the processes a signal may end

Procs == Clients \cup {Barber}

ASSUME ConstantsAssumption ==
  /\ Barber \notin Clients
  /\ Nobody \notin Clients /\ NoPid \notin Clients /\ Nobody # NoPid
  /\ MAX_CLIENTS \in Nat
  /\ seats \in Int /\ seats <= MAX_CLIENTS     \* checked by the barber's main
  /\ shaves \in Nat \ {0}
  /\ Mortal \subseteq Procs

VARIABLES
  status, total_clients, waiting_room_size, curr_client, q,   \* struct barbershop
  sem,                                                        \* the semaphore
  holders,         \* processes between sem_take and sem_return, dead ones too
  pc,              \* where each process is when it next takes the semaphore
  client_status, first_shave, curr_shave,                     \* of each client
  given            \* history: calls of shave with the client in the chair

shop == <<status, total_clients, waiting_room_size, curr_client, q>>
client_vars == <<client_status, first_shave, curr_shave>>
vars == <<shop, sem, holders, pc, client_vars, given>>

Statuses == {"SLEEPING", "WOKEN_UP", "INVITING",
             "START_SHAVING", "END_SHAVING", "FREE"}

-------------------------------------------------------------------------------
(* common.h: the queue and the semaphore *)

q_empty == total_clients = 0

(* mutant: one client more than there are chairs *)
q_full_off_by_one == total_clients > waiting_room_size

q_full == total_clients >= waiting_room_size

enqueue(c) ==
  /\ q' = IF q_full THEN q ELSE [q EXCEPT ![total_clients] = c]
  /\ total_clients' = IF q_full THEN total_clients ELSE total_clients + 1

(* mutant: the client that came last is served first *)
dequeue_last ==
  LET last == total_clients - 1 IN
  /\ curr_client' = IF q_empty THEN NoPid ELSE q[last]
  /\ q' = [i \in 0..MAX_CLIENTS-1 |-> IF i = last THEN Nobody ELSE q[i]]
  /\ total_clients' = IF q_empty THEN 0 ELSE last

(* The client at the front goes to the chair, the others move up one place. *)
dequeue ==
  LET last == total_clients - 1 IN
  /\ curr_client' = IF q_empty THEN NoPid ELSE q[0]
  /\ q' = [i \in 0..MAX_CLIENTS-1 |->
             IF i < last THEN q[i+1] ELSE IF i = last THEN Nobody ELSE q[i]]
  /\ total_clients' = IF q_empty THEN 0 ELSE last

sem_take(p) ==
  /\ sem > 0
  /\ sem' = sem - 1
  /\ holders' = holders \cup {p}

sem_return(p) ==
  /\ sem' = sem + 1
  /\ holders' = holders \ {p}

-------------------------------------------------------------------------------
(* barber.c *)

(* Runs while early clients may already poll: the fresh segment is all     *)
(* zeroes, so until waiting_room_size is written every client finds it     *)
(* full and the other fields keep the values that are written again here.  *)
init_barbershop ==
  /\ pc[Barber] = "init"
  /\ status' = "SLEEPING"
  /\ total_clients' = 0
  /\ curr_client' = Nobody
  /\ waiting_room_size' = seats
  /\ pc' = [pc EXCEPT ![Barber] = "loop"]
  /\ UNCHANGED <<q, sem, holders, client_vars, given>>

BarberTake ==
  /\ pc[Barber] = "loop" /\ Barber \notin holders
  /\ sem_take(Barber)
  /\ UNCHANGED <<shop, pc, client_vars, given>>

invite_client ==
  /\ status' = "INVITING"
  /\ dequeue
  /\ UNCHANGED given

shave ==
  /\ status' = "END_SHAVING"
  /\ given' = [given EXCEPT ![curr_client] = @ + 1]
  /\ UNCHANGED <<curr_client, total_clients, q>>

fall_asleep ==
  /\ status' = "SLEEPING"
  /\ UNCHANGED <<curr_client, total_clients, q, given>>

(* One turn of the barber's loop, up to sem_return. *)
BarberTurn ==
  /\ pc[Barber] = "loop" /\ Barber \in holders
  /\ \/ status = "WOKEN_UP" /\ invite_client
     \/ status = "START_SHAVING" /\ shave
     \/ status = "FREE" /\ ~q_empty /\ invite_client
     \/ status = "FREE" /\ q_empty /\ fall_asleep
     \/ /\ status \in {"SLEEPING", "INVITING", "END_SHAVING"}
        /\ UNCHANGED <<status, curr_client, total_clients, q, given>>
  /\ sem_return(Barber)
  /\ UNCHANGED <<waiting_room_size, pc, client_vars>>

(* SIGINT or SIGTERM: exit, then clean_up.  sem_close returns nothing to   *)
(* the semaphore, and the clients keep their mapping of the segment.       *)
sig_handler ==
  /\ Barber \in Mortal
  /\ pc[Barber] # "exited"
  /\ pc' = [pc EXCEPT ![Barber] = "exited"]
  /\ UNCHANGED <<shop, sem, holders, client_vars, given>>

-------------------------------------------------------------------------------
(* client_spawner.c: arrive_at_barbershop.  pc is "arrive" at the head of  *)
(* the for loop, "invite" and "shave" in its two polling loops.            *)

ClientTake(c) ==
  /\ pc[c] \in {"arrive", "invite", "shave"} /\ c \notin holders
  /\ sem_take(c)
  /\ UNCHANGED <<shop, pc, client_vars, given>>

Holding(c, place) == pc[c] = place /\ c \in holders

(* mutant: one chair is never used *)
TurnedAway_early(c) ==
  client_status[c] = "WAITING" /\ total_clients >= waiting_room_size - 1

TurnedAway(c) == client_status[c] = "WAITING" /\ q_full

(* mutant: a client queues for every shave here, not only for the first *)
JoinQueue_always(c) ==
  /\ status' = IF status = "SLEEPING" THEN "WOKEN_UP" ELSE status
  /\ enqueue(c)

(* Wake the barber if it sleeps; queue for the first shave. *)
JoinQueue(c) ==
  /\ status' = IF status = "SLEEPING" THEN "WOKEN_UP" ELSE status
  /\ IF status = "SLEEPING" \/ first_shave[c]
     THEN enqueue(c) ELSE UNCHANGED <<q, total_clients>>

Enter(c) ==
  /\ Holding(c, "arrive")
  /\ \/ /\ TurnedAway(c)
        /\ pc' = [pc EXCEPT ![c] = "left"]
        /\ UNCHANGED <<status, total_clients, q>>
     \/ /\ ~TurnedAway(c)
        /\ JoinQueue(c)
        /\ pc' = [pc EXCEPT ![c] = "invite"]
  /\ sem_return(c)
  /\ UNCHANGED <<waiting_room_size, curr_client, client_vars, given>>

(* mutant: any client that polls sits down, invited or not *)
is_invited_anyone(c) == status = "INVITING"

is_invited(c) == status = "INVITING" /\ curr_client = c

(* One poll of the loop that waits for the invitation. *)
SitDown(c) ==
  /\ Holding(c, "invite")
  /\ \/ /\ is_invited(c)
        /\ client_status' = [client_status EXCEPT ![c] = "INVITED"]
        /\ status' = "START_SHAVING"
        /\ pc' = [pc EXCEPT ![c] = "shave"]
     \/ ~is_invited(c) /\ UNCHANGED <<client_status, status, pc>>
  /\ sem_return(c)
  /\ UNCHANGED <<total_clients, waiting_room_size, curr_client, q,
                 first_shave, curr_shave, given>>

is_shaven(c) == status = "END_SHAVING" /\ curr_client = c

(* mutants: the client gets up without freeing the chair; it comes back    *)
(* for the next shave without having queued                                *)
Requeue_keep_chair(c) ==
  /\ UNCHANGED status
  /\ enqueue(c)
Requeue_skipped(c) ==
  /\ status' = "FREE"
  /\ UNCHANGED <<q, total_clients>>

(* The client that wants another shave queues in the critical section in   *)
(* which it frees the chair.                                               *)
Requeue(c) ==
  /\ status' = "FREE"
  /\ enqueue(c)

GetUp(c) ==
  /\ client_status' = [client_status EXCEPT ![c] = "SHAVEN"]
  /\ \/ /\ curr_shave[c] < shaves /\ ~q_full          \* go round the for loop
        /\ Requeue(c)
        /\ first_shave' = [first_shave EXCEPT ![c] = FALSE]
        /\ curr_shave' = [curr_shave EXCEPT ![c] = @ + 1]
        /\ pc' = [pc EXCEPT ![c] = "arrive"]
     \/ /\ curr_shave[c] < shaves /\ q_full           \* return, no free chair
        /\ status' = "FREE"
        /\ pc' = [pc EXCEPT ![c] = "left"]
        /\ UNCHANGED <<q, total_clients, first_shave, curr_shave>>
     \/ /\ curr_shave[c] >= shaves                    \* the for loop ends
        /\ status' = "FREE"
        /\ first_shave' = [first_shave EXCEPT ![c] = FALSE]
        /\ curr_shave' = [curr_shave EXCEPT ![c] = @ + 1]
        /\ pc' = [pc EXCEPT ![c] = "left"]
        /\ UNCHANGED <<q, total_clients>>

(* One poll of the loop that waits for the end of the shave. *)
PollShaven(c) ==
  /\ Holding(c, "shave")
  /\ \/ is_shaven(c) /\ GetUp(c)
     \/ /\ ~is_shaven(c)
        /\ UNCHANGED <<status, total_clients, q, pc, client_vars>>
  /\ sem_return(c)
  /\ UNCHANGED <<waiting_room_size, curr_client, given>>

(* SIGINT's default action: client_spawner installs no handler. *)
ClientKilled(c) ==
  /\ c \in Mortal
  /\ pc[c] \in {"arrive", "invite", "shave"}
  /\ pc' = [pc EXCEPT ![c] = "killed"]
  /\ UNCHANGED <<shop, sem, holders, client_vars, given>>
-------------------------------------------------------------------------------
(* The segment as ftruncate leaves it and the clients just forked. *)
InitShop ==
  /\ status = "SLEEPING"
  /\ total_clients = 0
  /\ waiting_room_size = 0
  /\ curr_client = Nobody
  /\ q = [i \in 0..MAX_CLIENTS-1 |-> Nobody]
  /\ holders = {}
  /\ pc = [p \in Procs |-> IF p = Barber THEN "init" ELSE "arrive"]
  /\ client_status = [c \in Clients |-> "WAITING"]
  /\ first_shave = [c \in Clients |-> TRUE]
  /\ curr_shave = [c \in Clients |-> 1]
  /\ given = [c \in Clients |-> 0]

(* The semaphore is created with the value 1. *)
Init == InitShop /\ sem = 1

ClientTurn(c) == Enter(c) \/ SitDown(c) \/ PollShaven(c)

Next ==
  \/ init_barbershop \/ BarberTake \/ BarberTurn \/ sig_handler
  \/ \E c \in Clients : ClientTake(c) \/ ClientTurn(c) \/ ClientKilled(c)

Spec == Init /\ [][Next]_vars

(* Every process keeps running, and one that keeps waiting on a semaphore  *)
(* that is returned again and again gets it in the end.                    *)
Fairness ==
  /\ WF_vars(init_barbershop)
  /\ SF_vars(BarberTake) /\ WF_vars(BarberTurn)
  /\ \A c \in Clients : SF_vars(ClientTake(c)) /\ WF_vars(ClientTurn(c))

FairSpec == Spec /\ Fairness

-------------------------------------------------------------------------------
(* Correctness *)

(* Types of the shared segment, the semaphore and the processes' locals:    *)
(* the queue never grows beyond the waiting room, nor beyond the array.    *)
TypeOK ==
  /\ status \in Statuses
  /\ total_clients \in 0..MAX_CLIENTS
  /\ total_clients > 0 => total_clients <= waiting_room_size
  /\ waiting_room_size \in {0, seats}
  /\ curr_client \in Clients \cup {Nobody}
  /\ q \in [0..MAX_CLIENTS-1 -> Clients \cup {Nobody}]
  /\ sem \in {0, 1}
  /\ holders \subseteq Procs
  /\ pc \in [Procs -> {"init", "loop", "exited",
                       "arrive", "invite", "shave", "left", "killed"}]
  /\ client_status \in [Clients -> {"WAITING", "INVITED", "SHAVEN"}]
  /\ first_shave \in [Clients -> BOOLEAN]
  /\ curr_shave \in [Clients -> 1..shaves+1]
  /\ given \in [Clients -> 0..shaves]

Queued(c) == \E i \in 0..total_clients-1 : q[i] = c

InChair(c) ==
  curr_client = c /\ status \in {"INVITING", "START_SHAVING", "END_SHAVING"}

(* The clients that rely on being called: those polling for an invitation  *)
(* and those that queued again before going round the for loop.            *)
Waits(c) == pc[c] = "invite" \/ (pc[c] = "arrive" /\ ~first_shave[c])

(* client_spawner.c:52 queues only for the first shave, and enqueue drops  *)
(* a client silently when the room is full: still no client ever polls for *)
(* an invitation while neither the queue nor the barber knows of it.       *)
NobodyForgotten == \A c \in Clients : Waits(c) => Queued(c) \/ InChair(c)

(* A client is in at most one place of the shop, once: no pid is twice in  *)
(* the queue (a second visit that woke the barber would queue again), and  *)
(* the one in the chair is not queued as well.                             *)
OnePlacePerClient ==
  /\ \A i, j \in 0..total_clients-1 : q[i] = q[j] => i = j
  /\ \A c \in Clients : Queued(c) => ~InChair(c)

(* barber.c:34-36 invites without testing the queue: a barber that was     *)
(* woken up always finds somebody to invite, and one that sleeps leaves    *)
(* nobody waiting.                                                         *)
BarberHasReason ==
  /\ status = "WOKEN_UP" => total_clients > 0
  /\ status = "SLEEPING" => \A c \in Clients : ~Waits(c)

(* Shaves the client counts as received. *)
Received(c) ==
  IF pc[c] = "left" /\ client_status[c] = "SHAVEN" /\ curr_shave[c] <= shaves
  THEN curr_shave[c] ELSE curr_shave[c] - 1

(* The barber's and the clients' view of the shaves agree, although they   *)
(* never meet in one critical section: what the barber gave a client is    *)
(* what the client received, plus the one it has not got up from yet.      *)
ShavesAgree ==
  \A c \in Clients :
    given[c] = Received(c)
               + (IF status = "END_SHAVING" /\ curr_client = c THEN 1 ELSE 0)

(* A client that leaves early was refused a chair: it got fewer shaves     *)
(* than it wanted only in a step in which the waiting room was full.       *)
LeavesEarlyOnlyWhenFull ==
  [][\A c \in Clients :
       pc[c] # "left" /\ pc'[c] = "left" /\ given'[c] < shaves => q_full]_vars

Killed == \E p \in Procs : pc[p] \in {"killed", "exited"}

(* Unless somebody is killed, every client gets through the shop and goes  *)
(* home.                                                                   *)
EveryClientLeaves == \A c \in Clients : <>(pc[c] = "left" \/ Killed)

(* The abstract barbershop that the polling implements. *)
Abstract == INSTANCE SleepingBarber WITH
  open    <- pc[Barber] # "init" /\ waiting_room_size = seats,
  waiting <- [i \in 1..total_clients |-> q[i-1]],
  chair   <- IF \E c \in Clients : InChair(c) THEN curr_client ELSE Nobody,
  shaven  <- [c \in Clients |-> Received(c)],
  gone    <- {c \in Clients : pc[c] = "left"}

(* First come, first served, one chair, no shave lost: every step of the   *)
(* polling processes is a step of the abstract barbershop or none.         *)
ImplementsSleepingBarber == Abstract!Spec
===============================================================================
