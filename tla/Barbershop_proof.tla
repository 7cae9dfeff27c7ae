--------------------------- MODULE Barbershop_proof ---------------------------
(***************************************************************************)
(* Proofs about Barbershop and both BarbershopVariants for any set of      *)
(* clients, any number of seats and shaves and any set of mortal           *)
(* processes.  IInv is the inductive invariant: what each process knows of *)
(* the shared segment from the place where it polls.  The refinement of    *)
(* SleepingBarber comes last.                                              *)
(***************************************************************************)
EXTENDS BarbershopVariants, SequenceTheorems, TLAPS

(* The semaphore is free, or one process holds it (or died holding it), or *)
(* the System V barber has not returned it for the first time.             *)
SemInv ==
  \/ sem = 1 /\ holders = {}
  \/ sem = 0 /\ (holders = {} \/ \E p \in Procs : holders = {p})

(* A process that a signal or the removal of the semaphore has ended. *)
Dead == {"killed", "exited"}
USE DEF Dead

(* Before init_barbershop the segment is as it was created: nothing that   *)
(* an early client does has changed it.                                    *)
InitInv ==
  pc[Barber] = "init" =>
    /\ status = "SLEEPING" /\ total_clients = 0 /\ waiting_room_size = 0
    /\ curr_client = Nobody

(* The places of the program each process can be at, and the values its    *)
(* locals have there.                                                      *)
LocalInv ==
  /\ pc[Barber] \in {"init", "loop", "exited"}
  /\ \A c \in Clients :
       /\ pc[c] \in {"arrive", "invite", "shave", "left"} \cup Dead
       /\ pc[c] = "arrive" /\ first_shave[c] => client_status[c] = "WAITING"
       /\ pc[c] = "arrive" /\ ~first_shave[c] => client_status[c] = "SHAVEN"
       /\ pc[c] # "left" => curr_shave[c] <= shaves

(* A client that is, or died while, relying on being called. *)
MayBeCalled(c) == Waits(c) \/ pc[c] \in Dead

ChairInv ==
  /\ status = "INVITING" => curr_client \in Clients /\ MayBeCalled(curr_client)
  /\ status \in {"START_SHAVING", "END_SHAVING"} =>
       curr_client \in Clients /\ pc[curr_client] \in {"shave"} \cup Dead
  /\ \A c \in Clients :
       pc[c] = "shave" =>
         curr_client = c /\ status \in {"START_SHAVING", "END_SHAVING"}

QueueInv ==
  /\ status = "SLEEPING" => total_clients = 0
  /\ status = "WOKEN_UP" => total_clients > 0
  /\ \A i \in 0..total_clients-1 : q[i] \in Clients /\ MayBeCalled(q[i])

IInv ==
  /\ TypeOK /\ SemInv /\ InitInv /\ LocalInv /\ ChairInv /\ QueueInv
  /\ NobodyForgotten /\ OnePlacePerClient /\ ShavesAgree

-------------------------------------------------------------------------------
(* The shared array as a queue: what enqueue adds and dequeue removes. *)

LEMMA EnqueueAdds ==
  ASSUME TypeOK, NEW c \in Clients, ~q_full, enqueue(c)
  PROVE  /\ total_clients' = total_clients + 1
         /\ total_clients < MAX_CLIENTS /\ total_clients < waiting_room_size
         /\ q' \in [0..MAX_CLIENTS-1 -> Clients \cup {Nobody}]
         /\ q'[total_clients] = c
         /\ \A i \in 0..total_clients-1 : q'[i] = q[i]
         /\ \A x : Queued(x)' <=> Queued(x) \/ x = c
<1>1. /\ total_clients' = total_clients + 1
      /\ total_clients < MAX_CLIENTS /\ total_clients < waiting_room_size
      /\ total_clients \in Nat
  BY ConstantsAssumption DEF TypeOK, q_full, enqueue
<1>2. q' = [q EXCEPT ![total_clients] = c]
  BY DEF enqueue
<1>3. /\ q' \in [0..MAX_CLIENTS-1 -> Clients \cup {Nobody}]
      /\ q'[total_clients] = c
      /\ \A i \in 0..total_clients-1 : q'[i] = q[i]
  BY <1>1, <1>2, ConstantsAssumption DEF TypeOK
<1>4. \A i : i \in (0..total_clients-1)' <=> i \in 0..total_clients-1 \/ i = total_clients
  BY <1>1
<1>5. \A x : Queued(x)' <=> Queued(x) \/ x = c
  BY <1>1, <1>3, <1>4 DEF Queued
<1> QED BY <1>1, <1>3, <1>5

LEMMA DequeueRemoves ==
  ASSUME TypeOK, OnePlacePerClient, ~q_empty, dequeue
  PROVE  /\ curr_client' = q[0] /\ total_clients' = total_clients - 1
         /\ total_clients' \in Nat
         /\ q' \in [0..MAX_CLIENTS-1 -> Clients \cup {Nobody}]
         /\ \A i \in 0..total_clients-2 : q'[i] = q[i+1]
         /\ \A x : Queued(x)' <=> Queued(x) /\ x # q[0]
<1>1. /\ curr_client' = q[0] /\ total_clients' = total_clients - 1
      /\ total_clients \in Nat \ {0} /\ total_clients <= MAX_CLIENTS
  BY DEF TypeOK, q_empty, dequeue
<1>2. q' = [i \in 0..MAX_CLIENTS-1 |->
              IF i < total_clients - 1 THEN q[i+1]
              ELSE IF i = total_clients - 1 THEN Nobody ELSE q[i]]
  BY DEF dequeue
<1>3. q' \in [0..MAX_CLIENTS-1 -> Clients \cup {Nobody}]
  BY <1>1, <1>2, ConstantsAssumption DEF TypeOK
<1>4. \A i \in 0..total_clients-2 : q'[i] = q[i+1]
  BY <1>1, <1>2, ConstantsAssumption
<1>5. ASSUME NEW x, Queued(x)' PROVE Queued(x) /\ x # q[0]
  <2>1. PICK i \in 0..total_clients-2 : q'[i] = x
    BY <1>1, <1>5 DEF Queued
  <2>2. i+1 \in 0..total_clients-1 /\ 0 \in 0..total_clients-1 /\ q[i+1] = x
    BY <1>1, <1>4, <2>1
  <2> QED BY <2>2 DEF Queued, OnePlacePerClient
<1>6. ASSUME NEW x, Queued(x), x # q[0] PROVE Queued(x)'
  <2>1. PICK i \in 0..total_clients-1 : q[i] = x
    BY <1>6 DEF Queued
  <2>2. i-1 \in 0..total_clients-2 /\ q'[i-1] = x
    BY <1>1, <1>4, <1>6, <2>1
  <2> QED BY <1>1, <2>2 DEF Queued
<1> QED BY <1>1, <1>3, <1>4, <1>5, <1>6

(* The semaphore: taking it and returning it keep SemInv. *)
LEMMA SemTakeSafe ==
  ASSUME SemInv, NEW p \in Procs, sem_take(p)
  PROVE  SemInv' /\ sem' \in {0, 1} /\ holders' \subseteq Procs
BY DEF SemInv, sem_take

LEMMA SemReturnSafe ==
  ASSUME SemInv, NEW p \in holders, sem_return(p)
  PROVE  SemInv' /\ sem' \in {0, 1} /\ holders' \subseteq Procs
BY DEF SemInv, sem_return

-------------------------------------------------------------------------------
(* One lemma per action: it preserves the inductive invariant. *)

LEMMA InitEstablishes ==
  ASSUME InitShop, sem \in {0, 1}
  PROVE  IInv
<1>1. TypeOK
  BY ConstantsAssumption DEF InitShop, TypeOK, Statuses, Procs
<1>2. SemInv /\ InitInv /\ ChairInv /\ QueueInv
  BY ConstantsAssumption DEF InitShop, SemInv, InitInv, ChairInv, QueueInv, Procs
<1>3. LocalInv
  BY ConstantsAssumption DEF InitShop, LocalInv, Procs
<1>4. NobodyForgotten /\ OnePlacePerClient
  BY ConstantsAssumption
  DEF InitShop, NobodyForgotten, OnePlacePerClient, Waits, Queued, Procs
<1>5. ShavesAgree
  <2> SUFFICES ASSUME NEW c \in Clients
      PROVE given[c] = Received(c)
              + (IF status = "END_SHAVING" /\ curr_client = c THEN 1 ELSE 0)
    BY DEF ShavesAgree
  <2>1. pc[c] = "arrive" /\ curr_shave[c] = 1 /\ given[c] = 0
    BY ConstantsAssumption DEF InitShop, Procs
  <2>2. Received(c) = 0
    BY <2>1 DEF Received
  <2>3. status # "END_SHAVING"
    BY DEF InitShop
  <2> QED BY <2>1, <2>2, <2>3
<1> QED BY <1>1, <1>2, <1>3, <1>4, <1>5 DEF IInv

(* Taking the semaphore changes nothing else. *)
LEMMA TakePreserves ==
  ASSUME IInv, NEW p \in Procs, sem_take(p),
         UNCHANGED <<shop, pc, client_vars, given>>
  PROVE  IInv'
<1>1. SemInv' /\ sem' \in {0, 1} /\ holders' \subseteq Procs
  BY SemTakeSafe DEF IInv
<1>2. UNCHANGED <<status, total_clients, waiting_room_size, curr_client, q, pc,
                  client_status, first_shave, curr_shave, given>>
  BY DEF shop, client_vars
<1>3. TypeOK'
  BY <1>1, <1>2 DEF IInv, TypeOK
<1>4. InitInv' /\ LocalInv' /\ ChairInv' /\ QueueInv'
  BY <1>2 DEF IInv, InitInv, LocalInv, ChairInv, QueueInv, MayBeCalled, Waits
<1>5. NobodyForgotten' /\ OnePlacePerClient' /\ ShavesAgree'
  BY <1>2 DEF IInv, NobodyForgotten, OnePlacePerClient, ShavesAgree,
              Waits, Queued, InChair, Received
<1> QED BY <1>1, <1>3, <1>4, <1>5 DEF IInv

(* init_barbershop needs no semaphore: nobody has changed anything yet. *)
LEMMA InitBarbershopPreserves == IInv /\ init_barbershop => IInv'
<1> SUFFICES ASSUME IInv, init_barbershop PROVE IInv'
  OBVIOUS
<1>1. UNCHANGED <<status, total_clients, curr_client, q, sem, holders,
                  client_status, first_shave, curr_shave, given>>
  BY DEF IInv, InitInv, init_barbershop, client_vars
<1>2. /\ total_clients = 0 /\ status = "SLEEPING" /\ waiting_room_size' = seats
      /\ pc' = [pc EXCEPT ![Barber] = "loop"]
  BY DEF IInv, InitInv, init_barbershop
<1>3. \A c \in Clients : pc'[c] = pc[c]
  BY <1>2, ConstantsAssumption DEF IInv, TypeOK, Procs
<1>4. pc'[Barber] = "loop"
  BY <1>2 DEF IInv, TypeOK, Procs
<1>5. TypeOK'
  <2>1. /\ waiting_room_size' \in {0, seats}
        /\ total_clients' > 0 => total_clients' <= waiting_room_size'
    BY <1>1, <1>2
  <2>2. pc' \in [Procs -> {"init", "loop", "exited",
                          "arrive", "invite", "shave", "left", "killed"}]
    BY <1>2 DEF IInv, TypeOK
  <2> QED BY <1>1, <2>1, <2>2 DEF IInv, TypeOK
<1>6. SemInv' /\ InitInv' /\ LocalInv' /\ ChairInv' /\ QueueInv'
  BY <1>1, <1>2, <1>3, <1>4
  DEF IInv, SemInv, InitInv, LocalInv, ChairInv, QueueInv
<1>7. NobodyForgotten' /\ OnePlacePerClient' /\ ShavesAgree'
  BY <1>1, <1>3 DEF IInv, NobodyForgotten, OnePlacePerClient, ShavesAgree,
                    Waits, Queued, InChair, Received
<1> QED BY <1>5, <1>6, <1>7 DEF IInv

(* The end of a process, wherever it is: what the others know still holds. *)
LEMMA DeathPreserves ==
  ASSUME IInv, NEW p \in Procs, NEW dead \in Dead,
         p = Barber => dead = "exited",
         pc[p] # "left",
         pc' = [pc EXCEPT ![p] = dead],
         UNCHANGED <<shop, sem, holders, client_vars, given>>
  PROVE  IInv'
<1>1. UNCHANGED <<status, total_clients, waiting_room_size, curr_client, q, sem,
                  holders, client_status, first_shave, curr_shave, given>>
  BY DEF shop, client_vars
<1>2. \A c \in Clients : pc'[c] = pc[c] \/ (pc'[c] \in Dead /\ pc[c] # "left")
  BY ConstantsAssumption DEF IInv, TypeOK, Procs
<1>3. pc'[Barber] \in {pc[Barber], "exited"}
  BY ConstantsAssumption DEF IInv, TypeOK, Procs
<1>4. TypeOK'
  BY <1>1 DEF IInv, TypeOK
<1>5. SemInv' /\ InitInv' /\ LocalInv'
  BY <1>1, <1>2, <1>3 DEF IInv, SemInv, InitInv, LocalInv
<1>6. \A c \in Clients : MayBeCalled(c) => MayBeCalled(c)'
  BY <1>1, <1>2 DEF MayBeCalled, Waits
<1>7. ChairInv' /\ QueueInv'
  BY <1>1, <1>2, <1>6 DEF IInv, ChairInv, QueueInv
<1>8. NobodyForgotten' /\ OnePlacePerClient'
  BY <1>1, <1>2
  DEF IInv, NobodyForgotten, OnePlacePerClient, Waits, Queued, InChair
<1>9. ShavesAgree'
  BY <1>1, <1>2 DEF IInv, ShavesAgree, Received
<1> QED BY <1>4, <1>5, <1>7, <1>8, <1>9 DEF IInv

(* The barber calls the client at the front: it moves from the queue to    *)
(* the chair, the other queued clients stay queued.                        *)
LEMMA InvitePreserves ==
  ASSUME IInv, status \in {"WOKEN_UP", "FREE"}, ~q_empty, invite_client,
         pc[Barber] = "loop", Barber \in holders, sem_return(Barber),
         UNCHANGED <<waiting_room_size, pc, client_vars>>
  PROVE  IInv'
<1>1. /\ curr_client' = q[0] /\ total_clients' = total_clients - 1
      /\ total_clients' \in Nat
      /\ q' \in [0..MAX_CLIENTS-1 -> Clients \cup {Nobody}]
      /\ \A i \in 0..total_clients-2 : q'[i] = q[i+1]
      /\ \A x : Queued(x)' <=> Queued(x) /\ x # q[0]
  BY DequeueRemoves DEF IInv, invite_client
<1>2. /\ total_clients \in Nat \ {0} /\ total_clients <= MAX_CLIENTS
      /\ total_clients' \in 0..MAX_CLIENTS
      /\ total_clients' <= waiting_room_size
      /\ MAX_CLIENTS \in Nat /\ waiting_room_size \in Int
  BY <1>1, ConstantsAssumption DEF IInv, TypeOK, q_empty
<1>3. /\ status' = "INVITING"
      /\ UNCHANGED <<waiting_room_size, pc, client_status, first_shave,
                     curr_shave, given>>
  BY DEF invite_client, client_vars
<1>4. q[0] \in Clients /\ MayBeCalled(q[0])
  BY <1>2 DEF IInv, QueueInv
<1>5. SemInv' /\ sem' \in {0, 1} /\ holders' \subseteq Procs
  BY SemReturnSafe DEF IInv
<1>6. TypeOK'
  BY <1>1, <1>2, <1>3, <1>4, <1>5 DEF IInv, TypeOK, Statuses
<1>7. InitInv' /\ LocalInv'
  BY <1>3 DEF IInv, InitInv, LocalInv
<1>8. ChairInv'
  BY <1>1, <1>3, <1>4 DEF IInv, ChairInv, MayBeCalled, Waits
<1>9. QueueInv'
  <2>1. \A i \in 0..total_clients-2 : i+1 \in 0..total_clients-1
    BY <1>2
  <2>2. \A i \in 0..total_clients'-1 :
           q'[i] = q[i+1] /\ i+1 \in 0..total_clients-1
    BY <1>1, <1>2, <2>1
  <2> QED BY <1>3, <2>2 DEF IInv, QueueInv, MayBeCalled, Waits
<1>10. NobodyForgotten'
  BY <1>1, <1>3 DEF IInv, NobodyForgotten, Waits, InChair
<1>11. OnePlacePerClient'
  <2>1. \A i, j \in 0..total_clients'-1 : q'[i] = q'[j] => i = j
    BY <1>1, <1>2 DEF IInv, OnePlacePerClient
  <2>2. \A c \in Clients : Queued(c)' => ~InChair(c)'
    BY <1>1 DEF InChair
  <2> QED BY <2>1, <2>2 DEF OnePlacePerClient
<1>12. ShavesAgree'
  <2>1. \A c \in Clients : Received(c)' = Received(c) /\ given'[c] = given[c]
    BY <1>3 DEF Received
  <2> QED BY <1>3, <2>1 DEF IInv, ShavesAgree
<1> QED BY <1>5, <1>6, <1>7, <1>8, <1>9, <1>10, <1>11, <1>12 DEF IInv

(* The barber shaves the client that sits in the chair. *)
LEMMA ShavePreserves ==
  ASSUME IInv, status = "START_SHAVING", shave,
         pc[Barber] = "loop", Barber \in holders, sem_return(Barber),
         UNCHANGED <<waiting_room_size, pc, client_vars>>
  PROVE  IInv'
<1>1. /\ status' = "END_SHAVING"
      /\ UNCHANGED <<curr_client, total_clients, q, waiting_room_size, pc,
                     client_status, first_shave, curr_shave>>
  BY DEF shave, client_vars
<1>2. /\ curr_client \in Clients /\ pc[curr_client] # "left"
      /\ curr_shave[curr_client] <= shaves
  BY DEF IInv, ChairInv, LocalInv
<1>3. /\ given' = [given EXCEPT ![curr_client] = given[curr_client] + 1]
      /\ given[curr_client] = curr_shave[curr_client] - 1
  <2>1. Received(curr_client) = curr_shave[curr_client] - 1
    BY <1>2 DEF Received
  <2>2. given[curr_client] = Received(curr_client) + 0
    BY <1>2 DEF IInv, ShavesAgree
  <2> QED BY <1>2, <2>1, <2>2 DEF IInv, TypeOK, shave
<1>4. given' \in [Clients -> 0..shaves]
  BY <1>2, <1>3, ConstantsAssumption DEF IInv, TypeOK
<1>5. SemInv' /\ sem' \in {0, 1} /\ holders' \subseteq Procs
  BY SemReturnSafe DEF IInv
<1>6. TypeOK'
  BY <1>1, <1>4, <1>5 DEF IInv, TypeOK, Statuses
<1>7. InitInv' /\ LocalInv' /\ ChairInv' /\ QueueInv'
  BY <1>1 DEF IInv, InitInv, LocalInv, ChairInv, QueueInv, MayBeCalled, Waits
<1>8. NobodyForgotten' /\ OnePlacePerClient'
  BY <1>1
  DEF IInv, NobodyForgotten, OnePlacePerClient, Waits, Queued, InChair
<1>9. ShavesAgree'
  <2> SUFFICES ASSUME NEW c \in Clients
      PROVE given'[c] = Received(c)'
              + (IF status' = "END_SHAVING" /\ curr_client' = c THEN 1 ELSE 0)
    BY DEF ShavesAgree
  <2>1. Received(c)' = Received(c) /\ Received(c) \in Int
    BY <1>1 DEF IInv, TypeOK, Received
  <2>2. given[c] = Received(c) + 0
    BY DEF IInv, ShavesAgree
  <2>3. given'[c] = IF c = curr_client THEN given[c] + 1 ELSE given[c]
    BY <1>3 DEF IInv, TypeOK
  <2> QED BY <1>1, <2>1, <2>2, <2>3
<1> QED BY <1>5, <1>6, <1>7, <1>8, <1>9 DEF IInv

(* Nobody waits when the barber falls asleep. *)
LEMMA FallAsleepPreserves ==
  ASSUME IInv, status = "FREE", q_empty, fall_asleep,
         pc[Barber] = "loop", Barber \in holders, sem_return(Barber),
         UNCHANGED <<waiting_room_size, pc, client_vars>>
  PROVE  IInv'
<1>1. /\ status' = "SLEEPING" /\ total_clients = 0
      /\ UNCHANGED <<curr_client, total_clients, q, waiting_room_size, pc,
                     client_status, first_shave, curr_shave, given>>
  BY DEF fall_asleep, client_vars, q_empty
<1>2. SemInv' /\ sem' \in {0, 1} /\ holders' \subseteq Procs
  BY SemReturnSafe DEF IInv
<1>3. TypeOK'
  BY <1>1, <1>2 DEF IInv, TypeOK, Statuses
<1>4. InitInv' /\ LocalInv' /\ ChairInv' /\ QueueInv'
  BY <1>1 DEF IInv, InitInv, LocalInv, ChairInv, QueueInv, MayBeCalled, Waits
<1>5. NobodyForgotten' /\ OnePlacePerClient'
  BY <1>1
  DEF IInv, NobodyForgotten, OnePlacePerClient, Waits, Queued, InChair
<1>6. ShavesAgree'
  <2>1. \A c \in Clients : Received(c)' = Received(c)
    BY <1>1 DEF Received
  <2> QED BY <1>1, <2>1 DEF IInv, ShavesAgree
<1> QED BY <1>2, <1>3, <1>4, <1>5, <1>6 DEF IInv

(* A critical section that changes nothing but the semaphore. *)
LEMMA IdlePreserves ==
  ASSUME IInv, NEW p \in holders, sem_return(p),
         UNCHANGED <<shop, pc, client_vars, given>>
  PROVE  IInv'
<1>1. SemInv' /\ sem' \in {0, 1} /\ holders' \subseteq Procs
  BY SemReturnSafe DEF IInv
<1>2. UNCHANGED <<status, total_clients, waiting_room_size, curr_client, q, pc,
                  client_status, first_shave, curr_shave, given>>
  BY DEF shop, client_vars
<1>3. TypeOK'
  BY <1>1, <1>2 DEF IInv, TypeOK
<1>4. InitInv' /\ LocalInv' /\ ChairInv' /\ QueueInv'
  BY <1>2 DEF IInv, InitInv, LocalInv, ChairInv, QueueInv, MayBeCalled, Waits
<1>5. NobodyForgotten' /\ OnePlacePerClient' /\ ShavesAgree'
  BY <1>2 DEF IInv, NobodyForgotten, OnePlacePerClient, ShavesAgree,
              Waits, Queued, InChair, Received
<1> QED BY <1>1, <1>3, <1>4, <1>5 DEF IInv

LEMMA BarberTurnPreserves == IInv /\ BarberTurn => IInv'
<1> SUFFICES ASSUME IInv, BarberTurn PROVE IInv'
  OBVIOUS
<1>1. /\ pc[Barber] = "loop" /\ Barber \in holders /\ sem_return(Barber)
      /\ UNCHANGED <<waiting_room_size, pc, client_vars>>
  BY DEF BarberTurn
<1>2. CASE status = "WOKEN_UP" /\ invite_client
  <2>1. ~q_empty
    BY <1>2 DEF IInv, QueueInv, q_empty, TypeOK
  <2> QED BY <1>1, <1>2, <2>1, InvitePreserves
<1>3. CASE status = "START_SHAVING" /\ shave
  BY <1>1, <1>3, ShavePreserves
<1>4. CASE status = "FREE" /\ ~q_empty /\ invite_client
  BY <1>1, <1>4, InvitePreserves
<1>5. CASE status = "FREE" /\ q_empty /\ fall_asleep
  BY <1>1, <1>5, FallAsleepPreserves
<1>6. CASE UNCHANGED <<status, curr_client, total_clients, q, given>>
  BY <1>1, <1>6, IdlePreserves DEF shop
<1> QED BY <1>2, <1>3, <1>4, <1>5, <1>6 DEF BarberTurn

(* A client that finds the room full leaves; it was in no place of the shop. *)
LEMMA TurnedAwayPreserves ==
  ASSUME IInv, NEW c \in Clients, Holding(c, "arrive"), TurnedAway(c),
         pc' = [pc EXCEPT ![c] = "left"], sem_return(c),
         UNCHANGED <<shop, client_vars, given>>
  PROVE  IInv'
<1>1. UNCHANGED <<status, total_clients, waiting_room_size, curr_client, q,
                  client_status, first_shave, curr_shave, given>>
  BY DEF shop, client_vars
<1>2. /\ pc[c] = "arrive" /\ first_shave[c] /\ client_status[c] = "WAITING"
      /\ c \in holders /\ ~MayBeCalled(c)
  BY DEF IInv, LocalInv, TypeOK, Holding, TurnedAway, MayBeCalled, Waits
<1>3. /\ \A d \in Clients : pc'[d] = IF d = c THEN "left" ELSE pc[d]
      /\ pc'[Barber] = pc[Barber]
      /\ pc' \in [Procs -> {"init", "loop", "exited",
                           "arrive", "invite", "shave", "left", "killed"}]
  BY ConstantsAssumption DEF IInv, TypeOK, Procs
<1>4. SemInv' /\ sem' \in {0, 1} /\ holders' \subseteq Procs
  BY <1>2, SemReturnSafe DEF IInv
<1>5. TypeOK'
  BY <1>1, <1>3, <1>4 DEF IInv, TypeOK
<1>6. InitInv' /\ LocalInv'
  BY <1>1, <1>3 DEF IInv, InitInv, LocalInv
<1>7. \A d \in Clients : MayBeCalled(d) => MayBeCalled(d)'
  BY <1>1, <1>2, <1>3 DEF MayBeCalled, Waits
<1>8. ChairInv' /\ QueueInv'
  BY <1>1, <1>2, <1>3, <1>7 DEF IInv, ChairInv, QueueInv
<1>9. NobodyForgotten' /\ OnePlacePerClient'
  BY <1>1, <1>3
  DEF IInv, NobodyForgotten, OnePlacePerClient, Waits, Queued, InChair
<1>10. ShavesAgree'
  <2>1. \A d \in Clients : Received(d)' = Received(d)
    BY <1>1, <1>2, <1>3 DEF Received
  <2> QED BY <1>1, <2>1 DEF IInv, ShavesAgree
<1> QED BY <1>4, <1>5, <1>6, <1>8, <1>9, <1>10 DEF IInv

(* A client on its first visit joins the queue and wakes the barber. *)
LEMMA FirstVisitPreserves ==
  ASSUME IInv, NEW c \in Clients, Holding(c, "arrive"), ~TurnedAway(c),
         first_shave[c], JoinQueue(c),
         pc' = [pc EXCEPT ![c] = "invite"], sem_return(c),
         UNCHANGED <<waiting_room_size, curr_client, client_vars, given>>
  PROVE  IInv'
<1>1. UNCHANGED <<waiting_room_size, curr_client,
                  client_status, first_shave, curr_shave, given>>
  BY DEF client_vars
<1>2. /\ pc[c] = "arrive" /\ client_status[c] = "WAITING"
      /\ c \in holders /\ ~MayBeCalled(c) /\ ~q_full /\ enqueue(c)
      /\ status' = IF status = "SLEEPING" THEN "WOKEN_UP" ELSE status
  BY DEF IInv, LocalInv, TypeOK, Holding, TurnedAway, MayBeCalled, Waits,
         JoinQueue
<1>3. /\ \A d \in Clients : pc'[d] = IF d = c THEN "invite" ELSE pc[d]
      /\ pc'[Barber] = pc[Barber]
      /\ pc' \in [Procs -> {"init", "loop", "exited",
                           "arrive", "invite", "shave", "left", "killed"}]
  BY ConstantsAssumption DEF IInv, TypeOK, Procs
<1>4. /\ total_clients' = total_clients + 1
      /\ total_clients < MAX_CLIENTS /\ total_clients < waiting_room_size
      /\ q' \in [0..MAX_CLIENTS-1 -> Clients \cup {Nobody}]
      /\ q'[total_clients] = c
      /\ \A i \in 0..total_clients-1 : q'[i] = q[i]
      /\ \A x : Queued(x)' <=> Queued(x) \/ x = c
  BY <1>2, EnqueueAdds DEF IInv
<1>5. total_clients \in Nat /\ waiting_room_size \in Int /\ MAX_CLIENTS \in Nat
  BY ConstantsAssumption DEF IInv, TypeOK
<1>6. pc[Barber] # "init"
  BY <1>4, <1>5 DEF IInv, InitInv
<1>7. SemInv' /\ sem' \in {0, 1} /\ holders' \subseteq Procs
  BY <1>2, SemReturnSafe DEF IInv
<1>8. TypeOK'
  <2>1. total_clients' \in 0..MAX_CLIENTS /\ total_clients' <= waiting_room_size
    BY <1>4, <1>5
  <2>2. status' \in Statuses
    BY <1>2 DEF IInv, TypeOK, Statuses
  <2> QED BY <1>1, <1>3, <1>4, <1>7, <2>1, <2>2 DEF IInv, TypeOK
<1>9. InitInv' /\ LocalInv'
  BY <1>1, <1>2, <1>3, <1>6 DEF IInv, InitInv, LocalInv
<1>10. /\ \A d \in Clients : MayBeCalled(d) => MayBeCalled(d)'
       /\ MayBeCalled(c)'
  BY <1>1, <1>2, <1>3 DEF MayBeCalled, Waits
<1>11. ChairInv'
  BY <1>1, <1>2, <1>3, <1>10 DEF IInv, ChairInv
<1>12. QueueInv'
  <2>1. \A i \in 0..total_clients'-1 : i \in 0..total_clients-1 \/ i = total_clients
    BY <1>4, <1>5
  <2>2. \A i \in 0..total_clients'-1 : (q[i] \in Clients /\ MayBeCalled(q[i]))'
    BY <1>1, <1>3, <1>4, <2>1 DEF IInv, QueueInv, MayBeCalled, Waits
  <2>3. total_clients' > 0 /\ status' # "SLEEPING"
    BY <1>2, <1>4, <1>5
  <2> QED BY <2>2, <2>3 DEF QueueInv
<1>13. \A d : InChair(d)' <=> InChair(d)
  BY <1>1, <1>2 DEF InChair
<1>14. NobodyForgotten'
  BY <1>1, <1>3, <1>4, <1>13 DEF IInv, NobodyForgotten, Waits
<1>15. OnePlacePerClient'
  <2>1. ~Queued(c)
    BY <1>2 DEF IInv, QueueInv, Queued
  <2>2. ~InChair(c)
    BY <1>2 DEF IInv, ChairInv, InChair
  <2>3. \A i, j \in 0..total_clients'-1 : q'[i] = q'[j] => i = j
    <3>1. \A i \in 0..total_clients-1 : q'[i] = q[i] /\ q[i] # c
      BY <1>4, <2>1 DEF Queued
    <3>2. \A i \in 0..total_clients'-1 : i \in 0..total_clients-1 \/ i = total_clients
      BY <1>4, <1>5
    <3> QED BY <1>4, <3>1, <3>2 DEF IInv, OnePlacePerClient
  <2> QED BY <1>4, <1>13, <2>2, <2>3 DEF IInv, OnePlacePerClient
<1>16. ShavesAgree'
  <2>1. \A d \in Clients : Received(d)' = Received(d)
    BY <1>1, <1>2, <1>3 DEF Received
  <2> QED BY <1>1, <1>2, <2>1 DEF IInv, ShavesAgree
<1> QED BY <1>7, <1>8, <1>9, <1>11, <1>12, <1>14, <1>15, <1>16 DEF IInv

(* A client that queued when it got up finds the barber awake, so it        *)
(* neither wakes him nor queues a second time.                             *)
LEMMA NextVisitPreserves ==
  ASSUME IInv, NEW c \in Clients, Holding(c, "arrive"),
         ~first_shave[c], JoinQueue(c),
         pc' = [pc EXCEPT ![c] = "invite"], sem_return(c),
         UNCHANGED <<waiting_room_size, curr_client, client_vars, given>>
  PROVE  IInv'
<1>1. pc[c] = "arrive" /\ c \in holders /\ Waits(c)
  BY DEF Holding, Waits
<1>2. status # "SLEEPING"
  <2>1. SUFFICES ASSUME status = "SLEEPING" PROVE FALSE
    OBVIOUS
  <2>2. Queued(c) \/ InChair(c)
    BY <1>1 DEF IInv, NobodyForgotten
  <2> QED BY <2>1, <2>2 DEF IInv, QueueInv, Queued, InChair
<1>3. UNCHANGED <<status, total_clients, waiting_room_size, curr_client, q,
                  client_status, first_shave, curr_shave, given>>
  BY <1>2 DEF JoinQueue, client_vars
<1>4. /\ \A d \in Clients : pc'[d] = IF d = c THEN "invite" ELSE pc[d]
      /\ pc'[Barber] = pc[Barber]
      /\ pc' \in [Procs -> {"init", "loop", "exited",
                           "arrive", "invite", "shave", "left", "killed"}]
  BY ConstantsAssumption DEF IInv, TypeOK, Procs
<1>5. SemInv' /\ sem' \in {0, 1} /\ holders' \subseteq Procs
  BY <1>1, SemReturnSafe DEF IInv
<1>6. TypeOK'
  BY <1>3, <1>4, <1>5 DEF IInv, TypeOK
<1>7. InitInv' /\ LocalInv'
  BY <1>1, <1>3, <1>4 DEF IInv, InitInv, LocalInv
<1>8. \A d \in Clients : MayBeCalled(d) => MayBeCalled(d)'
  BY <1>1, <1>3, <1>4 DEF MayBeCalled, Waits
<1>9. ChairInv' /\ QueueInv'
  BY <1>1, <1>3, <1>4, <1>8 DEF IInv, ChairInv, QueueInv
<1>10. NobodyForgotten' /\ OnePlacePerClient'
  BY <1>1, <1>3, <1>4
  DEF IInv, NobodyForgotten, OnePlacePerClient, Waits, Queued, InChair
<1>11. ShavesAgree'
  <2>1. \A d \in Clients : Received(d)' = Received(d)
    BY <1>1, <1>3, <1>4 DEF Received
  <2> QED BY <1>3, <2>1 DEF IInv, ShavesAgree
<1> QED BY <1>5, <1>6, <1>7, <1>9, <1>10, <1>11 DEF IInv

LEMMA EnterPreserves ==
  ASSUME IInv, NEW c \in Clients, Enter(c) PROVE IInv'
<1>1. CASE TurnedAway(c)
  BY <1>1, TurnedAwayPreserves DEF Enter, shop
<1>2. CASE ~TurnedAway(c) /\ first_shave[c]
  BY <1>2, FirstVisitPreserves DEF Enter
<1>3. CASE ~TurnedAway(c) /\ ~first_shave[c]
  BY <1>3, NextVisitPreserves DEF Enter
<1> QED BY <1>1, <1>2, <1>3

(* The invited client sits down. *)
LEMMA SitDownPreserves ==
  ASSUME IInv, NEW c \in Clients, SitDown(c) PROVE IInv'
<1>1. /\ pc[c] = "invite" /\ c \in holders /\ sem_return(c)
      /\ UNCHANGED <<total_clients, waiting_room_size, curr_client, q,
                     first_shave, curr_shave, given>>
  BY DEF SitDown, Holding
<1>2. CASE ~is_invited(c)
  BY <1>1, <1>2, IdlePreserves DEF SitDown, shop, client_vars
<1>3. CASE is_invited(c)
  <2>1. /\ status = "INVITING" /\ curr_client = c /\ status' = "START_SHAVING"
        /\ client_status' = [client_status EXCEPT ![c] = "INVITED"]
        /\ pc' = [pc EXCEPT ![c] = "shave"]
    BY <1>3 DEF SitDown, is_invited
  <2>2. /\ \A d \in Clients : pc'[d] = IF d = c THEN "shave" ELSE pc[d]
        /\ pc'[Barber] = pc[Barber]
        /\ pc' \in [Procs -> {"init", "loop", "exited",
                             "arrive", "invite", "shave", "left", "killed"}]
    BY <2>1, ConstantsAssumption DEF IInv, TypeOK, Procs
  <2>3. /\ \A d \in Clients \ {c} : client_status'[d] = client_status[d]
        /\ client_status' \in [Clients -> {"WAITING", "INVITED", "SHAVEN"}]
    BY <2>1 DEF IInv, TypeOK
  <2>4. SemInv' /\ sem' \in {0, 1} /\ holders' \subseteq Procs
    BY <1>1, SemReturnSafe DEF IInv
  <2>5. TypeOK'
    BY <1>1, <2>1, <2>2, <2>3, <2>4 DEF IInv, TypeOK, Statuses
  <2>6. InitInv' /\ LocalInv'
    BY <1>1, <2>1, <2>2, <2>3 DEF IInv, InitInv, LocalInv
  <2>7. InChair(c) /\ ~Queued(c)
    BY <2>1 DEF IInv, OnePlacePerClient, InChair
  <2>8. ChairInv'
    BY <1>1, <2>1, <2>2 DEF IInv, ChairInv
  <2>9. QueueInv'
    BY <1>1, <2>1, <2>2, <2>7
    DEF IInv, QueueInv, MayBeCalled, Waits, Queued
  <2>10. NobodyForgotten' /\ OnePlacePerClient'
    BY <1>1, <2>1, <2>2
    DEF IInv, NobodyForgotten, OnePlacePerClient, Waits, Queued, InChair
  <2>11. ShavesAgree'
    <3>1. \A d \in Clients : Received(d)' = Received(d)
      BY <1>1, <2>2, <2>3 DEF Received
    <3> QED BY <1>1, <2>1, <3>1 DEF IInv, ShavesAgree
  <2> QED BY <2>4, <2>5, <2>6, <2>8, <2>9, <2>10, <2>11 DEF IInv
<1> QED BY <1>2, <1>3

(* The shaven client frees the chair and keeps coming: it is queued again. *)
LEMMA RequeuePreserves ==
  ASSUME IInv, NEW c \in Clients, pc[c] = "shave", c \in holders, is_shaven(c),
         curr_shave[c] < shaves, ~q_full, Requeue(c), sem_return(c),
         client_status' = [client_status EXCEPT ![c] = "SHAVEN"],
         first_shave' = [first_shave EXCEPT ![c] = FALSE],
         curr_shave' = [curr_shave EXCEPT ![c] = @ + 1],
         pc' = [pc EXCEPT ![c] = "arrive"],
         UNCHANGED <<waiting_room_size, curr_client, given>>
  PROVE  IInv'
<1>1. /\ status = "END_SHAVING" /\ curr_client = c
      /\ status' = "FREE" /\ enqueue(c)
  BY DEF is_shaven, Requeue
<1>2. InChair(c) /\ ~Queued(c) /\ curr_shave[c] \in 1..shaves
  BY <1>1 DEF IInv, OnePlacePerClient, InChair, LocalInv, TypeOK
<1>3. /\ total_clients' = total_clients + 1
      /\ total_clients < MAX_CLIENTS /\ total_clients < waiting_room_size
      /\ q' \in [0..MAX_CLIENTS-1 -> Clients \cup {Nobody}]
      /\ q'[total_clients] = c
      /\ \A i \in 0..total_clients-1 : q'[i] = q[i]
      /\ \A x : Queued(x)' <=> Queued(x) \/ x = c
  BY <1>1, EnqueueAdds DEF IInv
<1>4. /\ total_clients \in Nat /\ waiting_room_size \in Int
      /\ MAX_CLIENTS \in Nat /\ shaves \in Nat \ {0}
  BY ConstantsAssumption DEF IInv, TypeOK
<1>5. /\ \A d \in Clients : pc'[d] = IF d = c THEN "arrive" ELSE pc[d]
      /\ pc'[Barber] = pc[Barber]
      /\ pc' \in [Procs -> {"init", "loop", "exited",
                           "arrive", "invite", "shave", "left", "killed"}]
  BY ConstantsAssumption DEF IInv, TypeOK, Procs
<1>6. /\ \A d \in Clients : /\ client_status'[d] = IF d = c THEN "SHAVEN"
                                                   ELSE client_status[d]
                            /\ first_shave'[d] = IF d = c THEN FALSE
                                                 ELSE first_shave[d]
                            /\ curr_shave'[d] = IF d = c THEN curr_shave[c] + 1
                                                ELSE curr_shave[d]
      /\ client_status' \in [Clients -> {"WAITING", "INVITED", "SHAVEN"}]
      /\ first_shave' \in [Clients -> BOOLEAN]
      /\ curr_shave' \in [Clients -> 1..shaves+1]
  BY <1>2, <1>4 DEF IInv, TypeOK
<1>7. SemInv' /\ sem' \in {0, 1} /\ holders' \subseteq Procs
  BY SemReturnSafe DEF IInv
<1>8. TypeOK'
  <2>1. total_clients' \in 0..MAX_CLIENTS /\ total_clients' <= waiting_room_size
    BY <1>3, <1>4
  <2> QED BY <1>1, <1>3, <1>5, <1>6, <1>7, <2>1 DEF IInv, TypeOK, Statuses
<1>9. InitInv'
  BY <1>1, <1>5 DEF IInv, InitInv
<1>10. LocalInv'
  BY <1>2, <1>4, <1>5, <1>6 DEF IInv, LocalInv
<1>11. ChairInv'
  BY <1>1, <1>5 DEF IInv, ChairInv
<1>12. QueueInv'
  <2>1. \A i \in 0..total_clients'-1 : i \in 0..total_clients-1 \/ i = total_clients
    BY <1>3, <1>4
  <2>2. \A i \in 0..total_clients'-1 : (q[i] \in Clients /\ MayBeCalled(q[i]))'
    BY <1>3, <1>5, <1>6, <2>1 DEF IInv, QueueInv, MayBeCalled, Waits
  <2> QED BY <1>1, <2>2 DEF QueueInv
<1>13. NobodyForgotten'
  BY <1>1, <1>3, <1>5, <1>6 DEF IInv, NobodyForgotten, Waits, InChair
<1>14. OnePlacePerClient'
  <2>1. \A i \in 0..total_clients-1 : q'[i] = q[i] /\ q[i] # c
    BY <1>2, <1>3 DEF Queued
  <2>2. \A i \in 0..total_clients'-1 : i \in 0..total_clients-1 \/ i = total_clients
    BY <1>3, <1>4
  <2>3. \A i, j \in 0..total_clients'-1 : q'[i] = q'[j] => i = j
    BY <1>3, <2>1, <2>2 DEF IInv, OnePlacePerClient
  <2> QED BY <1>1, <2>3 DEF OnePlacePerClient, InChair
<1>15. ShavesAgree'
  <2>1. \A d \in Clients : /\ d # c => Received(d)' = Received(d)
                           /\ d = c => Received(d)' = curr_shave[c]
    BY <1>2, <1>5, <1>6 DEF Received
  <2>2. given[c] = curr_shave[c]
    BY <1>1, <1>2 DEF IInv, ShavesAgree, Received
  <2>3. \A d \in Clients : d # c => given[d] = Received(d) + 0
    BY <1>1 DEF IInv, ShavesAgree
  <2> QED BY <1>1, <1>2, <2>1, <2>2, <2>3 DEF ShavesAgree
<1> QED BY <1>7, <1>8, <1>9, <1>10, <1>11, <1>12, <1>13, <1>14, <1>15 DEF IInv

(* The shaven client frees the chair and goes home, for want of a free      *)
(* chair in the waiting room or because it has all its shaves.             *)
LEMMA GoHomePreserves ==
  ASSUME IInv, NEW c \in Clients, pc[c] = "shave", c \in holders, is_shaven(c),
         status' = "FREE", sem_return(c),
         client_status' = [client_status EXCEPT ![c] = "SHAVEN"],
         \/ curr_shave[c] < shaves /\ UNCHANGED <<first_shave, curr_shave>>
         \/ /\ curr_shave[c] >= shaves
            /\ first_shave' = [first_shave EXCEPT ![c] = FALSE]
            /\ curr_shave' = [curr_shave EXCEPT ![c] = @ + 1],
         pc' = [pc EXCEPT ![c] = "left"],
         UNCHANGED <<q, total_clients, waiting_room_size, curr_client, given>>
  PROVE  IInv'
<1>1. status = "END_SHAVING" /\ curr_client = c
  BY DEF is_shaven
<1>2. InChair(c) /\ ~Queued(c) /\ curr_shave[c] \in 1..shaves
  BY <1>1 DEF IInv, OnePlacePerClient, InChair, LocalInv, TypeOK
<1>3. /\ \A d \in Clients : pc'[d] = IF d = c THEN "left" ELSE pc[d]
      /\ pc'[Barber] = pc[Barber]
      /\ pc' \in [Procs -> {"init", "loop", "exited",
                           "arrive", "invite", "shave", "left", "killed"}]
  BY ConstantsAssumption DEF IInv, TypeOK, Procs
<1>4. /\ \A d \in Clients :
            /\ client_status'[d] = IF d = c THEN "SHAVEN" ELSE client_status[d]
            /\ d # c => /\ first_shave'[d] = first_shave[d]
                       /\ curr_shave'[d] = curr_shave[d]
      /\ client_status' \in [Clients -> {"WAITING", "INVITED", "SHAVEN"}]
      /\ first_shave' \in [Clients -> BOOLEAN]
      /\ curr_shave' \in [Clients -> 1..shaves+1]
  <2>1. CASE UNCHANGED <<first_shave, curr_shave>>
    BY <2>1 DEF IInv, TypeOK
  <2>2. CASE /\ first_shave' = [first_shave EXCEPT ![c] = FALSE]
             /\ curr_shave' = [curr_shave EXCEPT ![c] = @ + 1]
    BY <1>2, <2>2, ConstantsAssumption DEF IInv, TypeOK
  <2> QED BY <2>1, <2>2
<1>5. Received(c)' = curr_shave[c]
  BY <1>2, <1>3, <1>4, ConstantsAssumption DEF Received, IInv, TypeOK
<1>6. SemInv' /\ sem' \in {0, 1} /\ holders' \subseteq Procs
  BY SemReturnSafe DEF IInv
<1>7. TypeOK'
  BY <1>3, <1>4, <1>6 DEF IInv, TypeOK, Statuses
<1>8. InitInv'
  BY <1>1, <1>3 DEF IInv, InitInv
<1>9. LocalInv'
  BY <1>3, <1>4 DEF IInv, LocalInv
<1>10. ChairInv'
  BY <1>1, <1>3 DEF IInv, ChairInv
<1>11. QueueInv'
  BY <1>2, <1>3, <1>4 DEF IInv, QueueInv, MayBeCalled, Waits, Queued
<1>12. NobodyForgotten' /\ OnePlacePerClient'
  BY <1>1, <1>3, <1>4
  DEF IInv, NobodyForgotten, OnePlacePerClient, Waits, Queued, InChair
<1>13. ShavesAgree'
  <2>1. \A d \in Clients : d # c => Received(d)' = Received(d)
    BY <1>3, <1>4 DEF Received
  <2>2. given[c] = curr_shave[c]
    BY <1>1, <1>2 DEF IInv, ShavesAgree, Received
  <2>3. \A d \in Clients : d # c => given[d] = Received(d) + 0
    BY <1>1 DEF IInv, ShavesAgree
  <2> QED BY <1>2, <1>5, <2>1, <2>2, <2>3 DEF ShavesAgree
<1> QED BY <1>6, <1>7, <1>8, <1>9, <1>10, <1>11, <1>12, <1>13 DEF IInv

LEMMA PollShavenPreserves ==
  ASSUME IInv, NEW c \in Clients, PollShaven(c) PROVE IInv'
<1>1. /\ pc[c] = "shave" /\ c \in holders /\ sem_return(c)
      /\ UNCHANGED <<waiting_room_size, curr_client, given>>
  BY DEF PollShaven, Holding
<1>2. CASE ~is_shaven(c)
  BY <1>1, <1>2, IdlePreserves DEF PollShaven, shop
<1>3. CASE is_shaven(c)
  <2>1. GetUp(c)
    BY <1>3 DEF PollShaven
  <2>2. CASE curr_shave[c] < shaves /\ ~q_full
    <3>1. pc' = [pc EXCEPT ![c] = "arrive"] /\ Requeue(c)
      BY <2>1, <2>2, ConstantsAssumption DEF GetUp, IInv, TypeOK
    <3> QED BY <1>1, <1>3, <2>1, <2>2, <3>1, RequeuePreserves,
               ConstantsAssumption DEF GetUp, IInv, TypeOK
  <2>3. CASE ~(curr_shave[c] < shaves /\ ~q_full)
    BY <1>1, <1>3, <2>1, <2>3, GoHomePreserves DEF GetUp
  <2> QED BY <2>2, <2>3
<1> QED BY <1>2, <1>3

-------------------------------------------------------------------------------
(* Every step preserves the invariant. *)
LEMMA NextPreserves == IInv /\ [Next]_vars => IInv'
<1> SUFFICES ASSUME IInv, [Next]_vars PROVE IInv'
  OBVIOUS
<1>1. CASE init_barbershop
  BY <1>1, InitBarbershopPreserves
<1>2. CASE BarberTake
  BY <1>2, TakePreserves DEF BarberTake, Procs
<1>3. CASE BarberTurn
  BY <1>3, BarberTurnPreserves
<1>4. CASE sig_handler
  <2>1. pc[Barber] # "left"
    BY DEF IInv, LocalInv
  <2> QED BY <1>4, <2>1, DeathPreserves DEF sig_handler, Procs
<1>5. ASSUME NEW c \in Clients, ClientTake(c) PROVE IInv'
  BY <1>5, TakePreserves DEF ClientTake, Procs
<1>6. ASSUME NEW c \in Clients, ClientTurn(c) PROVE IInv'
  BY <1>6, EnterPreserves, SitDownPreserves, PollShavenPreserves DEF ClientTurn
<1>7. ASSUME NEW c \in Clients, ClientKilled(c) PROVE IInv'
  BY <1>7, DeathPreserves, ConstantsAssumption DEF ClientKilled, Procs
<1>8. CASE UNCHANGED vars
  BY <1>8
  DEF vars, shop, client_vars, IInv, TypeOK, SemInv, InitInv, LocalInv, ChairInv,
      QueueInv, NobodyForgotten, OnePlacePerClient, ShavesAgree, MayBeCalled,
      Waits, Queued, InChair, Received
<1> QED BY <1>1, <1>2, <1>3, <1>4, <1>5, <1>6, <1>7, <1>8 DEF Next

(* A step of either variant is one of Barbershop, the first sem_return of  *)
(* the System V barber or the end of a client whose semaphore was removed. *)
AnyStep == [Next]_vars \/ OpenSemaphore \/ \E c \in Clients : SemopFails(c)

(* Nobody takes the System V semaphore before it is returned once. *)
CreatedInv == semaphore = "created" => sem = 0 /\ holders = {}

LEMMA VariantSteps == [VariantNext]_allVars => AnyStep
BY DEF VariantNext, allVars, AnyStep, Next, OpenShop, BarberTakes, BarberTurns,
       ClientTakes, ClientTurns, WhileOpen, clean_up

LEMMA CreatedPreserved ==
  ASSUME CreatedInv, [VariantNext]_allVars
  PROVE  CreatedInv'
<1>1. CASE UNCHANGED allVars
  BY <1>1 DEF allVars, vars, CreatedInv
<1>2. CASE OpenSemaphore
  BY <1>2 DEF OpenSemaphore, CreatedInv
<1>3. CASE \/ OpenShop \/ BarberTakes \/ BarberTurns
           \/ \E c \in Clients : ClientTakes(c) \/ ClientTurns(c)
  <2>1. semaphore = "open" /\ semaphore' = semaphore
    BY <1>3 DEF OpenShop, BarberTakes, BarberTurns, ClientTakes, ClientTurns, WhileOpen
  <2> QED BY <2>1 DEF CreatedInv
<1>4. CASE clean_up
  BY <1>4 DEF clean_up, sig_handler, CreatedInv
<1>5. ASSUME NEW c \in Clients,
             SemopFails(c) \/ (ClientKilled(c) /\ UNCHANGED <<variant, semaphore>>)
      PROVE  CreatedInv'
  BY <1>5 DEF SemopFails, ClientKilled, CreatedInv
<1> QED BY <1>1, <1>2, <1>3, <1>4, <1>5 DEF VariantNext

LEMMA AnyStepPreserves ==
  ASSUME IInv, CreatedInv, AnyStep
  PROVE  IInv'
<1>1. CASE [Next]_vars
  BY <1>1, NextPreserves
<1>2. CASE OpenSemaphore
  <2>1. UNCHANGED <<status, total_clients, waiting_room_size, curr_client, q, holders,
                    pc, client_status, first_shave, curr_shave, given>>
    BY <1>2 DEF OpenSemaphore, shop, client_vars
  <2>2. sem' = 1 /\ holders = {}
    BY <1>2 DEF OpenSemaphore, CreatedInv
  <2> QED BY <2>1, <2>2
      DEF IInv, TypeOK, SemInv, InitInv, LocalInv, ChairInv, QueueInv, NobodyForgotten,
          OnePlacePerClient, ShavesAgree, MayBeCalled, Waits, Queued, InChair, Received
<1>3. ASSUME NEW c \in Clients, SemopFails(c) PROVE IInv'
  BY <1>3, DeathPreserves, ConstantsAssumption DEF SemopFails, Procs
<1> QED BY <1>1, <1>2, <1>3 DEF AnyStep

(* IInv is an invariant of the barbershop, by itself and with either       *)
(* variant's semaphore.                                                    *)
THEOREM Invariance == Spec \/ VariantSpec => []IInv
<1>1. (Init => IInv) /\ (VariantInit => IInv /\ CreatedInv)
  BY InitEstablishes DEF Init, VariantInit, InitShop, CreatedInv
<1>2. IInv /\ [Next]_vars => IInv'
  BY NextPreserves
<1>3. IInv /\ CreatedInv /\ [VariantNext]_allVars => IInv' /\ CreatedInv'
  BY VariantSteps, AnyStepPreserves, CreatedPreserved
<1> QED BY <1>1, <1>2, <1>3, PTL DEF Spec, VariantSpec

(* The shared segment and the processes' locals have their types, and the   *)
(* queue never outgrows the waiting room or the array (common.h:45-64).    *)
THEOREM TypeCorrect == Spec \/ VariantSpec => []TypeOK
<1>1. IInv => TypeOK
  BY DEF IInv
<1> QED BY <1>1, Invariance, PTL

(* A client that polls for an invitation is in the queue or in the chair,   *)
(* although enqueue may drop a client silently (client_spawner.c:48-55).   *)
THEOREM NobodyIsForgotten == Spec \/ VariantSpec => []NobodyForgotten
<1>1. IInv => NobodyForgotten
  BY DEF IInv
<1> QED BY <1>1, Invariance, PTL

(* No client is twice in the queue, or in the queue and in the chair. *)
THEOREM OnePlaceOnly == Spec \/ VariantSpec => []OnePlacePerClient
<1>1. IInv => OnePlacePerClient
  BY DEF IInv
<1> QED BY <1>1, Invariance, PTL

(* The barber's untested dequeue (barber.c:34-36) never finds the queue     *)
(* empty, and nobody waits for a barber that sleeps.                       *)
THEOREM BarberAlwaysHasReason == Spec \/ VariantSpec => []BarberHasReason
<1>1. IInv => BarberHasReason
  <2> SUFFICES ASSUME IInv PROVE BarberHasReason
    OBVIOUS
  <2>1. status = "SLEEPING" => \A c \in Clients : ~Queued(c) /\ ~InChair(c)
    BY DEF IInv, QueueInv, Queued, InChair
  <2> QED BY <2>1 DEF IInv, QueueInv, NobodyForgotten, BarberHasReason
<1> QED BY <1>1, Invariance, PTL

(* The barber and the clients agree on the shaves given and received. *)
THEOREM ShavesAlwaysAgree == Spec \/ VariantSpec => []ShavesAgree
<1>1. IInv => ShavesAgree
  BY DEF IInv
<1> QED BY <1>1, Invariance, PTL

(* A client goes home with fewer shaves than it wants only in a step in     *)
(* which it finds the waiting room full (client_spawner.c:44-47, 77-80).   *)
THEOREM OnlyFullRoomTurnsAway == Spec \/ VariantSpec => LeavesEarlyOnlyWhenFull
<1> DEFINE Leaves(c) == pc[c] # "left" /\ pc'[c] = "left"
<1>1. ASSUME IInv, AnyStep, NEW c \in Clients, Leaves(c),
             given'[c] < shaves
      PROVE  q_full
  <2>1. CASE Enter(c)
    BY <1>1, <2>1, ConstantsAssumption
    DEF Enter, TurnedAway, IInv, TypeOK, Procs
  <2>2. CASE PollShaven(c) /\ is_shaven(c)
    <3>1. GetUp(c) /\ given' = given /\ pc[c] = "shave"
      BY <2>2 DEF PollShaven, Holding
    <3>2. status = "END_SHAVING" /\ curr_client = c
      BY <2>2 DEF is_shaven
    <3>3. curr_shave[c] \in 1..shaves
      BY <1>1, <3>1 DEF IInv, LocalInv, TypeOK
    <3>4. given[c] = curr_shave[c]
      BY <1>1, <3>1, <3>2, <3>3 DEF IInv, ShavesAgree, Received
    <3>5. curr_shave[c] < shaves
      BY <1>1, <3>1, <3>4
    <3> QED BY <1>1, <3>1, <3>5, ConstantsAssumption
            DEF GetUp, IInv, TypeOK, Procs
  <2>3. \/ Enter(c) \/ (PollShaven(c) /\ is_shaven(c)) \/ pc'[c] # "left"
        \/ pc'[c] = pc[c]
    <3>1. pc \in [Procs -> {"init", "loop", "exited",
                            "arrive", "invite", "shave", "left", "killed"}]
      BY <1>1 DEF IInv, TypeOK
    <3>2. ASSUME NEW p \in Procs, NEW place, p = c => place # "left",
                 pc' = [pc EXCEPT ![p] = place]
          PROVE  pc'[c] = pc[c] \/ pc'[c] # "left"
      BY <3>1, <3>2 DEF Procs
    <3>3. CASE init_barbershop \/ sig_handler
      BY <3>2, <3>3, ConstantsAssumption DEF init_barbershop, sig_handler, Procs
    <3>4. ASSUME NEW d \in Clients, SitDown(d) \/ ClientKilled(d) \/ SemopFails(d)
          PROVE  pc'[c] = pc[c] \/ pc'[c] # "left"
      BY <3>2, <3>4 DEF SitDown, ClientKilled, SemopFails, Procs
    <3>5. ASSUME NEW d \in Clients, d # c, Enter(d)
          PROVE  pc'[c] = pc[c] \/ pc'[c] # "left"
      BY <3>2, <3>5 DEF Enter, Procs
    <3>6. ASSUME NEW d \in Clients, d # c, PollShaven(d), is_shaven(d)
          PROVE  pc'[c] = pc[c] \/ pc'[c] # "left"
      BY <3>2, <3>6 DEF PollShaven, GetUp, Procs
    <3>7. ASSUME \/ BarberTake \/ BarberTurn \/ OpenSemaphore
                 \/ \E d \in Clients :
                      ClientTake(d) \/ (PollShaven(d) /\ ~is_shaven(d))
                 \/ UNCHANGED vars
          PROVE  pc' = pc
      BY <3>7 DEF BarberTake, BarberTurn, OpenSemaphore, ClientTake, PollShaven, vars
    <3> QED BY <1>1, <3>3, <3>4, <3>5, <3>6, <3>7 DEF AnyStep, Next, ClientTurn
  <2> QED BY <1>1, <2>1, <2>2, <2>3
<1>2. IInv /\ ([Next]_vars \/ [VariantNext]_allVars) =>
        [\A c \in Clients :
           pc[c] # "left" /\ pc'[c] = "left" /\ given'[c] < shaves => q_full]_vars
  BY <1>1, VariantSteps DEF AnyStep
<1> QED BY <1>2, Invariance, PTL DEF Spec, VariantSpec, LeavesEarlyOnlyWhenFull

-------------------------------------------------------------------------------
(* The refinement: the shop as the sleeping barber's customers see it. *)

IsOpen == pc[Barber] # "init" /\ waiting_room_size = seats
Waiting == [i \in 1..total_clients |-> q[i-1]]
Chair == IF \E c \in Clients : InChair(c) THEN curr_client ELSE Nobody
Shaven == [c \in Clients |-> Received(c)]
Gone == {c \in Clients : pc[c] = "left"}
ShopStep == Abstract!Next \/ UNCHANGED <<IsOpen, Waiting, Chair, Shaven, Gone>>

(* The room is full for a client that looks at the array just when it is   *)
(* full, or not yet open, for the customers.                               *)
LEMMA RoomSeen ==
  ASSUME IInv
  PROVE  /\ total_clients \in Nat
         /\ Waiting \in Seq(Clients) /\ Len(Waiting) = total_clients
         /\ \A i \in 1..total_clients : Waiting[i] = q[i-1]
         /\ (IsOpen /\ Len(Waiting) < seats) <=> ~q_full
<1>1. total_clients \in Nat /\ waiting_room_size \in {0, seats} /\ seats \in Int
  BY ConstantsAssumption DEF IInv, TypeOK
<1>2. \A i \in 1..total_clients : i-1 \in 0..total_clients-1
  BY <1>1
<1>3. \A i \in 1..total_clients : q[i-1] \in Clients
  BY <1>2 DEF IInv, QueueInv
<1>4. Waiting \in [1..total_clients -> Clients]
  BY <1>3 DEF Waiting
<1>5. Waiting \in Seq(Clients) /\ Len(Waiting) = total_clients
  BY <1>1, <1>4
<1>6. (IsOpen /\ total_clients < seats) <=> ~(total_clients >= waiting_room_size)
  <2>1. CASE waiting_room_size = seats /\ pc[Barber] # "init"
    BY <1>1, <2>1 DEF IsOpen
  <2>2. CASE pc[Barber] = "init"
    BY <1>1, <2>2 DEF IsOpen, IInv, InitInv
  <2>3. CASE waiting_room_size # seats
    BY <1>1, <2>3 DEF IsOpen
  <2> QED BY <2>1, <2>2, <2>3
<1> QED BY <1>1, <1>5, <1>6 DEF Waiting, q_full

LEMMA ChairSeen ==
  \A c \in Clients : InChair(c) <=> Chair = c
BY ConstantsAssumption DEF Chair, InChair

(* A client that is not gone and relies on no call is outside the shop. *)
LEMMA OutsideSeen ==
  ASSUME IInv, NEW c \in Clients, pc[c] = "arrive", first_shave[c]
  PROVE  c \notin Gone /\ Chair # c /\ \A i \in 1..Len(Waiting) : Waiting[i] # c
<1>1. ~MayBeCalled(c)
  BY DEF MayBeCalled, Waits
<1>2. ~InChair(c)
  BY <1>1 DEF IInv, ChairInv, InChair
<1>3. \A i \in 0..total_clients-1 : q[i] # c
  BY <1>1 DEF IInv, QueueInv
<1>4. \A i \in 1..total_clients : i-1 \in 0..total_clients-1
  BY RoomSeen
<1> QED BY <1>2, <1>3, <1>4, RoomSeen, ChairSeen DEF Gone

LEMMA Enqueued ==
  ASSUME IInv, IInv', NEW c \in Clients, ~q_full, enqueue(c)
  PROVE  Waiting' = Append(Waiting, c)
<1>1. /\ total_clients' = total_clients + 1 /\ q'[total_clients] = c
      /\ \A i \in 0..total_clients-1 : q'[i] = q[i]
  BY EnqueueAdds DEF IInv
<1>2. total_clients \in Nat /\ Waiting \in Seq(Clients) /\ Len(Waiting) = total_clients
  BY RoomSeen
<1>3. /\ Waiting' = [i \in 1..total_clients' |-> q'[i-1]]
      /\ \A i \in 1..total_clients : Waiting[i] = q[i-1]
  BY DEF Waiting
<1>4. \A i \in 1..total_clients+1 : q'[i-1] \in Clients
  <2>1. \A i \in 1..total_clients+1 : i-1 \in 0..total_clients'-1
    BY <1>1, <1>2
  <2> QED BY <2>1 DEF IInv, QueueInv
<1>5. Waiting' \in Seq(Clients) /\ Len(Waiting') = total_clients + 1
  BY <1>1, <1>2, <1>3, <1>4
<1> DEFINE t == Append(Waiting, c)
<1>6. /\ t \in Seq(Clients) /\ Len(t) = total_clients + 1
      /\ \A i \in 1..total_clients : t[i] = Waiting[i]
      /\ t[total_clients + 1] = c
  BY <1>2, AppendProperties
<1>7. ASSUME NEW i \in 1..total_clients+1 PROVE Waiting'[i] = t[i]
  <2>1. Waiting'[i] = q'[i-1]
    BY <1>1, <1>3
  <2>2. CASE i = total_clients + 1
    <3>1. i-1 = total_clients
      BY <1>2, <2>2
    <3> QED BY <1>1, <1>6, <2>1, <2>2, <3>1
  <2>3. CASE i # total_clients + 1
    <3>1. i \in 1..total_clients /\ i-1 \in 0..total_clients-1
      BY <1>2, <2>3
    <3> QED BY <1>1, <1>3, <1>6, <2>1, <3>1
  <2> QED BY <2>2, <2>3
<1> HIDE DEF t
<1>8. Waiting' = t
  BY <1>5, <1>6, <1>7, SeqEqual
<1> QED BY <1>8 DEF t

LEMMA Called ==
  ASSUME IInv, IInv', ~q_empty, dequeue
  PROVE  /\ Waiting # <<>> /\ Head(Waiting) = q[0]
         /\ Waiting' = Tail(Waiting) /\ curr_client' = q[0]
<1>1. /\ curr_client' = q[0] /\ total_clients' = total_clients - 1
      /\ \A i \in 0..total_clients-2 : q'[i] = q[i+1]
  BY DequeueRemoves DEF IInv
<1>2. /\ total_clients \in Nat \ {0} /\ Waiting \in Seq(Clients)
      /\ Len(Waiting) = total_clients
  BY RoomSeen DEF q_empty
<1>3. /\ Waiting' = [i \in 1..total_clients' |-> q'[i-1]]
      /\ \A i \in 1..total_clients : Waiting[i] = q[i-1]
  BY DEF Waiting
<1>4. Waiting # <<>>
  BY <1>2
<1>5. Head(Waiting) = q[0]
  <2>1. Head(Waiting) = Waiting[1] /\ 1 \in 1..total_clients /\ 1-1 = 0
    BY <1>2
  <2> QED BY <1>3, <2>1
<1> DEFINE t == Tail(Waiting)
<1>6. /\ t \in Seq(Clients) /\ Len(t) = total_clients - 1
      /\ \A i \in 1..total_clients-1 : t[i] = Waiting[i+1]
  BY <1>2, <1>4, HeadTailProperties
<1>7. ASSUME NEW i \in 1..total_clients-1
      PROVE  Waiting'[i] = t[i] /\ Waiting'[i] \in Clients
  <2>1. /\ i-1 \in 0..total_clients-2 /\ i+1 \in 1..total_clients
        /\ (i-1)+1 = i /\ (i+1)-1 = i /\ i \in 0..total_clients-1
    BY <1>2
  <2>2. Waiting'[i] = q[i]
    BY <1>1, <1>3, <2>1
  <2>3. t[i] = q[i]
    BY <1>3, <1>6, <2>1
  <2> QED BY <2>1, <2>2, <2>3 DEF IInv, QueueInv
<1> HIDE DEF t
<1>8. Waiting' \in Seq(Clients) /\ Len(Waiting') = total_clients - 1
  <2>1. Waiting' \in [1..total_clients-1 -> Clients] /\ total_clients-1 \in Nat
    BY <1>1, <1>2, <1>3, <1>7
  <2> QED BY <2>1
<1>9. Waiting' = t
  BY <1>6, <1>7, <1>8, SeqEqual
<1> QED BY <1>1, <1>4, <1>5, <1>9 DEF t

(* A step after which everybody is where it was. *)
LEMMA ShopUnchanged ==
  ASSUME IsOpen' <=> IsOpen, UNCHANGED <<total_clients, q>>,
         \A c \in Clients : /\ InChair(c)' <=> InChair(c)
                            /\ Received(c)' = Received(c)
                            /\ pc'[c] = "left" <=> pc[c] = "left"
  PROVE  ShopStep
<1>1. Waiting' = Waiting
  BY DEF Waiting
<1>2. Chair' = Chair
  BY DEF Chair, InChair
<1>3. Shaven' = Shaven
  BY DEF Shaven
<1>4. Gone' = Gone
  BY DEF Gone
<1>5. IsOpen' = IsOpen
  BY DEF IsOpen
<1> QED BY <1>1, <1>2, <1>3, <1>4, <1>5 DEF ShopStep

(* Furnishing the room, or dying before that in a shop without chairs,     *)
(* opens it.                                                               *)
LEMMA InitOpens ==
  ASSUME IInv, init_barbershop \/ sig_handler PROVE ShopStep
<1>1. UNCHANGED <<q, client_vars, given>> /\ \A c \in Clients : pc'[c] = pc[c]
  BY ConstantsAssumption DEF init_barbershop, sig_handler, IInv, TypeOK, shop, Procs
<1>2. /\ UNCHANGED <<total_clients, q>>
      /\ \A c \in Clients : InChair(c)' <=> InChair(c)
  <2>1. CASE init_barbershop
    BY <2>1 DEF init_barbershop, IInv, InitInv, InChair
  <2>2. CASE sig_handler
    BY <2>2 DEF sig_handler, shop, InChair
  <2> QED BY <2>1, <2>2
<1>3. \A c \in Clients : Received(c)' = Received(c)
  BY <1>1 DEF Received, client_vars
<1>4. IsOpen => IsOpen'
  BY ConstantsAssumption
     DEF IsOpen, init_barbershop, sig_handler, IInv, TypeOK, shop, Procs
<1>5. CASE IsOpen' <=> IsOpen
  BY <1>1, <1>2, <1>3, <1>5, ShopUnchanged
<1>6. CASE ~IsOpen /\ IsOpen'
  <2>1. Waiting' = Waiting
    BY <1>2 DEF Waiting
  <2>2. Chair' = Chair
    <3>1. CASE init_barbershop
      BY <1>2, <3>1 DEF Chair, InChair, IInv, InitInv, init_barbershop
    <3>2. CASE sig_handler
      BY <1>2, <3>2 DEF Chair, sig_handler, shop
    <3> QED BY <3>1, <3>2
  <2>3. Shaven' = Shaven
    BY <1>3 DEF Shaven
  <2>4. Gone' = Gone
    BY <1>1 DEF Gone
  <2>5. IsOpen' = TRUE
    BY <1>6 DEF IsOpen
  <2>6. Abstract!Open
    BY <1>6, <2>1, <2>2, <2>3, <2>4, <2>5
       DEF Abstract!Open, IsOpen, Waiting, Chair, Shaven, Gone
  <2> QED BY <2>6 DEF ShopStep, Abstract!Next
<1> QED BY <1>4, <1>5, <1>6

(* Inviting the client at the front of the array is calling the one that   *)
(* has waited longest.                                                     *)
LEMMA InviteCalls ==
  ASSUME IInv, IInv', status \in {"WOKEN_UP", "FREE"}, ~q_empty, invite_client,
         UNCHANGED <<waiting_room_size, pc, client_vars>>
  PROVE  ShopStep
<1>1. /\ Waiting # <<>> /\ Head(Waiting) = q[0]
      /\ Waiting' = Tail(Waiting) /\ curr_client' = q[0]
  BY Called DEF invite_client
<1>2. Chair = Nobody
  BY DEF Chair, InChair
<1>3. q[0] \in Clients
  <2>1. 0 \in 0..total_clients-1
    BY RoomSeen DEF q_empty
  <2> QED BY <2>1 DEF IInv, QueueInv
<1>4. Chair' = q[0]
  BY <1>1, <1>3 DEF Chair, InChair, invite_client
<1>5. /\ IsOpen' = IsOpen /\ Gone' = Gone
      /\ \A c \in Clients : Received(c)' = Received(c)
  BY DEF IsOpen, Gone, Received, client_vars
<1>6. Shaven' = Shaven
  BY <1>5 DEF Shaven
<1>7. Abstract!Call
  BY <1>1, <1>2, <1>4, <1>5, <1>6
     DEF Abstract!Call, IsOpen, Waiting, Chair, Shaven, Gone
<1> QED BY <1>7 DEF ShopStep, Abstract!Next

LEMMA BarberTurnSeen ==
  ASSUME IInv, IInv', BarberTurn PROVE ShopStep
<1>1. UNCHANGED <<waiting_room_size, pc, client_vars>>
  BY DEF BarberTurn
<1>2. CASE status \in {"WOKEN_UP", "FREE"} /\ ~q_empty /\ invite_client
  BY <1>1, <1>2, InviteCalls
<1>3. status = "WOKEN_UP" => ~q_empty
  BY DEF IInv, QueueInv, q_empty, TypeOK
<1>4. CASE \/ status = "START_SHAVING" /\ shave
           \/ status = "FREE" /\ q_empty /\ fall_asleep
           \/ UNCHANGED <<status, curr_client, total_clients, q, given>>
  <2>1. /\ UNCHANGED <<total_clients, q>>
        /\ \A c \in Clients : InChair(c)' <=> InChair(c)
    BY <1>4 DEF shave, fall_asleep, InChair
  <2>2. /\ IsOpen' <=> IsOpen
        /\ \A c \in Clients : /\ Received(c)' = Received(c)
                              /\ pc'[c] = "left" <=> pc[c] = "left"
    BY <1>1 DEF IsOpen, Received, client_vars
  <2> QED BY <2>1, <2>2, ShopUnchanged
<1> QED BY <1>2, <1>3, <1>4 DEF BarberTurn

(* Taking the semaphore, and the end of a client.                          *)
LEMMA TakeUnseen ==
  ASSUME UNCHANGED <<shop, pc, client_vars>> PROVE ShopStep
<1>1. UNCHANGED <<status, total_clients, waiting_room_size, curr_client, q, pc,
                  client_status, first_shave, curr_shave>>
  BY DEF shop, client_vars
<1>2. /\ IsOpen' <=> IsOpen
      /\ \A c \in Clients : /\ InChair(c)' <=> InChair(c)
                            /\ Received(c)' = Received(c)
                            /\ pc'[c] = "left" <=> pc[c] = "left"
  BY <1>1 DEF IsOpen, InChair, Received
<1> QED BY <1>1, <1>2, ShopUnchanged

LEMMA KillUnseen ==
  ASSUME IInv, NEW c \in Clients, ClientKilled(c) \/ SemopFails(c) PROVE ShopStep
<1>1. /\ UNCHANGED <<status, total_clients, waiting_room_size, curr_client, q,
                     client_status, first_shave, curr_shave>>
      /\ pc[c] # "left" /\ \E dead \in Dead : pc' = [pc EXCEPT ![c] = dead]
  BY DEF ClientKilled, SemopFails, shop, client_vars
<1>2. /\ \A d \in Clients : pc'[d] = pc[d] \/ (pc[d] # "left" /\ pc'[d] \in Dead)
      /\ pc'[Barber] = pc[Barber]
  BY <1>1, ConstantsAssumption DEF IInv, TypeOK, Procs
<1>3. /\ IsOpen' <=> IsOpen
      /\ \A d \in Clients : /\ InChair(d)' <=> InChair(d)
                            /\ pc'[d] = "left" <=> pc[d] = "left"
  BY <1>1, <1>2 DEF IsOpen, InChair
<1>4. \A d \in Clients : Received(d)' = Received(d)
  BY <1>1, <1>2 DEF Received
<1> QED BY <1>1, <1>3, <1>4, ShopUnchanged

LEMMA EnterSeen ==
  ASSUME IInv, IInv', NEW c \in Clients, Enter(c) PROVE ShopStep
<1>1. /\ pc[c] = "arrive"
      /\ UNCHANGED <<waiting_room_size, curr_client, client_status, first_shave,
                     curr_shave>>
  BY DEF Enter, Holding, client_vars
<1>2. /\ first_shave[c] <=> client_status[c] = "WAITING"
      /\ TurnedAway(c) <=> first_shave[c] /\ q_full
  BY <1>1 DEF IInv, LocalInv, TypeOK, TurnedAway
<1> DEFINE place == IF TurnedAway(c) THEN "left" ELSE "invite"
<1>3. /\ \A d \in Clients : pc'[d] = IF d = c THEN place ELSE pc[d]
      /\ pc'[Barber] = pc[Barber]
  <2>1. pc' = [pc EXCEPT ![c] = place]
    BY DEF Enter
  <2> QED BY <2>1, ConstantsAssumption DEF IInv, TypeOK, Procs
<1>4. IsOpen' = IsOpen
  BY <1>1, <1>3 DEF IsOpen
<1>5. \A d \in Clients : Received(d)' = Received(d)
  BY <1>1, <1>2, <1>3 DEF Received
<1>6. Shaven' = Shaven
  BY <1>5 DEF Shaven
<1>7. CASE TurnedAway(c)
  <2>1. UNCHANGED <<status, total_clients, q>>
    BY <1>7 DEF Enter
  <2>2. Waiting' = Waiting /\ Chair' = Chair
    BY <1>1, <2>1 DEF Waiting, Chair, InChair
  <2>3. Gone' = Gone \cup {c}
    BY <1>3, <1>7 DEF Gone
  <2>4. ~(IsOpen /\ Len(Waiting) < seats)
    BY <1>2, <1>7, RoomSeen
  <2>5. c \notin Gone /\ Chair # c /\ \A i \in 1..Len(Waiting) : Waiting[i] # c
    BY <1>1, <1>2, <1>7, OutsideSeen
  <2>6. Abstract!Outside(c) /\ ~Abstract!Room
    BY <2>4, <2>5 DEF Abstract!Outside, Abstract!Room, IsOpen, Waiting, Chair, Gone
  <2>7. Abstract!TurnAway(c)
    BY <1>4, <1>6, <2>2, <2>3, <2>6
       DEF Abstract!TurnAway, IsOpen, Waiting, Chair, Shaven, Gone
  <2> QED BY <2>7 DEF ShopStep, Abstract!Next
<1>8. CASE first_shave[c] /\ ~q_full
  <2>1. /\ enqueue(c)
        /\ status' = IF status = "SLEEPING" THEN "WOKEN_UP" ELSE status
    BY <1>2, <1>8 DEF Enter, JoinQueue
  <2>2. Waiting' = Append(Waiting, c)
    BY <1>8, <2>1, Enqueued
  <2>3. Chair' = Chair
    <3>1. \A d \in Clients : InChair(d)' <=> InChair(d)
      BY <1>1, <2>1 DEF InChair
    <3> QED BY <1>1, <3>1 DEF Chair
  <2>4. Gone' = Gone
    BY <1>1, <1>2, <1>3, <1>8 DEF Gone
  <2>5. IsOpen /\ Len(Waiting) < seats
    BY <1>8, RoomSeen
  <2>6. c \notin Gone /\ Chair # c /\ \A i \in 1..Len(Waiting) : Waiting[i] # c
    BY <1>1, <1>8, OutsideSeen
  <2>7. Abstract!Outside(c) /\ Abstract!Room
    BY <2>5, <2>6 DEF Abstract!Outside, Abstract!Room, IsOpen, Waiting, Chair, Gone
  <2>8. Abstract!Arrive(c)
    BY <1>4, <1>6, <2>2, <2>3, <2>4, <2>7
       DEF Abstract!Arrive, IsOpen, Waiting, Chair, Shaven, Gone
  <2> QED BY <2>8 DEF ShopStep, Abstract!Next
<1>9. CASE ~first_shave[c]
  <2>1. status # "SLEEPING"
    <3>1. SUFFICES ASSUME status = "SLEEPING" PROVE FALSE
      OBVIOUS
    <3>2. Queued(c) \/ InChair(c)
      BY <1>1, <1>9 DEF IInv, NobodyForgotten, Waits
    <3> QED BY <3>1, <3>2 DEF IInv, QueueInv, Queued, InChair
  <2>2. UNCHANGED <<status, total_clients, q>>
    BY <1>2, <1>9, <2>1 DEF Enter, JoinQueue
  <2>3. \A d \in Clients : /\ InChair(d)' <=> InChair(d)
                           /\ pc'[d] = "left" <=> pc[d] = "left"
    BY <1>1, <1>2, <1>3, <1>9, <2>2 DEF InChair
  <2> QED BY <1>4, <1>5, <2>2, <2>3, ShopUnchanged
<1> QED BY <1>2, <1>7, <1>8, <1>9

LEMMA SitDownSeen ==
  ASSUME IInv, NEW c \in Clients, SitDown(c) PROVE ShopStep
<1>1. /\ pc[c] = "invite"
      /\ UNCHANGED <<total_clients, waiting_room_size, curr_client, q, curr_shave>>
      /\ \A d \in Clients : InChair(d)' <=> InChair(d)
  BY DEF SitDown, Holding, is_invited, InChair
<1>2. /\ \A d \in Clients : pc'[d] = pc[d] \/ (pc[d] = "invite" /\ pc'[d] = "shave")
      /\ pc'[Barber] = pc[Barber]
  BY <1>1, ConstantsAssumption DEF SitDown, IInv, TypeOK, Procs
<1>3. \A d \in Clients : pc[d] = "left" => client_status'[d] = client_status[d]
  BY <1>1 DEF SitDown, IInv, TypeOK
<1>4. \A d \in Clients : Received(d)' = Received(d)
  BY <1>1, <1>2, <1>3 DEF Received
<1>5. IsOpen' <=> IsOpen
  BY <1>1, <1>2 DEF IsOpen
<1> QED BY <1>1, <1>2, <1>4, <1>5, ShopUnchanged

(* Getting up frees the chair; in the same critical section the client     *)
(* queues again or goes.                                                   *)
LEMMA GetUpSeen ==
  ASSUME IInv, IInv', NEW c \in Clients, PollShaven(c), is_shaven(c) PROVE ShopStep
<1>1. /\ pc[c] = "shave" /\ GetUp(c) /\ status = "END_SHAVING" /\ curr_client = c
      /\ UNCHANGED <<waiting_room_size, curr_client, given>>
  BY DEF PollShaven, Holding, is_shaven
<1>2. curr_shave[c] \in 1..shaves /\ Received(c) = curr_shave[c] - 1
  BY <1>1 DEF IInv, LocalInv, TypeOK, Received
<1> DEFINE stays == curr_shave[c] < shaves /\ ~q_full
           more == curr_shave[c] < shaves
<1>3. /\ status' = "FREE"
      /\ client_status' = [client_status EXCEPT ![c] = "SHAVEN"]
      /\ pc' = [pc EXCEPT ![c] = IF stays THEN "arrive" ELSE "left"]
      /\ stays => enqueue(c)
      /\ ~stays => UNCHANGED <<q, total_clients>>
      /\ curr_shave' = IF more /\ ~stays THEN curr_shave
                       ELSE [curr_shave EXCEPT ![c] = curr_shave[c] + 1]
  BY <1>1, <1>2, ConstantsAssumption DEF GetUp, Requeue
<1>4. /\ \A d \in Clients :
           /\ pc'[d] = IF d # c THEN pc[d] ELSE IF stays THEN "arrive" ELSE "left"
           /\ client_status'[d] = IF d # c THEN client_status[d] ELSE "SHAVEN"
           /\ curr_shave'[d] = IF d # c \/ (more /\ ~stays) THEN curr_shave[d]
                               ELSE curr_shave[d] + 1
      /\ pc'[Barber] = pc[Barber]
  BY <1>3, ConstantsAssumption DEF IInv, TypeOK, Procs
<1>5. Received(c)' = curr_shave[c]
  BY <1>2, <1>4, ConstantsAssumption DEF Received
<1>6. \A d \in Clients : d # c => Received(d)' = Received(d)
  BY <1>4 DEF Received
<1>7. /\ Shaven' = [Shaven EXCEPT ![c] = Shaven[c] + 1]
      /\ Shaven'[c] = curr_shave[c]
  <2>1. Shaven[c] + 1 = curr_shave[c]
    BY <1>2 DEF Shaven
  <2> QED BY <1>5, <1>6, <2>1 DEF Shaven
<1>8. Chair = c /\ Chair' = Nobody
  <2>1. InChair(c) /\ \A d \in Clients : ~InChair(d)'
    BY <1>1, <1>3 DEF InChair
  <2> QED BY <2>1, ChairSeen DEF Chair
<1>9. IsOpen' = IsOpen
  BY <1>1, <1>4 DEF IsOpen
<1>10. (IsOpen /\ Len(Waiting) < seats) <=> ~q_full
  BY RoomSeen
<1>11. CASE stays
  <2>1. Waiting' = Append(Waiting, c)
    BY <1>3, <1>11, Enqueued
  <2>2. Gone' = Gone
    BY <1>1, <1>4, <1>11 DEF Gone
  <2>3. Shaven'[c] < shaves /\ IsOpen /\ Len(Waiting) < seats
    BY <1>7, <1>10, <1>11
  <2>4. Abstract!GetUp(c)
    BY <1>7, <1>8, <1>9, <2>1, <2>2, <2>3
       DEF Abstract!GetUp, Abstract!Room, IsOpen, Waiting, Chair, Shaven, Gone
  <2> QED BY <2>4 DEF ShopStep, Abstract!Next
<1>12. CASE ~stays
  <2>1. Waiting' = Waiting
    BY <1>3, <1>12 DEF Waiting
  <2>2. Gone' = Gone \cup {c}
    BY <1>4, <1>12 DEF Gone
  <2>3. Shaven'[c] = shaves \/ ~(IsOpen /\ Len(Waiting) < seats)
    BY <1>2, <1>7, <1>10, <1>12, ConstantsAssumption
  <2>4. Abstract!GetUp(c)
    BY <1>7, <1>8, <1>9, <2>1, <2>2, <2>3
       DEF Abstract!GetUp, Abstract!Room, IsOpen, Waiting, Chair, Shaven, Gone
  <2> QED BY <2>4 DEF ShopStep, Abstract!Next
<1> QED BY <1>11, <1>12

LEMMA PollShavenSeen ==
  ASSUME IInv, IInv', NEW c \in Clients, PollShaven(c) PROVE ShopStep
<1>1. CASE ~is_shaven(c)
  BY <1>1, TakeUnseen DEF PollShaven, shop
<1> QED BY <1>1, GetUpSeen

(* First come, first served, one chair, no shave lost: the polling         *)
(* processes with their semaphore, killed wherever a signal finds them,    *)
(* are the sleeping barber and his customers.                              *)
THEOREM Refinement == Spec \/ VariantSpec => ImplementsSleepingBarber
<1>1. Init \/ VariantInit => Abstract!Init
  <2> SUFFICES ASSUME InitShop PROVE Abstract!Init
    BY DEF Init, VariantInit
  <2>1. /\ status = "SLEEPING" /\ total_clients = 0 /\ pc[Barber] = "init"
        /\ \A c \in Clients : pc[c] = "arrive" /\ curr_shave[c] = 1
    BY ConstantsAssumption DEF InitShop, Procs
  <2>2. \A c \in Clients : Received(c) = 0 /\ ~InChair(c)
    <3>1. \A c \in Clients : Received(c) = curr_shave[c] - 1
      BY <2>1 DEF Received
    <3>2. ASSUME NEW c \in Clients PROVE Received(c) = 0
      <4>1. Received(c) = curr_shave[c] - 1 /\ curr_shave[c] = 1
        BY <2>1, <3>1
      <4> QED BY <4>1
    <3>3. ASSUME NEW c \in Clients PROVE ~InChair(c)
      BY <2>1 DEF InChair
    <3> QED BY <3>2, <3>3
  <2>3. Waiting = <<>>
    BY <2>1 DEF Waiting
  <2> QED BY <2>1, <2>2, <2>3 DEF Abstract!Init, Waiting
<1>2. IInv /\ IInv' /\ ([Next]_vars \/ [VariantNext]_allVars)
        => [Abstract!Next]_<<IsOpen, Waiting, Chair, Shaven, Gone>>
  <2> SUFFICES ASSUME IInv, IInv', AnyStep PROVE ShopStep
    BY VariantSteps DEF ShopStep, AnyStep
  <2>1. CASE init_barbershop \/ sig_handler
    BY <2>1, InitOpens
  <2>2. CASE BarberTake \/ OpenSemaphore \/ UNCHANGED vars
    BY <2>2, TakeUnseen DEF BarberTake, OpenSemaphore, vars
  <2>3. CASE BarberTurn
    BY <2>3, BarberTurnSeen
  <2>4. ASSUME NEW c \in Clients, ClientTake(c) PROVE ShopStep
    BY <2>4, TakeUnseen DEF ClientTake
  <2>5. ASSUME NEW c \in Clients, ClientTurn(c) PROVE ShopStep
    BY <2>5, EnterSeen, SitDownSeen, PollShavenSeen DEF ClientTurn
  <2>6. ASSUME NEW c \in Clients, ClientKilled(c) \/ SemopFails(c) PROVE ShopStep
    BY <2>6, KillUnseen
  <2> QED BY <2>1, <2>2, <2>3, <2>4, <2>5, <2>6 DEF AnyStep, Next
<1> QED BY <1>1, <1>2, Invariance, PTL
        DEF ImplementsSleepingBarber, Abstract!Spec, Abstract!vars, Spec, VariantSpec,
            IsOpen, Waiting, Chair, Shaven, Gone
===============================================================================
