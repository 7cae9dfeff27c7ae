-------------------------- MODULE BarbershopVariants --------------------------
(***************************************************************************)
(* Both variants of the barbershop of lab6_semaphores_shared_mem.  The     *)
(* System V one has the same barber and the same clients; what differs is  *)
(* the semaphore.  Its barber creates it with the value 0 and returns it   *)
(* once, and removes it at the end, which ends every client that uses it   *)
(* afterwards.  An identifier 0 is taken for no semaphore and not removed. *)
(*                                                                         *)
(* One barber at a time, started with no semaphore or segment left over;   *)
(* clients are started when both exist.                                    *)
(***************************************************************************)
EXTENDS Barbershop

VARIABLES
  variant,       \* "posix", "sysv", or "sysv_id0" with the identifier 0
  semaphore      \* "created", "open" or "removed"

allVars == <<vars, variant, semaphore>>

(* sem_return of the System V init_barbershop, before it writes the shop. *)
OpenSemaphore ==
  /\ pc[Barber] = "init" /\ semaphore = "created"
  /\ sem' = sem + 1
  /\ semaphore' = "open"
  /\ UNCHANGED <<shop, holders, pc, client_vars, given, variant>>

WhileOpen(step) == semaphore = "open" /\ step /\ UNCHANGED <<variant, semaphore>>

OpenShop == WhileOpen(init_barbershop)
BarberTakes == WhileOpen(BarberTake)
BarberTurns == WhileOpen(BarberTurn)
ClientTakes(c) == WhileOpen(ClientTake(c))
ClientTurns(c) == WhileOpen(ClientTurn(c))

(* mutant: the semaphore is only closed, as in the POSIX variant *)
removes_never == FALSE

removes == variant = "sysv"

clean_up ==
  /\ sig_handler
  /\ semaphore' = IF removes THEN "removed" ELSE semaphore
  /\ UNCHANGED variant

(* semop fails; what a client wrote before its sem_return nobody reads. *)
SemopFails(c) ==
  /\ semaphore = "removed"
  /\ pc[c] \in {"arrive", "invite", "shave"}
  /\ pc' = [pc EXCEPT ![c] = "exited"]
  /\ UNCHANGED <<shop, sem, holders, client_vars, given, variant, semaphore>>

VariantInit ==
  /\ InitShop
  /\ \/ variant = "posix" /\ sem = 1 /\ semaphore = "open"
     \/ variant \in {"sysv", "sysv_id0"} /\ sem = 0 /\ semaphore = "created"

VariantNext ==
  \/ OpenSemaphore \/ OpenShop \/ BarberTakes \/ BarberTurns \/ clean_up
  \/ \E c \in Clients :
       \/ ClientTakes(c) \/ ClientTurns(c) \/ SemopFails(c)
       \/ ClientKilled(c) /\ UNCHANGED <<variant, semaphore>>

(* As in Barbershop: processes keep running, and none is passed over for   *)
(* ever by a semaphore that is returned again and again.                   *)
VariantSpec ==
  /\ VariantInit /\ [][VariantNext]_allVars
  /\ WF_allVars(OpenSemaphore) /\ WF_allVars(OpenShop)
  /\ SF_allVars(BarberTakes) /\ WF_allVars(BarberTurns)
  /\ \A c \in Clients :
       SF_allVars(ClientTakes(c)) /\ WF_allVars(ClientTurns(c)) /\ WF_allVars(SemopFails(c))

(* System V: no client goes on polling a shop whose barber has left,       *)
(* wherever it was when the barber left, the critical section included.    *)
ClientsGoWithBarber ==
  variant = "sysv" /\ pc[Barber] = "exited"
    ~> \A c \in Clients : pc[c] \in {"left", "killed", "exited"}
===============================================================================
