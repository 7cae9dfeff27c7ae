------------------------------ MODULE MutexRing ------------------------------
(***************************************************************************)
(* lab7_threads/mutex: producer threads copy the lines of a file into a    *)
(* cyclic array of N pointers, consumer threads take them out.  Producers  *)
(* exclude each other by prod_mutex, consumers by cons_mutex, and both     *)
(* lock the mutex of the slot they touch; but a producer that tests a slot *)
(* does not hold what the consumer that empties it holds, and the main     *)
(* thread sets done_producing holding nothing.                             *)
(*                                                                         *)
(* A step is what a thread does between two points at which another thread *)
(* can tell the difference: a lock, an unsynchronised read or write of a   *)
(* slot or of done_producing, a condition wait, a broadcast.               *)
(***************************************************************************)
EXTENDS Integers, Sequences

CONSTANTS
  Producers, Consumers,  \* the P threads, and the K or fewer
  Main,                  \* the thread that creates and joins them
  Unlocked,              \* the owner of a mutex nobody holds
  N,                     \* size of the cyclic array
  LINES,                 \* lines in the file
  Signals                \* may SIGINT or SIGALRM arrive

Threads == Producers \cup Consumers
Slots == 0..N-1
Lines == 1..LINES
NULL == 0

ASSUME ConstantsAssumption ==
  /\ Producers \cap Consumers = {}
  /\ Main \notin Threads /\ Unlocked \notin Threads
  /\ N \in Nat \ {0}
  /\ LINES \in Nat
  /\ Signals \in BOOLEAN

VARIABLES
  next_line,                             \* what fgets returns next
  shared_resource, curr_prod, curr_cons, \* the cyclic array
  prod_mutex, cons_mutex, resource_mutexes,
  read_cond, write_cond,                 \* the threads blocked in each wait
  done_producing,
  pc,                                    \* where each thread is
  line, curr_index,                      \* locals of the threads
  put, got                               \* history: lines in the order in which
                                         \* they entered and left the array

ring == <<shared_resource, curr_prod, curr_cons>>
mutexes == <<prod_mutex, cons_mutex, resource_mutexes>>
conds == <<read_cond, write_cond>>
locals == <<line, curr_index>>
history == <<put, got>>
vars == <<next_line, ring, mutexes, conds, done_producing, pc, locals, history>>

At(t, place) == pc[t] = place
Goto(t, place) == pc' = [pc EXCEPT ![t] = place]

after(i) == (i + 1) % N

(* mutant: a slot is taken for empty *)
slot_full_never(i) == FALSE

slot_full(i) == shared_resource[i] # NULL

-------------------------------------------------------------------------------
(* produce *)

fgets(p) ==
  /\ At(p, "fgets")
  /\ \/ /\ next_line <= LINES
        /\ line' = [line EXCEPT ![p] = next_line]
        /\ next_line' = next_line + 1
        /\ Goto(p, "lock")
     \/ /\ next_line > LINES
        /\ Goto(p, "finished")
        /\ UNCHANGED <<line, next_line>>
  /\ UNCHANGED <<ring, mutexes, conds, done_producing, curr_index, history>>

(* Also what pthread_cond_wait does last, once the thread is woken. *)
LockProd(p) ==
  /\ At(p, "lock") /\ prod_mutex = Unlocked
  /\ prod_mutex' = p
  /\ Goto(p, "test")
  /\ UNCHANGED <<next_line, ring, cons_mutex, resource_mutexes, conds,
                 done_producing, locals, history>>

(* The while condition.  A free slot is claimed at once: only a producer   *)
(* that holds prod_mutex can fill it or move curr_prod.                    *)
ProdTest(p) ==
  /\ At(p, "test")
  /\ \/ /\ slot_full(curr_prod)
        /\ Goto(p, "block")
        /\ UNCHANGED <<curr_index, curr_prod>>
     \/ /\ ~slot_full(curr_prod)
        /\ curr_index' = [curr_index EXCEPT ![p] = curr_prod]
        /\ curr_prod' = after(curr_prod)
        /\ Goto(p, "store")
  /\ UNCHANGED <<next_line, shared_resource, curr_cons, mutexes, conds,
                 done_producing, line, history>>

(* pthread_cond_wait gives up the mutex and blocks in one step. *)
ProdWait(p) ==
  /\ At(p, "block")
  /\ prod_mutex' = Unlocked
  /\ write_cond' = write_cond \cup {p}
  /\ Goto(p, "waiting")
  /\ UNCHANGED <<next_line, ring, cons_mutex, resource_mutexes, read_cond,
                 done_producing, locals, history>>

(* mutant: the mutex of the slot is not locked *)
LockResource_not(t) == UNCHANGED resource_mutexes

LockResource(t) ==
  LET i == curr_index[t] IN
  /\ resource_mutexes[i] = Unlocked
  /\ resource_mutexes' = [resource_mutexes EXCEPT ![i] = t]

(* The pointer is in the array, visible to consumers, before the text is   *)
(* copied.                                                                 *)
Store(p) ==
  /\ At(p, "store")
  /\ LockResource(p)
  /\ shared_resource' = [shared_resource EXCEPT ![curr_index[p]] = line[p]]
  /\ put' = Append(put, line[p])
  /\ Goto(p, "copy")
  /\ UNCHANGED <<next_line, curr_prod, curr_cons, prod_mutex, cons_mutex, conds,
                 done_producing, locals, got>>

(* The text is copied; consumers are told and both mutexes unlocked. *)
Publish(p) ==
  /\ At(p, "copy")
  /\ read_cond' = {}
  /\ resource_mutexes' = [resource_mutexes EXCEPT ![curr_index[p]] = Unlocked]
  /\ prod_mutex' = Unlocked
  /\ pc' = [t \in DOMAIN pc |-> IF t = p THEN "fgets"
                               ELSE IF t \in read_cond THEN "lock" ELSE pc[t]]
  /\ UNCHANGED <<next_line, ring, cons_mutex, write_cond, done_producing, locals,
                 history>>

-------------------------------------------------------------------------------
(* consume *)

LockCons(k) ==
  /\ At(k, "lock") /\ cons_mutex = Unlocked
  /\ cons_mutex' = k
  /\ Goto(k, "test")
  /\ UNCHANGED <<next_line, ring, prod_mutex, resource_mutexes, conds,
                 done_producing, locals, history>>

ConsTest(k) ==
  /\ At(k, "test")
  /\ \/ /\ ~slot_full(curr_cons)
        /\ Goto(k, "ask")
        /\ UNCHANGED <<curr_index, curr_cons>>
     \/ /\ slot_full(curr_cons)
        /\ curr_index' = [curr_index EXCEPT ![k] = curr_cons]
        /\ curr_cons' = after(curr_cons)
        /\ Goto(k, "enter")
  /\ UNCHANGED <<next_line, shared_resource, curr_prod, mutexes, conds,
                 done_producing, line, history>>

(* mutant: the consumer that returns keeps cons_mutex *)
AskDone_keeps(k) ==
  /\ At(k, "ask")
  /\ Goto(k, IF done_producing THEN "finished" ELSE "block")
  /\ UNCHANGED <<next_line, ring, mutexes, conds, done_producing, locals, history>>

(* Read some time after the slot was. *)
AskDone(k) ==
  /\ At(k, "ask")
  /\ \/ done_producing /\ Goto(k, "finished") /\ cons_mutex' = Unlocked
     \/ ~done_producing /\ Goto(k, "block") /\ UNCHANGED cons_mutex
  /\ UNCHANGED <<next_line, ring, prod_mutex, resource_mutexes, conds,
                 done_producing, locals, history>>

ConsWait(k) ==
  /\ At(k, "block")
  /\ cons_mutex' = Unlocked
  /\ read_cond' = read_cond \cup {k}
  /\ Goto(k, "waiting")
  /\ UNCHANGED <<next_line, ring, prod_mutex, resource_mutexes, write_cond,
                 done_producing, locals, history>>

(* The slot's mutex is locked before cons_mutex is unlocked. *)
EnterSlot(k) ==
  /\ At(k, "enter")
  /\ LockResource(k)
  /\ cons_mutex' = Unlocked
  /\ Goto(k, "take")
  /\ UNCHANGED <<next_line, ring, prod_mutex, conds, done_producing, locals,
                 history>>

(* The slot may be empty here: see ConsTest. *)
Take(k) ==
  LET i == curr_index[k] IN
  /\ At(k, "take")
  /\ line' = [line EXCEPT ![k] = shared_resource[i]]
  /\ shared_resource' = [shared_resource EXCEPT ![i] = NULL]
  /\ got' = IF shared_resource[i] = NULL THEN got
            ELSE Append(got, shared_resource[i])
  /\ Goto(k, "announce")
  /\ UNCHANGED <<next_line, curr_prod, curr_cons, mutexes, conds, done_producing,
                 curr_index, put>>

(* Producers are told, the slot's mutex is unlocked and the line freed. *)
Announce(k) ==
  /\ At(k, "announce")
  /\ write_cond' = {}
  /\ resource_mutexes' = [resource_mutexes EXCEPT ![curr_index[k]] = Unlocked]
  /\ line' = [line EXCEPT ![k] = NULL]
  /\ pc' = [t \in DOMAIN pc |-> IF t = k \/ t \in write_cond THEN "lock" ELSE pc[t]]
  /\ UNCHANGED <<next_line, ring, prod_mutex, cons_mutex, read_cond,
                 done_producing, curr_index, history>>

-------------------------------------------------------------------------------
(* main: wait_threads.  The flag and the broadcast hold no mutex. *)

JoinProducers ==
  /\ At(Main, "join_producers")
  /\ \A p \in Producers : At(p, "finished")
  /\ done_producing' = TRUE
  /\ Goto(Main, "broadcast")
  /\ UNCHANGED <<next_line, ring, mutexes, conds, locals, history>>

BroadcastDone ==
  /\ At(Main, "broadcast")
  /\ read_cond' = {}
  /\ pc' = [t \in DOMAIN pc |-> IF t = Main THEN "join_consumers"
                               ELSE IF t \in read_cond THEN "lock" ELSE pc[t]]
  /\ UNCHANGED <<next_line, ring, mutexes, write_cond, done_producing, locals,
                 history>>

JoinConsumers ==
  /\ At(Main, "join_consumers")
  /\ \A k \in Consumers : pc[k] \in {"finished", "absent"}
  /\ Goto(Main, "clean_up")
  /\ UNCHANGED <<next_line, ring, mutexes, conds, done_producing, locals, history>>

(* The lines left in the array are freed, and main returns. *)
clean_up ==
  /\ At(Main, "clean_up")
  /\ shared_resource' = [i \in Slots |-> NULL]
  /\ Goto(Main, "exited")
  /\ UNCHANGED <<next_line, curr_prod, curr_cons, mutexes, conds, done_producing,
                 locals, history>>

(* SIGINT, or the SIGALRM of alarm(nk): exit, whatever the threads do. *)
sig_handler ==
  /\ Signals
  /\ Goto(Main, "killed")
  /\ UNCHANGED <<next_line, ring, mutexes, conds, done_producing, locals, history>>

(* pthread_cond_wait may return although nobody broadcast. *)
SpuriousWakeup(t) ==
  /\ t \in read_cond \cup write_cond
  /\ read_cond' = read_cond \ {t}
  /\ write_cond' = write_cond \ {t}
  /\ Goto(t, "lock")
  /\ UNCHANGED <<next_line, ring, mutexes, done_producing, locals, history>>

-------------------------------------------------------------------------------
Init ==
  /\ next_line = 1
  /\ shared_resource = [i \in Slots |-> NULL]
  /\ curr_prod = 0 /\ curr_cons = 0
  /\ prod_mutex = Unlocked /\ cons_mutex = Unlocked
  /\ resource_mutexes = [i \in Slots |-> Unlocked]
  /\ read_cond = {} /\ write_cond = {}
  /\ done_producing = FALSE
  /\ \E created \in SUBSET Consumers \ {{}} :
       pc = [t \in Threads \cup {Main} |->
               CASE t = Main -> "join_producers"
                 [] t \in Producers -> "fgets"
                 [] t \in created -> "lock"
                 [] OTHER -> "absent"]
  /\ line = [t \in Threads |-> NULL]
  /\ curr_index = [t \in Threads |-> 0]
  /\ put = <<>> /\ got = <<>>

produce(p) ==
  fgets(p) \/ LockProd(p) \/ ProdTest(p) \/ ProdWait(p) \/ Store(p) \/ Publish(p)

consume(k) ==
  \/ LockCons(k) \/ ConsTest(k) \/ AskDone(k) \/ ConsWait(k)
  \/ EnterSlot(k) \/ Take(k) \/ Announce(k)

wait_threads == JoinProducers \/ BroadcastDone \/ JoinConsumers

Running == pc[Main] \notin {"exited", "killed"}

Next ==
  /\ Running
  /\ \/ \E p \in Producers : produce(p)
     \/ \E k \in Consumers : consume(k)
     \/ wait_threads
     \/ clean_up
     \/ sig_handler
     \/ \E t \in Threads : SpuriousWakeup(t)

Spec == Init /\ [][Next]_vars

(* Threads keep running, and a mutex that is unlocked again and again is    *)
(* obtained in the end; nothing wakes a waiting thread but a broadcast.    *)
Fairness ==
  /\ \A p \in Producers : SF_vars(Running /\ produce(p))
  /\ \A k \in Consumers : SF_vars(Running /\ consume(k))
  /\ WF_vars(Running /\ (wait_threads \/ clean_up))

FairSpec == Spec /\ Fairness

-------------------------------------------------------------------------------
(* Correctness *)

Places == {"fgets", "lock", "test", "ask", "block", "waiting", "store", "copy",
           "enter", "take", "announce", "finished", "absent"}
MainPlaces == {"join_producers", "broadcast", "join_consumers", "clean_up", "exited",
               "killed"}

(* Types of the globals and of the threads' locals: indices stay inside     *)
(* the array, mutexes belong to threads.                                   *)
TypeOK ==
  /\ next_line \in 1..LINES+1
  /\ shared_resource \in [Slots -> Lines \cup {NULL}]
  /\ curr_prod \in Slots /\ curr_cons \in Slots
  /\ prod_mutex \in Producers \cup {Unlocked}
  /\ cons_mutex \in Consumers \cup {Unlocked}
  /\ resource_mutexes \in [Slots -> Threads \cup {Unlocked}]
  /\ read_cond \subseteq Consumers /\ write_cond \subseteq Producers
  /\ done_producing \in BOOLEAN
  /\ pc \in [Threads \cup {Main} -> Places \cup MainPlaces]
  /\ line \in [Threads -> Lines \cup {NULL}]
  /\ curr_index \in [Threads -> Slots]
  /\ put \in Seq(Lines) /\ got \in Seq(Lines)

(* The places a line can be in between the file and free(): in the hands    *)
(* of a producer that has not stored it, in a slot, taken.                 *)
PlacesOf(l) ==
  {<<"producer", p>> : p \in {p \in Producers :
                               /\ line[p] = l
                               /\ pc[p] \in {"lock", "test", "block", "waiting",
                                             "store"}}}
    \cup {<<"slot", i>> : i \in {i \in Slots : shared_resource[i] = l}}
    \cup {<<"taken", n>> : n \in {n \in 1..Len(got) : got[n] = l}}

(* Whatever the number of consumers and however they wrap around the array  *)
(* past each other: every line read from the file is in exactly one place, *)
(* so none is overwritten in its slot, none is taken twice and clean_up frees *)
(* what no consumer will.                                                  *)
OnePlacePerLine == pc[Main] # "exited" =>
  \A l \in Lines : /\ PlacesOf(l) # {} <=> l < next_line
                    /\ \A x, y \in PlacesOf(l) : x = y

(* A consumer sees a pointer before its text is copied, and waits for the   *)
(* slot's mutex: none reads a slot while a producer copies into it, nor do *)
(* two consumers empty one slot together.                                  *)
SlotExclusive ==
  \A t, u \in Threads :
    /\ pc[t] \in {"copy", "take", "announce"}
    /\ pc[u] \in {"copy", "take", "announce"}
    /\ curr_index[t] = curr_index[u]
    => t = u

(* No order of locks can block the threads: when none can take a step, the  *)
(* ones that have not finished wait for a broadcast, and no mutex is held. *)
Stuck == Running /\ ~ENABLED (wait_threads \/ clean_up \/ (\E p \in Producers : produce(p))
                                         \/ (\E k \in Consumers : consume(k)))
StuckOnlyInWaits ==
  Stuck => /\ \A t \in Threads : pc[t] \in {"waiting", "finished", "absent"}
           /\ prod_mutex = Unlocked /\ cons_mutex = Unlocked
           /\ \A i \in Slots : resource_mutexes[i] = Unlocked

(* wait_threads says "wait for all threads to finish" (main.c:93): without  *)
(* signals, the threads do finish and the program ends.                    *)
Termination == <>(pc[Main] = "exited")

(* With one consumer the array is a first-in first-out buffer of N lines.   *)
Buffer == INSTANCE BoundedBuffer WITH
  waiting <- Lines \ {put[n] : n \in 1..Len(put)},
  buffer  <- SubSeq(put, Len(got) + 1, Len(put)),
  taken   <- got

single ==
  \A j, k \in Consumers : ~At(j, "absent") /\ ~At(k, "absent") => j = k

ImplementsBuffer ==
  /\ single => Buffer!Init
  /\ [][single => [Buffer!Next]_Buffer!vars]_vars
===============================================================================
