------------------------------- MODULE SemRing -------------------------------
(***************************************************************************)
(* lab7_threads/unnamed_semaphore: the cyclic array of lines with N+3      *)
(* semaphores instead of mutexes and conditions.  sems[N] admits one       *)
(* producer at a time to a claim, sems[N+1] one consumer to the whole of   *)
(* its turn, sems[N+2] counts the free slots and sems[0..N-1] guard the    *)
(* slots.  Producers copy side by side, each into the slot it claimed; a   *)
(* consumer that finds no line gives sems[N+1] back and polls.             *)
(*                                                                         *)
(* A step ends where another thread can tell the difference; the sem_posts *)
(* that end a turn follow each other with nothing between and never block, *)
(* so they are one step with what comes before them.                       *)
(***************************************************************************)
EXTENDS Integers, Sequences, FiniteSets

CONSTANTS
  Producers, Consumers,  \* the P and the K threads
  Main,                  \* the thread that creates and joins them
  N,                     \* size of the cyclic array
  LINES,                 \* lines in the file
  Signals                \* may SIGINT or SIGALRM arrive

Threads == Producers \cup Consumers
Slots == 0..N-1
Lines == 1..LINES
NULL == 0

ASSUME ConstantsAssumption ==
  /\ Producers \cap Consumers = {}
  /\ Main \notin Threads
  /\ N \in Nat \ {0}
  /\ LINES \in Nat
  /\ Signals \in BOOLEAN

VARIABLES
  full_info,                             \* the configuration asks for messages
  next_line,                             \* what fgets returns next
  shared_resource, curr_prod, curr_cons, \* the cyclic array
  sems,                                  \* the N+3 semaphores
  done_producing,
  pc,                                    \* where each thread is
  line, curr_index,                      \* locals of the threads
  put, got                               \* history: lines in the order in which
                                         \* their slots were claimed and emptied

ring == <<shared_resource, curr_prod, curr_cons>>
locals == <<line, curr_index>>
history == <<put, got>>
vars == <<full_info, next_line, ring, sems, done_producing, pc, locals, history>>

At(t, place) == pc[t] = place
Goto(t, place) == pc' = [pc EXCEPT ![t] = place]

after(i) == (i + 1) % N

(* mutant: an empty slot is taken for a line *)
slot_full_always(i) == TRUE

slot_full(i) == shared_resource[i] # NULL

(* sems after waiting on the semaphores of set w and posting those of p. *)
SemsAfter(w, p) ==
  [s \in DOMAIN sems |-> sems[s] - (IF s \in w THEN 1 ELSE 0)
                                 + (IF s \in p THEN 1 ELSE 0)]

sem_wait(s) == sems[s] > 0 /\ sems' = SemsAfter({s}, {})

-------------------------------------------------------------------------------
(* produce *)

fgets(p) ==
  /\ At(p, "fgets")
  /\ \/ /\ next_line <= LINES
        /\ line' = [line EXCEPT ![p] = next_line]
        /\ next_line' = next_line + 1
        /\ Goto(p, "wait")
     \/ /\ next_line > LINES
        /\ Goto(p, "finished")
        /\ UNCHANGED <<line, next_line>>
  /\ UNCHANGED <<full_info, ring, sems, done_producing, curr_index, history>>

WaitTurn(p) ==
  /\ At(p, "wait")
  /\ sem_wait(N)
  /\ Goto(p, "claim")
  /\ UNCHANGED <<full_info, next_line, ring, done_producing, locals, history>>

(* Once a slot is free, the next one is this producer's. *)
Claim(p) ==
  /\ At(p, "claim")
  /\ sem_wait(N+2)
  /\ curr_index' = [curr_index EXCEPT ![p] = curr_prod]
  /\ curr_prod' = after(curr_prod)
  /\ put' = Append(put, line[p])
  /\ Goto(p, "guard")
  /\ UNCHANGED <<full_info, next_line, shared_resource, curr_cons,
                 done_producing, line, got>>

(* mutant: the slot's semaphore is tested and left at one *)
held_not(i) == {}

held(i) == {i}

(* The slot's semaphore is taken before the next producer may claim. *)
Guard(p) ==
  LET i == curr_index[p] IN
  /\ At(p, "guard")
  /\ sems[i] > 0
  /\ sems' = SemsAfter(held(i), {N})
  /\ Goto(p, "store")
  /\ UNCHANGED <<full_info, next_line, ring, done_producing, locals, history>>

(* The pointer is in the array before the text is copied. *)
Store(p) ==
  /\ At(p, "store")
  /\ shared_resource' = [shared_resource EXCEPT ![curr_index[p]] = line[p]]
  /\ Goto(p, "copy")
  /\ UNCHANGED <<full_info, next_line, curr_prod, curr_cons, sems,
                 done_producing, locals, history>>

Publish(p) ==
  /\ At(p, "copy")
  /\ sems' = SemsAfter({}, {curr_index[p]})
  /\ Goto(p, "fgets")
  /\ UNCHANGED <<full_info, next_line, ring, done_producing, locals, history>>

-------------------------------------------------------------------------------
(* consume *)

WaitCons(k) ==
  /\ At(k, "wait")
  /\ sem_wait(N+1)
  /\ Goto(k, "test")
  /\ UNCHANGED <<full_info, next_line, ring, done_producing, locals, history>>

(* mutant: a consumer that polls keeps the others out *)
given_back_not == {}

given_back == {N+1}

(* The while condition: poll again, or claim the slot. *)
ConsTest(k) ==
  /\ At(k, "test")
  /\ \/ /\ ~slot_full(curr_cons)
        /\ sems' = SemsAfter({}, given_back)
        /\ Goto(k, "ask")
        /\ UNCHANGED <<curr_index, curr_cons>>
     \/ /\ slot_full(curr_cons)
        /\ curr_index' = [curr_index EXCEPT ![k] = curr_cons]
        /\ curr_cons' = after(curr_cons)
        /\ Goto(k, "guard")
        /\ UNCHANGED sems
  /\ UNCHANGED <<full_info, next_line, shared_resource, curr_prod,
                 done_producing, line, history>>

returns == done_producing /\ full_info

(* The return is inside the "if (full_info)" of its message. *)
AskDone(k) ==
  /\ At(k, "ask")
  /\ Goto(k, IF returns THEN "finished" ELSE "wait")
  /\ UNCHANGED <<full_info, next_line, ring, sems, done_producing, locals,
                 history>>

GuardCons(k) ==
  /\ At(k, "guard")
  /\ sem_wait(curr_index[k])
  /\ Goto(k, "take")
  /\ UNCHANGED <<full_info, next_line, ring, done_producing, locals, history>>

(* The slot is emptied. *)
Take(k) ==
  LET i == curr_index[k] IN
  /\ At(k, "take")
  /\ line' = [line EXCEPT ![k] = shared_resource[i]]
  /\ shared_resource' = [shared_resource EXCEPT ![i] = NULL]
  /\ got' = IF shared_resource[i] = NULL THEN got
            ELSE Append(got, shared_resource[i])
  /\ Goto(k, "release")
  /\ UNCHANGED <<full_info, next_line, curr_prod, curr_cons, sems,
                 done_producing, curr_index, put>>

(* mutant: the count of free slots is forgotten *)
posted_uncounted(i) == {N+1, i}

posted(i) == {N+2, N+1, i}

(* The three sem_posts, and the line is freed. *)
Release(k) ==
  /\ At(k, "release")
  /\ sems' = SemsAfter({}, posted(curr_index[k]))
  /\ line' = [line EXCEPT ![k] = NULL]
  /\ Goto(k, "wait")
  /\ UNCHANGED <<full_info, next_line, ring, done_producing, curr_index,
                 history>>

-------------------------------------------------------------------------------
(* main: wait_threads *)

JoinProducers ==
  /\ At(Main, "join_producers")
  /\ \A p \in Producers : At(p, "finished")
  /\ done_producing' = TRUE
  /\ Goto(Main, "join_consumers")
  /\ UNCHANGED <<full_info, next_line, ring, sems, locals, history>>

JoinConsumers ==
  /\ At(Main, "join_consumers")
  /\ \A k \in Consumers : At(k, "finished")
  /\ Goto(Main, "clean_up")
  /\ UNCHANGED <<full_info, next_line, ring, sems, done_producing, locals,
                 history>>

(* The lines left in the array are freed, and main returns. *)
clean_up ==
  /\ At(Main, "clean_up")
  /\ shared_resource' = [i \in Slots |-> NULL]
  /\ Goto(Main, "exited")
  /\ UNCHANGED <<full_info, next_line, curr_prod, curr_cons, sems,
                 done_producing, locals, history>>

(* SIGINT, or the SIGALRM of alarm(nk): exit, whatever the threads do. *)
sig_handler ==
  /\ Signals
  /\ Goto(Main, "killed")
  /\ UNCHANGED <<full_info, next_line, ring, sems, done_producing, locals,
                 history>>

-------------------------------------------------------------------------------
Init ==
  /\ full_info \in BOOLEAN
  /\ next_line = 1
  /\ shared_resource = [i \in Slots |-> NULL]
  /\ curr_prod = 0 /\ curr_cons = 0
  /\ sems = [s \in 0..N+2 |-> IF s = N+2 THEN N ELSE 1]
  /\ done_producing = FALSE
  /\ pc = [t \in Threads \cup {Main} |->
             IF t = Main THEN "join_producers"
             ELSE IF t \in Producers THEN "fgets" ELSE "wait"]
  /\ line = [t \in Threads |-> NULL]
  /\ curr_index = [t \in Threads |-> 0]
  /\ put = <<>> /\ got = <<>>

produce(p) ==
  fgets(p) \/ WaitTurn(p) \/ Claim(p) \/ Guard(p) \/ Store(p) \/ Publish(p)

consume(k) ==
  \/ WaitCons(k) \/ ConsTest(k) \/ AskDone(k)
  \/ GuardCons(k) \/ Take(k) \/ Release(k)

wait_threads == JoinProducers \/ JoinConsumers

Running == pc[Main] \notin {"exited", "killed"}

Next ==
  /\ Running
  /\ \/ \E p \in Producers : produce(p)
     \/ \E k \in Consumers : consume(k)
     \/ wait_threads
     \/ clean_up
     \/ sig_handler

Spec == Init /\ [][Next]_vars

(* Threads keep running, and a semaphore that is posted again and again is  *)
(* obtained in the end.                                                    *)
Fairness ==
  /\ \A p \in Producers : SF_vars(Running /\ produce(p))
  /\ \A k \in Consumers : SF_vars(Running /\ consume(k))
  /\ WF_vars(Running /\ (wait_threads \/ clean_up))

FairSpec == Spec /\ Fairness

-------------------------------------------------------------------------------
(* Correctness *)

Places == {"fgets", "wait", "claim", "guard", "store", "copy",
           "test", "ask", "take", "release", "finished"}
MainPlaces == {"join_producers", "join_consumers", "clean_up", "exited",
               "killed"}

(* Types: the indices stay inside the array, the first N+2 semaphores are   *)
(* binary and the last one counts at most N free slots.                    *)
TypeOK ==
  /\ full_info \in BOOLEAN
  /\ next_line \in 1..LINES+1
  /\ shared_resource \in [Slots -> Lines \cup {NULL}]
  /\ curr_prod \in Slots /\ curr_cons \in Slots
  /\ sems \in [0..N+2 -> 0..N+1]
  /\ \A s \in 0..N+1 : sems[s] <= 1
  /\ sems[N+2] <= N
  /\ done_producing \in BOOLEAN
  /\ pc \in [Threads \cup {Main} -> Places \cup MainPlaces]
  /\ line \in [Threads -> Lines \cup {NULL}]
  /\ curr_index \in [Threads -> Slots]
  /\ put \in Seq(Lines) /\ got \in Seq(Lines)

(* Producers copy side by side and a consumer sees a pointer before its     *)
(* text is copied; still one thread at a time works on a slot.             *)
SlotExclusive ==
  \A t, u \in Threads :
    /\ pc[t] \in {"store", "copy", "take", "release"}
    /\ pc[u] \in {"store", "copy", "take", "release"}
    /\ curr_index[t] = curr_index[u]
    => t = u

(* sems[N+2], waited for by producers and posted by consumers that never    *)
(* hold a common semaphore, counts the slots no line is on its way to, in, *)
(* or not yet given back from.                                             *)
FreeSlotsCounted ==
  sems[N+2] + (Len(put) - Len(got))
            + Cardinality({k \in Consumers : pc[k] = "release"}) = N

(* The array is a first-in first-out buffer of N lines, for any number of   *)
(* producers and consumers: lines leave it in the order in which producers *)
(* had their turn.                                                         *)
Buffer == INSTANCE BoundedBuffer WITH
  waiting <- Lines \ {put[n] : n \in 1..Len(put)},
  buffer  <- SubSeq(put, Len(got) + 1, Len(put)),
  taken   <- got

ImplementsBuffer == Buffer!Spec

(* Main returns exactly when the messages are on.  Then every thread       *)
(* finishes, whichever consumer leaves first, though one may return past a *)
(* line it did not see.  Without them no consumer returns: they consume    *)
(* every line of the file and then poll for ever, and main, which waits    *)
(* for all threads, never gets out of its second loop.                     *)
EndsWithMessages ==
  <>[] \/ pc[Main] = "killed"
       \/ full_info /\ pc[Main] = "exited"
       \/ ~full_info /\ pc[Main] = "join_consumers" /\ Len(got) = LINES
===============================================================================
