--------------------------- MODULE MutexRing_proof ---------------------------
(***************************************************************************)
(* Proofs about MutexRing for any number of producers, consumers, slots    *)
(* and lines.  IInv says which thread holds which mutex, that a line which *)
(* left the file is in one place, and, when there is one consumer, through *)
(* which slot the n-th line passes: (n-1) % N, as in module SemRing.       *)
(***************************************************************************)
EXTENDS MutexRing, SequenceTheorems, TLAPS

(* The places of each program. *)
PlacesInv ==
  /\ \A p \in Producers :
       pc[p] \in {"fgets", "lock", "test", "block", "waiting", "store", "copy",
                  "finished"}
  /\ \A k \in Consumers :
       pc[k] \in {"lock", "test", "ask", "block", "waiting", "enter", "take",
                  "announce", "finished", "absent"}
  /\ pc[Main] \in MainPlaces

(* From where to where each mutex is held, and who waits. *)
InSlot(t) == pc[t] \in {"copy", "take", "announce"}
LocksInv ==
  /\ \A p \in Producers :
       prod_mutex = p <=> pc[p] \in {"test", "block", "store", "copy"}
  /\ \A k \in Consumers :
       cons_mutex = k <=> pc[k] \in {"test", "ask", "block", "enter"}
  /\ \A t \in Threads : \A i \in Slots :
       resource_mutexes[i] = t <=> InSlot(t) /\ curr_index[t] = i

WaitInv ==
  /\ \A k \in Consumers : k \in read_cond <=> pc[k] = "waiting"
  /\ \A p \in Producers : p \in write_cond <=> pc[p] = "waiting"

(* The slot that was tested is empty until the line is stored. *)
StoreInv ==
  \A p \in Producers : pc[p] = "store" => ~slot_full(curr_index[p])

(* A line is with a producer, in a slot or taken, and nowhere else. *)
Holding(p) == pc[p] \in {"lock", "test", "block", "waiting", "store"}
Somewhere(l) ==
  \/ \E p \in Producers : Holding(p) /\ line[p] = l
  \/ \E i \in Slots : shared_resource[i] = l
  \/ \E n \in 1..Len(got) : got[n] = l

LinesInv == pc[Main] # "exited" =>
  /\ \A l \in 1..next_line-1 : Somewhere(l)
  /\ \A p \in Producers : Holding(p) => line[p] \in 1..next_line-1
  /\ \A i \in Slots : slot_full(i) => shared_resource[i] \in 1..next_line-1
  /\ \A n \in 1..Len(got) : got[n] \in 1..next_line-1
  /\ \A p, q \in Producers :
       Holding(p) /\ Holding(q) /\ line[p] = line[q] => p = q
  /\ \A i, j \in Slots :
       slot_full(i) /\ shared_resource[i] = shared_resource[j] => i = j
  /\ \A m, n \in 1..Len(got) : got[m] = got[n] => m = n
  /\ \A p \in Producers : \A i \in Slots : Holding(p) => line[p] # shared_resource[i]
  /\ \A p \in Producers : \A n \in 1..Len(got) : Holding(p) => line[p] # got[n]
  /\ \A i \in Slots : \A n \in 1..Len(got) : shared_resource[i] # got[n]

(* With one consumer: which slots are full, and where the next line enters *)
(* and leaves.                                                             *)
InArray == Len(got)+1..Len(put)
SlotOf(n) == (n-1) % N

ArrayInv ==
  /\ Len(got) <= Len(put) /\ Len(put) - Len(got) <= N
  /\ \A n \in 1..Len(got) : got[n] = put[n]
  /\ \A n \in InArray : shared_resource[SlotOf(n)] = put[n]
  /\ \A i \in Slots : slot_full(i) => \E n \in InArray : i = SlotOf(n)

Leaving(k) == pc[k] \in {"enter", "take"}
TurnInv ==
  /\ (\A p \in Producers : pc[p] # "store") => curr_prod = Len(put) % N
  /\ \A p \in Producers : pc[p] = "store" =>
       curr_prod = (Len(put) + 1) % N /\ curr_index[p] = Len(put) % N
  /\ (\A k \in Consumers : ~Leaving(k)) => curr_cons = Len(got) % N
  /\ \A k \in Consumers : Leaving(k) =>
       /\ curr_cons = (Len(got) + 1) % N /\ curr_index[k] = Len(got) % N
       /\ slot_full(curr_index[k])

FifoInv == single /\ pc[Main] # "exited" => ArrayInv /\ TurnInv

IInv ==
  /\ TypeOK /\ PlacesInv /\ LocksInv /\ WaitInv /\ StoreInv /\ LinesInv /\ FifoInv

-------------------------------------------------------------------------------
(* Remainders: the slots follow each other round the array. *)

LEMMA DivMod ==
  ASSUME NEW n \in Nat \ {0}, NEW a \in Nat
  PROVE  a % n \in 0..n-1 /\ a \div n \in Nat /\ a = n * (a \div n) + (a % n)
OBVIOUS

LEMMA RemainderOf ==
  ASSUME NEW n \in Nat \ {0}, NEW q \in Nat, NEW r \in 0..n-1
  PROVE  (n * q + r) % n = r
<1> SUFFICES ASSUME NEW a \in Nat, a = n * q + r PROVE a % n = r
  OBVIOUS
<1> DEFINE q2 == a \div n  r2 == a % n
<1>1. r2 \in 0..n-1 /\ q2 \in Nat /\ a = n * q2 + r2
  BY DivMod
<1>2. n * (q - q2) = r2 - r /\ n * (q2 - q) = r - r2
  BY <1>1
<1>3. /\ q - q2 >= 1 => n * (q - q2) >= n
      /\ q2 - q >= 1 => n * (q2 - q) >= n
  BY <1>1
<1>4. q = q2
  BY <1>1, <1>2, <1>3
<1> QED BY <1>1, <1>2, <1>4

(* One step round the array. *)
LEMMA RemainderNext ==
  ASSUME NEW n \in Nat \ {0}, NEW a \in Nat
  PROVE  ((a % n) + 1) % n = (a + 1) % n
<1> DEFINE r == a % n  q == a \div n
<1>1. r \in 0..n-1 /\ a = n * q + r /\ q \in Nat
  BY DivMod
<1>2. CASE r + 1 < n
  <2>1. r + 1 \in 0..n-1 /\ a + 1 = n * q + (r + 1) /\ n * 0 + (r + 1) = r + 1
    BY <1>1, <1>2
  <2>2. (n * q + (r + 1)) % n = r + 1 /\ (n * 0 + (r + 1)) % n = r + 1
    BY <1>1, <2>1, RemainderOf
  <2> QED BY <2>1, <2>2
<1>3. CASE r + 1 = n
  <2>1. /\ 0 \in 0..n-1 /\ q + 1 \in Nat
        /\ a + 1 = n * (q + 1) + 0 /\ r + 1 = n * 1 + 0
    BY <1>1, <1>3
  <2>2. (n * (q + 1) + 0) % n = 0 /\ (n * 1 + 0) % n = 0
    BY <2>1, RemainderOf
  <2> QED BY <2>1, <2>2
<1> QED BY <1>1, <1>2, <1>3

(* Fewer than n steps never lead back to the same slot. *)
LEMMA RemaindersDiffer ==
  ASSUME NEW n \in Nat \ {0}, NEW a \in Nat, NEW b \in Nat, a < b, b - a < n
  PROVE  a % n # b % n
<1> SUFFICES ASSUME a % n = b % n PROVE FALSE
  OBVIOUS
<1> DEFINE q == a \div n  q2 == b \div n
<1>1. /\ a % n \in 0..n-1 /\ a = n * q + (a % n) /\ q \in Nat
      /\ b = n * q2 + (a % n) /\ q2 \in Nat
  BY DivMod
<1>2. b - a = n * (q2 - q)
  BY <1>1
<1>3. /\ q2 - q >= 1 => n * (q2 - q) >= n
      /\ q2 - q <= 0 => n * (q2 - q) <= 0
  BY <1>1
<1> QED BY <1>1, <1>2, <1>3

(* n steps lead back to the same slot. *)
LEMMA RemainderRound ==
  ASSUME NEW n \in Nat \ {0}, NEW a \in Nat
  PROVE  (a + n) % n = a % n
<1> DEFINE r == a % n  q == a \div n
<1>1. r \in 0..n-1 /\ a = n * q + r /\ q \in Nat
  BY DivMod
<1>2. q + 1 \in Nat /\ a + n = n * (q + 1) + r
  BY <1>1
<1>3. (n * (q + 1) + r) % n = r
  BY <1>1, <1>2, RemainderOf
<1> QED BY <1>2, <1>3

-------------------------------------------------------------------------------
(* What a step of one thread changes. *)

LEMMA Constants ==
  /\ N \in Nat \ {0} /\ LINES \in Nat
  /\ Main \notin Threads /\ Unlocked \notin Threads
  /\ Producers \cap Consumers = {}
  /\ Producers \subseteq Threads /\ Consumers \subseteq Threads
  /\ 0 \in Slots /\ NULL \notin Lines /\ NULL = 0
BY ConstantsAssumption DEF Threads, Slots, Lines, NULL

LEMMA AfterInRange == \A i \in Slots : after(i) \in Slots
BY DivMod, ConstantsAssumption DEF after, Slots

LEMMA SlotRange == \A a \in Nat : a % N \in Slots
BY DivMod, ConstantsAssumption DEF Slots

(* The slot after that of one ticket is that of the next ticket. *)
LEMMA AfterSlot == \A a \in Nat : after(a % N) = (a + 1) % N
BY RemainderNext, ConstantsAssumption DEF after

LEMMA SlotsDiffer ==
  ASSUME NEW a \in Nat, NEW b \in Nat, a < b, b - a < N
  PROVE  a % N # b % N
BY RemaindersDiffer, ConstantsAssumption

LEMMA Typed ==
  ASSUME IInv
  PROVE  /\ Len(put) \in Nat /\ Len(got) \in Nat
         /\ put \in Seq(Lines) /\ got \in Seq(Lines)
         /\ next_line \in Nat \ {0} /\ next_line \in 1..LINES+1
         /\ \A i \in Slots : shared_resource[i] \in Lines \cup {NULL}
         /\ \A t \in Threads : curr_index[t] \in Slots /\ line[t] \in Lines \cup {NULL}
         /\ curr_prod \in Slots /\ curr_cons \in Slots
BY Constants DEF IInv, TypeOK

LEMMA Moves ==
  ASSUME TypeOK, NEW t \in Threads \cup {Main}, NEW place, Goto(t, place)
  PROVE  /\ pc'[t] = place
         /\ \A u \in (Threads \cup {Main}) \ {t} : pc'[u] = pc[u]
         /\ place \in Places \cup MainPlaces =>
              pc' \in [Threads \cup {Main} -> Places \cup MainPlaces]
BY DEF TypeOK, Goto

(* A thread that another one's step finds waiting may be woken. *)
Undisturbed(u) == pc'[u] = pc[u] \/ (pc[u] = "waiting" /\ pc'[u] = "lock")

(* A broadcast wakes the threads that wait for the condition. *)
LEMMA Wakes ==
  ASSUME TypeOK, NEW t \in Threads \cup {Main}, NEW place \in Places \cup MainPlaces,
         NEW woken \in SUBSET Threads,
         \A u \in woken : pc[u] = "waiting",
         pc' = [u \in DOMAIN pc |-> IF u = t THEN place
                                    ELSE IF u \in woken THEN "lock" ELSE pc[u]]
  PROVE  /\ pc' \in [Threads \cup {Main} -> Places \cup MainPlaces]
         /\ pc'[t] = place
         /\ \A u \in (Threads \cup {Main}) \ {t} :
              /\ Undisturbed(u)
              /\ u \in woken => pc'[u] = "lock"
              /\ u \notin woken => pc'[u] = pc[u]
BY DEF TypeOK, Places, Undisturbed

LEMMA LinesKept ==
  ASSUME IInv, Running, UNCHANGED <<next_line, shared_resource, got>>,
         \A p \in Producers : line'[p] = line[p] /\ (Holding(p)' <=> Holding(p))
  PROVE  LinesInv'
BY DEF IInv, LinesInv, Somewhere, slot_full, Running

LEMMA FifoKept ==
  ASSUME IInv, Running, UNCHANGED <<shared_resource, curr_prod, curr_cons, put, got>>,
         \A k \in Consumers : pc'[k] = "absent" <=> pc[k] = "absent",
         \A p \in Producers : pc'[p] = "store" <=> pc[p] = "store",
         \A k \in Consumers : Leaving(k)' <=> Leaving(k),
         UNCHANGED curr_index
  PROVE  FifoInv'
<1>1. single' <=> single
  BY DEF single, At
<1>2. ArrayInv' <=> ArrayInv
  BY DEF ArrayInv, InArray, SlotOf, slot_full
<1>3. TurnInv' <=> TurnInv
  BY DEF TurnInv, slot_full
<1> QED BY <1>1, <1>2, <1>3 DEF IInv, FifoInv, Running

LEMMA StoreKept ==
  ASSUME IInv, UNCHANGED <<shared_resource, curr_index>>,
         \A p \in Producers : pc'[p] = "store" => pc[p] = "store"
  PROVE  StoreInv'
BY DEF IInv, StoreInv, slot_full

-------------------------------------------------------------------------------
(* One lemma per action: it preserves the inductive invariant. *)

LEMMA InitEstablishes == Init => IInv
<1> SUFFICES ASSUME Init PROVE IInv
  OBVIOUS
<1>1. Len(put) = 0 /\ Len(got) = 0 /\ put \in Seq(Lines) /\ got \in Seq(Lines)
  BY DEF Init
<1>2. PICK created \in SUBSET Consumers \ {{}} :
        pc = [t \in Threads \cup {Main} |->
               CASE t = Main -> "join_producers"
                 [] t \in Producers -> "fgets"
                 [] t \in created -> "lock"
                 [] OTHER -> "absent"]
  BY DEF Init
<1>3. /\ \A p \in Producers : pc[p] = "fgets"
      /\ \A k \in Consumers : pc[k] \in {"lock", "absent"}
      /\ pc[Main] = "join_producers"
      /\ pc \in [Threads \cup {Main} -> Places \cup MainPlaces]
  BY <1>2, Constants DEF Threads, Places, MainPlaces
<1>4. \A i \in Slots : shared_resource[i] = NULL /\ resource_mutexes[i] = Unlocked
  BY DEF Init
<1>5. TypeOK
  <2>1. 0 \in Slots /\ 0 \in Lines \cup {NULL} /\ 1 \in 1..LINES+1
    BY Constants DEF NULL
  <2>2. /\ shared_resource \in [Slots -> Lines \cup {NULL}]
        /\ line \in [Threads -> Lines \cup {NULL}]
        /\ curr_index \in [Threads -> Slots]
        /\ resource_mutexes \in [Slots -> Threads \cup {Unlocked}]
    BY <2>1 DEF Init, NULL
  <2> QED BY <1>1, <1>3, <2>1, <2>2 DEF Init, TypeOK
<1>6. PlacesInv
  BY <1>3 DEF PlacesInv, MainPlaces
<1>7. LocksInv
  BY <1>3, <1>4, Constants DEF Init, LocksInv, InSlot, Threads
<1>8. WaitInv /\ StoreInv
  BY <1>3 DEF Init, WaitInv, StoreInv
<1>9. LinesInv
  <2>1. next_line = 1
    BY DEF Init
  <2>2. 1..next_line-1 = {} /\ 1..Len(got) = {}
    BY <1>1, <2>1
  <2>3. \A p \in Producers : ~Holding(p)
    BY <1>3 DEF Holding
  <2>4. \A i \in Slots : ~slot_full(i)
    BY <1>4 DEF slot_full
  <2> QED BY <2>2, <2>3, <2>4 DEF LinesInv
<1>10. FifoInv
  <2>1. InArray = {} /\ 1..Len(got) = {}
    BY <1>1 DEF InArray
  <2>2. 0 % N = 0
    <3>1. (N * 0 + 0) % N = 0
      BY RemainderOf, Constants DEF Slots
    <3> QED BY <3>1, Constants
  <2>3. ArrayInv
    BY <1>1, <1>4, <2>1, Constants DEF ArrayInv, slot_full
  <2>4. TurnInv
    BY <1>1, <1>3, <2>2 DEF Init, TurnInv, Leaving
  <2> QED BY <2>3, <2>4 DEF FifoInv
<1> QED BY <1>5, <1>6, <1>7, <1>8, <1>9, <1>10 DEF IInv

LEMMA FgetsPreserves ==
  ASSUME IInv, Running, NEW p \in Producers, fgets(p) PROVE IInv'
<1>1. /\ pc[p] = "fgets" /\ pc'[p] \in {"lock", "finished"}
      /\ \A u \in (Threads \cup {Main}) \ {p} : pc'[u] = pc[u]
      /\ pc' \in [Threads \cup {Main} -> Places \cup MainPlaces]
  BY Moves, Constants DEF IInv, fgets, At, Places
<1>2. UNCHANGED <<shared_resource, curr_prod, curr_cons, prod_mutex, cons_mutex,
                  resource_mutexes, read_cond, write_cond, done_producing,
                  curr_index, put, got>>
  BY DEF fgets, ring, mutexes, conds, history
<1>3. \/ /\ next_line <= LINES /\ next_line' = next_line + 1 /\ pc'[p] = "lock"
         /\ line' = [line EXCEPT ![p] = next_line]
      \/ /\ pc'[p] = "finished" /\ UNCHANGED <<line, next_line>>
  BY Moves, Constants DEF IInv, fgets
<1>4. /\ next_line' \in 1..LINES+1
      /\ line' \in [Threads -> Lines \cup {NULL}]
      /\ \A u \in Threads \ {p} : line'[u] = line[u]
      /\ pc'[p] = "lock" => line'[p] = next_line
  <2>1. next_line \in 1..LINES+1 /\ line \in [Threads -> Lines \cup {NULL}]
    BY DEF IInv, TypeOK
  <2>2. CASE /\ next_line <= LINES /\ next_line' = next_line + 1
             /\ line' = [line EXCEPT ![p] = next_line]
    <3>1. next_line \in Lines
      BY <2>1, <2>2, Constants DEF Lines
    <3> QED BY <2>1, <2>2, <3>1, Constants
  <2>3. CASE pc'[p] = "finished" /\ UNCHANGED <<line, next_line>>
    BY <2>1, <2>3, Constants
  <2> QED BY <1>3, <2>2, <2>3
<1>5. TypeOK'
  BY <1>1, <1>2, <1>4 DEF IInv, TypeOK
<1>6. PlacesInv' /\ WaitInv'
  BY <1>1, <1>2, Constants DEF IInv, PlacesInv, WaitInv
<1>7. LocksInv'
  BY <1>1, <1>2, Constants DEF IInv, LocksInv, InSlot
<1>8. StoreInv'
  BY <1>1, <1>2, StoreKept, Constants
<1>9. FifoInv'
  BY <1>1, <1>2, FifoKept, Constants DEF Leaving
<1>10. LinesInv'
  <2>1. CASE pc'[p] = "finished" /\ UNCHANGED <<line, next_line>>
    BY <1>1, <1>2, <2>1, LinesKept, Constants DEF Holding
  <2>2. CASE /\ next_line' = next_line + 1 /\ pc'[p] = "lock"
    <3>1. /\ Holding(p)' /\ ~Holding(p) /\ line'[p] = next_line
          /\ \A q \in Producers \ {p} : (Holding(q)' <=> Holding(q)) /\ line'[q] = line[q]
      BY <1>1, <1>4, <2>2, Constants DEF Holding
    <3>2. /\ 1..next_line'-1 = 1..next_line-1 \cup {next_line}
          /\ next_line \notin 1..next_line-1
      BY <2>2, Typed
    <3>3. \A l \in 1..next_line'-1 : Somewhere(l)'
      BY <1>2, <3>1, <3>2 DEF IInv, LinesInv, Running, Somewhere
    <3>4. /\ \A i \in Slots : slot_full(i) => shared_resource[i] \in 1..next_line-1
          /\ \A n \in 1..Len(got) : got[n] \in 1..next_line-1
          /\ \A q \in Producers : Holding(q) => line[q] \in 1..next_line-1
      BY DEF IInv, LinesInv, Running
    <3>5. \A i \in Slots : shared_resource[i] # next_line
      BY <3>2, <3>4, Typed, Constants DEF slot_full
    <3> QED BY <1>2, <3>1, <3>2, <3>3, <3>4, <3>5
            DEF IInv, LinesInv, Running, slot_full
  <2> QED BY <1>3, <2>1, <2>2
<1> QED BY <1>5, <1>6, <1>7, <1>8, <1>9, <1>10 DEF IInv

LEMMA LockProdPreserves ==
  ASSUME IInv, Running, NEW p \in Producers, LockProd(p) PROVE IInv'
<1>1. /\ pc[p] = "lock" /\ pc'[p] = "test"
      /\ \A u \in (Threads \cup {Main}) \ {p} : pc'[u] = pc[u]
      /\ pc' \in [Threads \cup {Main} -> Places \cup MainPlaces]
  BY Moves, Constants DEF IInv, LockProd, At, Places
<1>2. /\ prod_mutex = Unlocked /\ prod_mutex' = p
      /\ UNCHANGED <<next_line, shared_resource, curr_prod, curr_cons, cons_mutex,
                     resource_mutexes, read_cond, write_cond, done_producing, line,
                     curr_index, put, got>>
  BY DEF LockProd, ring, conds, locals, history
<1>3. TypeOK'
  BY <1>1, <1>2 DEF IInv, TypeOK
<1>4. PlacesInv' /\ WaitInv'
  BY <1>1, <1>2, Constants DEF IInv, PlacesInv, WaitInv
<1>5. LocksInv'
  BY <1>1, <1>2, Constants DEF IInv, LocksInv, InSlot
<1>6. StoreInv'
  BY <1>1, <1>2, StoreKept, Constants
<1>7. LinesInv' /\ FifoInv'
  BY <1>1, <1>2, LinesKept, FifoKept, Constants DEF Leaving, Holding
<1> QED BY <1>3, <1>4, <1>5, <1>6, <1>7 DEF IInv

LEMMA ProdTestPreserves ==
  ASSUME IInv, Running, NEW p \in Producers, ProdTest(p) PROVE IInv'
<1>1. /\ pc[p] = "test" /\ pc'[p] \in {"block", "store"}
      /\ \A u \in (Threads \cup {Main}) \ {p} : pc'[u] = pc[u]
      /\ pc' \in [Threads \cup {Main} -> Places \cup MainPlaces]
  BY Moves, Constants DEF IInv, ProdTest, At, Places
<1>2. UNCHANGED <<next_line, shared_resource, curr_cons, prod_mutex, cons_mutex,
                  resource_mutexes, read_cond, write_cond, done_producing, line,
                  put, got>>
  BY DEF ProdTest, mutexes, conds, history
<1>3. \/ /\ slot_full(curr_prod) /\ pc'[p] = "block"
         /\ UNCHANGED <<curr_index, curr_prod>>
      \/ /\ ~slot_full(curr_prod) /\ pc'[p] = "store"
         /\ curr_index' = [curr_index EXCEPT ![p] = curr_prod]
         /\ curr_prod' = after(curr_prod)
  BY Moves, Constants DEF IInv, ProdTest
<1>4. /\ curr_prod' \in Slots /\ curr_index' \in [Threads -> Slots]
      /\ \A u \in Threads \ {p} : curr_index'[u] = curr_index[u]
      /\ pc'[p] = "store" => curr_index'[p] = curr_prod /\ ~slot_full(curr_prod)
  <2>1. curr_prod \in Slots /\ curr_index \in [Threads -> Slots]
    BY DEF IInv, TypeOK
  <2> QED BY <1>3, <2>1, AfterInRange, Constants
<1>5. TypeOK'
  BY <1>1, <1>2, <1>4 DEF IInv, TypeOK
<1>6. PlacesInv' /\ WaitInv'
  BY <1>1, <1>2, Constants DEF IInv, PlacesInv, WaitInv
<1>7. LocksInv'
  BY <1>1, <1>2, <1>4, Constants DEF IInv, LocksInv, InSlot
<1>8. prod_mutex = p
  BY <1>1 DEF IInv, LocksInv
<1>9. \A q \in Producers \ {p} : pc[q] # "store" /\ pc'[q] # "store"
  BY <1>1, <1>8, Constants DEF IInv, LocksInv
<1>10. StoreInv'
  BY <1>2, <1>4, <1>9 DEF StoreInv, slot_full
<1>11. LinesInv'
  BY <1>1, <1>2, LinesKept, Constants DEF Holding
<1>12. FifoInv'
  <2>1. CASE slot_full(curr_prod) /\ pc'[p] = "block" /\ UNCHANGED <<curr_index, curr_prod>>
    BY <1>1, <1>2, <1>9, <2>1, FifoKept, Constants DEF Leaving
  <2>2. CASE pc'[p] = "store" /\ curr_prod' = after(curr_prod)
    <3> SUFFICES ASSUME single' PROVE ArrayInv' /\ TurnInv'
      BY DEF FifoInv
    <3>1. single /\ ArrayInv /\ TurnInv
      BY <1>1, Constants DEF single, At, IInv, FifoInv, Running
    <3>2. ArrayInv'
      BY <1>2, <3>1 DEF ArrayInv, InArray, SlotOf, slot_full
    <3>3. curr_prod = Len(put) % N
      BY <1>1, <1>9, <3>1 DEF TurnInv
    <3>4. curr_prod' = (Len(put) + 1) % N
      BY <2>2, <3>3, AfterSlot, Typed
    <3>5. \A k \in Consumers : (Leaving(k)' <=> Leaving(k)) /\ curr_index'[k] = curr_index[k]
      BY <1>1, <1>4, Constants DEF Leaving
    <3> QED
      <4>1. \A q \in Producers : pc'[q] = "store" => q = p
        BY <1>9
      <4>2. \A q \in Producers : pc'[q] = "store" =>
              curr_prod' = (Len(put') + 1) % N /\ curr_index'[q] = Len(put') % N
        BY <1>2, <1>4, <3>3, <3>4, <4>1
      <4>3. (\A q \in Producers : pc'[q] # "store") => curr_prod' = Len(put') % N
        BY <2>2
      <4>4. /\ (\A k \in Consumers : ~Leaving(k)') => curr_cons' = Len(got') % N
            /\ \A k \in Consumers : Leaving(k)' =>
                 /\ curr_cons' = (Len(got') + 1) % N /\ curr_index'[k] = Len(got') % N
                 /\ slot_full(curr_index[k])
        BY <1>2, <3>1, <3>5 DEF TurnInv
      <4> QED BY <1>2, <3>2, <3>5, <4>2, <4>3, <4>4 DEF TurnInv, slot_full
  <2> QED BY <1>3, <2>1, <2>2
<1> QED BY <1>5, <1>6, <1>7, <1>10, <1>11, <1>12 DEF IInv

LEMMA ProdWaitPreserves ==
  ASSUME IInv, Running, NEW p \in Producers, ProdWait(p) PROVE IInv'
<1>1. /\ pc[p] = "block" /\ pc'[p] = "waiting"
      /\ \A u \in (Threads \cup {Main}) \ {p} : pc'[u] = pc[u]
      /\ pc' \in [Threads \cup {Main} -> Places \cup MainPlaces]
  BY Moves, Constants DEF IInv, ProdWait, At, Places
<1>2. /\ prod_mutex' = Unlocked /\ write_cond' = write_cond \cup {p}
      /\ UNCHANGED <<next_line, shared_resource, curr_prod, curr_cons, cons_mutex,
                     resource_mutexes, read_cond, done_producing, line, curr_index,
                     put, got>>
  BY DEF ProdWait, ring, locals, history
<1>3. TypeOK'
  BY <1>1, <1>2 DEF IInv, TypeOK
<1>4. PlacesInv' /\ WaitInv'
  BY <1>1, <1>2, Constants DEF IInv, PlacesInv, WaitInv
<1>5. LocksInv'
  <2>1. prod_mutex = p
    BY <1>1 DEF IInv, LocksInv
  <2> QED BY <1>1, <1>2, <2>1, Constants DEF IInv, LocksInv, InSlot
<1>6. StoreInv'
  BY <1>1, <1>2, StoreKept, Constants
<1>7. LinesInv' /\ FifoInv'
  BY <1>1, <1>2, LinesKept, FifoKept, Constants DEF Leaving, Holding
<1> QED BY <1>3, <1>4, <1>5, <1>6, <1>7 DEF IInv

LEMMA LockConsPreserves ==
  ASSUME IInv, Running, NEW k \in Consumers, LockCons(k) PROVE IInv'
<1>1. /\ pc[k] = "lock" /\ pc'[k] = "test"
      /\ \A u \in (Threads \cup {Main}) \ {k} : pc'[u] = pc[u]
      /\ pc' \in [Threads \cup {Main} -> Places \cup MainPlaces]
  BY Moves, Constants DEF IInv, LockCons, At, Places
<1>2. /\ cons_mutex = Unlocked /\ cons_mutex' = k
      /\ UNCHANGED <<next_line, shared_resource, curr_prod, curr_cons, prod_mutex,
                     resource_mutexes, read_cond, write_cond, done_producing, line,
                     curr_index, put, got>>
  BY DEF LockCons, ring, conds, locals, history
<1>3. TypeOK'
  BY <1>1, <1>2 DEF IInv, TypeOK
<1>4. PlacesInv' /\ WaitInv'
  BY <1>1, <1>2, Constants DEF IInv, PlacesInv, WaitInv
<1>5. LocksInv'
  BY <1>1, <1>2, Constants DEF IInv, LocksInv, InSlot
<1>6. StoreInv'
  BY <1>1, <1>2, StoreKept, Constants
<1>7. LinesInv' /\ FifoInv'
  BY <1>1, <1>2, LinesKept, FifoKept, Constants DEF Leaving, Holding
<1> QED BY <1>3, <1>4, <1>5, <1>6, <1>7 DEF IInv

LEMMA AskDonePreserves ==
  ASSUME IInv, Running, NEW k \in Consumers, AskDone(k) PROVE IInv'
<1>1. /\ pc[k] = "ask" /\ pc'[k] \in {"finished", "block"}
      /\ \A u \in (Threads \cup {Main}) \ {k} : pc'[u] = pc[u]
      /\ pc' \in [Threads \cup {Main} -> Places \cup MainPlaces]
      /\ \/ pc'[k] = "finished" /\ cons_mutex' = Unlocked
         \/ pc'[k] = "block" /\ cons_mutex' = cons_mutex
  BY Moves, Constants DEF IInv, AskDone, At, Places
<1>2. UNCHANGED <<next_line, shared_resource, curr_prod, curr_cons, prod_mutex,
                  resource_mutexes, read_cond, write_cond, done_producing, line,
                  curr_index, put, got>>
  BY DEF AskDone, ring, conds, locals, history
<1>3. TypeOK'
  BY <1>1, <1>2 DEF IInv, TypeOK
<1>4. PlacesInv' /\ WaitInv'
  BY <1>1, <1>2, Constants DEF IInv, PlacesInv, WaitInv
<1>5. LocksInv'
  <2>1. cons_mutex = k
    BY <1>1 DEF IInv, LocksInv
  <2> QED BY <1>1, <1>2, <2>1, Constants DEF IInv, LocksInv, InSlot
<1>6. StoreInv'
  BY <1>1, <1>2, StoreKept, Constants
<1>7. LinesInv' /\ FifoInv'
  BY <1>1, <1>2, LinesKept, FifoKept, Constants DEF Leaving, Holding
<1> QED BY <1>3, <1>4, <1>5, <1>6, <1>7 DEF IInv

LEMMA ConsWaitPreserves ==
  ASSUME IInv, Running, NEW k \in Consumers, ConsWait(k) PROVE IInv'
<1>1. /\ pc[k] = "block" /\ pc'[k] = "waiting"
      /\ \A u \in (Threads \cup {Main}) \ {k} : pc'[u] = pc[u]
      /\ pc' \in [Threads \cup {Main} -> Places \cup MainPlaces]
  BY Moves, Constants DEF IInv, ConsWait, At, Places
<1>2. /\ cons_mutex' = Unlocked /\ read_cond' = read_cond \cup {k}
      /\ UNCHANGED <<next_line, shared_resource, curr_prod, curr_cons, prod_mutex,
                     resource_mutexes, write_cond, done_producing, line, curr_index,
                     put, got>>
  BY DEF ConsWait, ring, locals, history
<1>3. TypeOK'
  BY <1>1, <1>2 DEF IInv, TypeOK
<1>4. PlacesInv' /\ WaitInv'
  BY <1>1, <1>2, Constants DEF IInv, PlacesInv, WaitInv
<1>5. LocksInv'
  <2>1. cons_mutex = k
    BY <1>1 DEF IInv, LocksInv
  <2> QED BY <1>1, <1>2, <2>1, Constants DEF IInv, LocksInv, InSlot
<1>6. StoreInv'
  BY <1>1, <1>2, StoreKept, Constants
<1>7. LinesInv' /\ FifoInv'
  BY <1>1, <1>2, LinesKept, FifoKept, Constants DEF Leaving, Holding
<1> QED BY <1>3, <1>4, <1>5, <1>6, <1>7 DEF IInv

LEMMA EnterSlotPreserves ==
  ASSUME IInv, Running, NEW k \in Consumers, EnterSlot(k) PROVE IInv'
<1>1. /\ pc[k] = "enter" /\ pc'[k] = "take"
      /\ \A u \in (Threads \cup {Main}) \ {k} : pc'[u] = pc[u]
      /\ pc' \in [Threads \cup {Main} -> Places \cup MainPlaces]
  BY Moves, Constants DEF IInv, EnterSlot, At, Places
<1>2. /\ cons_mutex' = Unlocked
      /\ UNCHANGED <<next_line, shared_resource, curr_prod, curr_cons, prod_mutex,
                     read_cond, write_cond, done_producing, line, curr_index,
                     put, got>>
  BY DEF EnterSlot, ring, conds, locals, history
<1>3. /\ resource_mutexes[curr_index[k]] = Unlocked
      /\ resource_mutexes' = [resource_mutexes EXCEPT ![curr_index[k]] = k]
  BY DEF EnterSlot, LockResource
<1>4. /\ curr_index[k] \in Slots
      /\ resource_mutexes'[curr_index[k]] = k
      /\ \A i \in Slots \ {curr_index[k]} : resource_mutexes'[i] = resource_mutexes[i]
      /\ resource_mutexes' \in [Slots -> Threads \cup {Unlocked}]
  <2>1. /\ resource_mutexes \in [Slots -> Threads \cup {Unlocked}]
        /\ curr_index[k] \in Slots /\ k \in Threads
    BY Constants DEF IInv, TypeOK
  <2> QED BY <1>3, <2>1
<1>5. TypeOK'
  BY <1>1, <1>2, <1>4 DEF IInv, TypeOK
<1>6. PlacesInv' /\ WaitInv'
  BY <1>1, <1>2, Constants DEF IInv, PlacesInv, WaitInv
<1>7. LocksInv'
  <2>1. cons_mutex = k
    BY <1>1 DEF IInv, LocksInv
  <2>2. /\ \A p \in Producers :
             prod_mutex' = p <=> pc'[p] \in {"test", "block", "store", "copy"}
        /\ \A j \in Consumers :
             cons_mutex' = j <=> pc'[j] \in {"test", "ask", "block", "enter"}
    BY <1>1, <1>2, <2>1, Constants DEF IInv, LocksInv
  <2>3. ASSUME NEW t \in Threads, NEW i \in Slots
        PROVE  resource_mutexes'[i] = t <=> InSlot(t)' /\ curr_index'[t] = i
    <3>1. resource_mutexes[i] = t <=> InSlot(t) /\ curr_index[t] = i
      BY DEF IInv, LocksInv
    <3>2. CASE t = k
      BY <1>1, <1>2, <1>3, <1>4, <3>1, <3>2, Constants DEF InSlot
    <3>3. CASE t # k
      BY <1>1, <1>2, <1>3, <1>4, <3>1, <3>3, Constants DEF InSlot
    <3> QED BY <3>2, <3>3
  <2> QED BY <2>2, <2>3 DEF LocksInv
<1>8. StoreInv'
  BY <1>1, <1>2, StoreKept, Constants
<1>9. LinesInv' /\ FifoInv'
  BY <1>1, <1>2, LinesKept, FifoKept, Constants DEF Leaving, Holding
<1> QED BY <1>5, <1>6, <1>7, <1>8, <1>9 DEF IInv

LEMMA ConsTestPreserves ==
  ASSUME IInv, Running, NEW k \in Consumers, ConsTest(k) PROVE IInv'
<1>1. /\ pc[k] = "test" /\ pc'[k] \in {"ask", "enter"}
      /\ \A u \in (Threads \cup {Main}) \ {k} : pc'[u] = pc[u]
      /\ pc' \in [Threads \cup {Main} -> Places \cup MainPlaces]
  BY Moves, Constants DEF IInv, ConsTest, At, Places
<1>2. UNCHANGED <<next_line, shared_resource, curr_prod, prod_mutex, cons_mutex,
                  resource_mutexes, read_cond, write_cond, done_producing, line,
                  put, got>>
  BY DEF ConsTest, mutexes, conds, history
<1>3. \/ /\ pc'[k] = "ask"
         /\ UNCHANGED <<curr_index, curr_cons>>
      \/ /\ slot_full(curr_cons) /\ pc'[k] = "enter"
         /\ curr_index' = [curr_index EXCEPT ![k] = curr_cons]
         /\ curr_cons' = after(curr_cons)
  BY Moves, Constants DEF IInv, ConsTest
<1>4. /\ curr_cons' \in Slots /\ curr_index' \in [Threads -> Slots]
      /\ \A u \in Threads \ {k} : curr_index'[u] = curr_index[u]
      /\ pc'[k] = "enter" => curr_index'[k] = curr_cons /\ slot_full(curr_cons)
  <2>1. curr_cons \in Slots /\ curr_index \in [Threads -> Slots]
    BY DEF IInv, TypeOK
  <2> QED BY <1>3, <2>1, AfterInRange, Constants
<1>5. TypeOK'
  BY <1>1, <1>2, <1>4 DEF IInv, TypeOK
<1>6. PlacesInv' /\ WaitInv'
  BY <1>1, <1>2, Constants DEF IInv, PlacesInv, WaitInv
<1>7. LocksInv'
  BY <1>1, <1>2, <1>4, Constants DEF IInv, LocksInv, InSlot
<1>8. \A p \in Producers : pc'[p] = pc[p] /\ curr_index'[p] = curr_index[p]
  BY <1>1, <1>4, Constants
<1>9. StoreInv'
  BY <1>2, <1>8 DEF IInv, StoreInv, slot_full
<1>10. LinesInv'
  BY <1>1, <1>2, LinesKept, Constants DEF Holding
<1>11. FifoInv'
  <2>1. CASE pc'[k] = "ask" /\ UNCHANGED <<curr_index, curr_cons>>
    BY <1>1, <1>2, <2>1, FifoKept, Constants DEF Leaving
  <2>2. CASE /\ slot_full(curr_cons) /\ pc'[k] = "enter"
             /\ curr_cons' = after(curr_cons)
    <3> SUFFICES ASSUME single' PROVE ArrayInv' /\ TurnInv'
      BY DEF FifoInv
    <3>1. single /\ ArrayInv /\ TurnInv
      BY <1>1, Constants DEF single, At, IInv, FifoInv, Running
    <3>2. \A j \in Consumers \ {k} : ~Leaving(j) /\ ~Leaving(j)'
      BY <1>1, <3>1, Constants DEF single, At, Leaving
    <3>3. ~Leaving(k)
      BY <1>1 DEF Leaving
    <3>4. curr_cons = Len(got) % N
      BY <3>1, <3>2, <3>3 DEF TurnInv
    <3>5. curr_cons' = (Len(got) + 1) % N
      BY <2>2, <3>4, AfterSlot, Typed
    <3>6. ArrayInv'
      BY <1>2, <3>1 DEF ArrayInv, InArray, SlotOf, slot_full
    <3>7. /\ (\A q \in Producers : pc'[q] # "store") => curr_prod' = Len(put') % N
          /\ \A q \in Producers : pc'[q] = "store" =>
               curr_prod' = (Len(put') + 1) % N /\ curr_index'[q] = Len(put') % N
      BY <1>2, <1>8, <3>1 DEF TurnInv
    <3>8. Leaving(k)' /\ shared_resource'[curr_cons] # NULL /\ curr_index'[k] = curr_cons
      BY <1>2, <1>4, <2>2 DEF Leaving, slot_full
    <3> QED BY <1>2, <3>2, <3>4, <3>5, <3>6, <3>7, <3>8 DEF TurnInv, slot_full
  <2> QED BY <1>3, <2>1, <2>2
<1> QED BY <1>5, <1>6, <1>7, <1>9, <1>10, <1>11 DEF IInv

(* A broadcast of t moves t and the threads that wait to lock a mutex. *)
LEMMA StoreWoken ==
  ASSUME IInv, UNCHANGED <<shared_resource, curr_index>>,
         NEW t \in Threads \cup {Main}, pc'[t] # "store",
         \A u \in (Threads \cup {Main}) \ {t} : Undisturbed(u)
  PROVE  StoreInv'
<1>1. \A p \in Producers : pc'[p] = "store" => pc[p] = "store"
  BY Constants DEF Undisturbed
<1> QED BY <1>1, StoreKept

LEMMA PublishPreserves ==
  ASSUME IInv, Running, NEW p \in Producers, Publish(p) PROVE IInv'
<1>1. /\ pc[p] = "copy" /\ pc'[p] = "fgets"
      /\ pc' \in [Threads \cup {Main} -> Places \cup MainPlaces]
      /\ \A u \in (Threads \cup {Main}) \ {p} :
           /\ Undisturbed(u)
           /\ u \in read_cond => pc'[u] = "lock"
           /\ u \notin read_cond => pc'[u] = pc[u]
  <2>1. /\ read_cond \in SUBSET Threads
        /\ \A u \in read_cond : pc[u] = "waiting"
        /\ "fgets" \in Places \cup MainPlaces /\ p \in Threads \cup {Main}
    BY Constants DEF IInv, TypeOK, WaitInv, Places
  <2>2. pc' = [u \in DOMAIN pc |-> IF u = p THEN "fgets"
                                   ELSE IF u \in read_cond THEN "lock" ELSE pc[u]]
    BY DEF Publish
  <2> QED BY <2>1, <2>2, Wakes DEF IInv, Publish, At
<1>2. /\ prod_mutex' = Unlocked /\ read_cond' = {}
      /\ UNCHANGED <<next_line, shared_resource, curr_prod, curr_cons, cons_mutex,
                     write_cond, done_producing, line, curr_index, put, got>>
  BY DEF Publish, ring, locals, history
<1>3. /\ curr_index[p] \in Slots
      /\ resource_mutexes[curr_index[p]] = p /\ prod_mutex = p
      /\ resource_mutexes'[curr_index[p]] = Unlocked
      /\ \A i \in Slots \ {curr_index[p]} : resource_mutexes'[i] = resource_mutexes[i]
      /\ resource_mutexes' \in [Slots -> Threads \cup {Unlocked}]
  <2>1. /\ resource_mutexes \in [Slots -> Threads \cup {Unlocked}]
        /\ curr_index[p] \in Slots /\ p \in Threads
    BY Constants DEF IInv, TypeOK
  <2>2. resource_mutexes[curr_index[p]] = p /\ prod_mutex = p
    BY <1>1, <2>1 DEF IInv, LocksInv, InSlot
  <2> QED BY <2>1, <2>2 DEF Publish
<1>4. \A u \in Threads \ {p} : /\ InSlot(u)' <=> InSlot(u)
                               /\ Leaving(u)' <=> Leaving(u)
                               /\ Holding(u)' <=> Holding(u)
                               /\ pc'[u] = "store" <=> pc[u] = "store"
                               /\ pc'[u] = "absent" <=> pc[u] = "absent"
  BY <1>1, Constants DEF Undisturbed, InSlot, Leaving, Holding
<1>5. TypeOK'
  BY <1>1, <1>2, <1>3, Constants DEF IInv, TypeOK
<1>6. PlacesInv'
  BY <1>1, Constants DEF IInv, PlacesInv, Undisturbed, TypeOK, MainPlaces
<1>7. WaitInv'
  BY <1>1, <1>2, Constants DEF IInv, PlacesInv, WaitInv, TypeOK
<1>8. LocksInv'
  <2>1. /\ \A q \in Producers :
             prod_mutex' = q <=> pc'[q] \in {"test", "block", "store", "copy"}
        /\ \A j \in Consumers :
             cons_mutex' = j <=> pc'[j] \in {"test", "ask", "block", "enter"}
    BY <1>1, <1>2, <1>3, Constants DEF IInv, LocksInv, Undisturbed
  <2>2. ASSUME NEW t \in Threads, NEW i \in Slots
        PROVE  resource_mutexes'[i] = t <=> InSlot(t)' /\ curr_index'[t] = i
    <3>1. resource_mutexes[i] = t <=> InSlot(t) /\ curr_index[t] = i
      BY DEF IInv, LocksInv
    <3>2. CASE t = p
      BY <1>1, <1>2, <1>3, <3>1, <3>2, Constants DEF InSlot
    <3>3. CASE t # p
      BY <1>2, <1>3, <1>4, <3>1, <3>3, Constants
    <3> QED BY <3>2, <3>3
  <2> QED BY <2>1, <2>2 DEF LocksInv
<1>9. StoreInv'
  BY <1>1, <1>2, StoreWoken, Constants
<1>10. LinesInv'
  <2>1. \A q \in Producers : line'[q] = line[q] /\ (Holding(q)' <=> Holding(q))
    BY <1>1, <1>2, <1>4, Constants DEF Holding
  <2> QED BY <1>2, <2>1, LinesKept
<1>11. FifoInv'
  <2>1. /\ \A k \in Consumers : pc'[k] = "absent" <=> pc[k] = "absent"
        /\ \A q \in Producers : pc'[q] = "store" <=> pc[q] = "store"
        /\ \A k \in Consumers : Leaving(k)' <=> Leaving(k)
    BY <1>1, <1>4, Constants
  <2> QED BY <1>2, <2>1, FifoKept
<1> QED BY <1>5, <1>6, <1>7, <1>8, <1>9, <1>10, <1>11 DEF IInv

LEMMA AnnouncePreserves ==
  ASSUME IInv, Running, NEW k \in Consumers, Announce(k) PROVE IInv'
<1>1. /\ pc[k] = "announce" /\ pc'[k] = "lock"
      /\ pc' \in [Threads \cup {Main} -> Places \cup MainPlaces]
      /\ \A u \in (Threads \cup {Main}) \ {k} :
           /\ Undisturbed(u)
           /\ u \in write_cond => pc'[u] = "lock"
           /\ u \notin write_cond => pc'[u] = pc[u]
  <2>1. /\ write_cond \in SUBSET Threads
        /\ \A u \in write_cond : pc[u] = "waiting"
        /\ "lock" \in Places \cup MainPlaces /\ k \in Threads \cup {Main}
    BY Constants DEF IInv, TypeOK, WaitInv, Places
  <2>2. pc' = [u \in DOMAIN pc |-> IF u = k THEN "lock"
                                   ELSE IF u \in write_cond THEN "lock" ELSE pc[u]]
    BY DEF Announce
  <2> QED BY <2>1, <2>2, Wakes DEF IInv, Announce, At
<1>2. /\ write_cond' = {}
      /\ UNCHANGED <<next_line, shared_resource, curr_prod, curr_cons, prod_mutex,
                     cons_mutex, read_cond, done_producing, curr_index, put, got>>
  BY DEF Announce, ring, history
<1>3. /\ curr_index[k] \in Slots
      /\ resource_mutexes[curr_index[k]] = k
      /\ resource_mutexes'[curr_index[k]] = Unlocked
      /\ \A i \in Slots \ {curr_index[k]} : resource_mutexes'[i] = resource_mutexes[i]
      /\ resource_mutexes' \in [Slots -> Threads \cup {Unlocked}]
      /\ line' \in [Threads -> Lines \cup {NULL}]
      /\ \A u \in Threads \ {k} : line'[u] = line[u]
  <2>1. /\ resource_mutexes \in [Slots -> Threads \cup {Unlocked}]
        /\ curr_index[k] \in Slots /\ k \in Threads
        /\ line \in [Threads -> Lines \cup {NULL}]
    BY Constants DEF IInv, TypeOK
  <2>2. resource_mutexes[curr_index[k]] = k
    BY <1>1, <2>1 DEF IInv, LocksInv, InSlot
  <2> QED BY <2>1, <2>2 DEF Announce
<1>4. \A u \in Threads \ {k} : /\ InSlot(u)' <=> InSlot(u)
                               /\ Leaving(u)' <=> Leaving(u)
                               /\ Holding(u)' <=> Holding(u)
                               /\ pc'[u] = "store" <=> pc[u] = "store"
                               /\ pc'[u] = "absent" <=> pc[u] = "absent"
  BY <1>1, Constants DEF Undisturbed, InSlot, Leaving, Holding
<1>5. TypeOK'
  BY <1>1, <1>2, <1>3, Constants DEF IInv, TypeOK
<1>6. PlacesInv'
  BY <1>1, Constants DEF IInv, PlacesInv, Undisturbed, TypeOK, MainPlaces
<1>7. WaitInv'
  BY <1>1, <1>2, Constants DEF IInv, PlacesInv, WaitInv, TypeOK
<1>8. LocksInv'
  <2>1. /\ \A q \in Producers :
             prod_mutex' = q <=> pc'[q] \in {"test", "block", "store", "copy"}
        /\ \A j \in Consumers :
             cons_mutex' = j <=> pc'[j] \in {"test", "ask", "block", "enter"}
    BY <1>1, <1>2, Constants DEF IInv, LocksInv, Undisturbed
  <2>2. ASSUME NEW t \in Threads, NEW i \in Slots
        PROVE  resource_mutexes'[i] = t <=> InSlot(t)' /\ curr_index'[t] = i
    <3>1. resource_mutexes[i] = t <=> InSlot(t) /\ curr_index[t] = i
      BY DEF IInv, LocksInv
    <3>2. CASE t = k
      BY <1>1, <1>2, <1>3, <3>1, <3>2, Constants DEF InSlot
    <3>3. CASE t # k
      BY <1>2, <1>3, <1>4, <3>1, <3>3, Constants
    <3> QED BY <3>2, <3>3
  <2> QED BY <2>1, <2>2 DEF LocksInv
<1>9. StoreInv'
  BY <1>1, <1>2, StoreWoken, Constants
<1>10. LinesInv'
  <2>1. \A q \in Producers : line'[q] = line[q] /\ (Holding(q)' <=> Holding(q))
    BY <1>1, <1>3, <1>4, Constants
  <2> QED BY <1>2, <2>1, LinesKept
<1>11. FifoInv'
  <2>1. /\ \A j \in Consumers : pc'[j] = "absent" <=> pc[j] = "absent"
        /\ \A q \in Producers : pc'[q] = "store" <=> pc[q] = "store"
        /\ \A j \in Consumers : Leaving(j)' <=> Leaving(j)
    BY <1>1, <1>4, Constants DEF Leaving
  <2> QED BY <1>2, <2>1, FifoKept
<1> QED BY <1>5, <1>6, <1>7, <1>8, <1>9, <1>10, <1>11 DEF IInv

(* The steps of the main thread that leave the array alone, and a signal. *)
LEMMA MainPreserves ==
  ASSUME IInv, Running, JoinProducers \/ JoinConsumers \/ sig_handler PROVE IInv'
<1>1. /\ pc'[Main] \in {"broadcast", "clean_up", "killed"}
      /\ \A u \in Threads : pc'[u] = pc[u]
      /\ pc' \in [Threads \cup {Main} -> Places \cup MainPlaces]
  <2>1. \E place \in {"broadcast", "clean_up", "killed"} : Goto(Main, place)
    BY DEF JoinProducers, JoinConsumers, sig_handler
  <2> QED BY <2>1, Moves, Constants DEF IInv, MainPlaces
<1>2. /\ done_producing' \in BOOLEAN
      /\ UNCHANGED <<next_line, shared_resource, curr_prod, curr_cons, prod_mutex,
                     cons_mutex, resource_mutexes, read_cond, write_cond, line,
                     curr_index, put, got>>
  BY DEF IInv, TypeOK, JoinProducers, JoinConsumers, sig_handler, ring, mutexes,
         conds, locals, history
<1>3. TypeOK'
  BY <1>1, <1>2 DEF IInv, TypeOK
<1>4. PlacesInv' /\ WaitInv'
  BY <1>1, <1>2, Constants DEF IInv, PlacesInv, WaitInv, MainPlaces
<1>5. LocksInv'
  BY <1>1, <1>2, Constants DEF IInv, LocksInv, InSlot
<1>6. StoreInv'
  BY <1>1, <1>2, StoreKept, Constants
<1>7. LinesInv' /\ FifoInv'
  BY <1>1, <1>2, LinesKept, FifoKept, Constants DEF Leaving, Holding
<1> QED BY <1>3, <1>4, <1>5, <1>6, <1>7 DEF IInv

LEMMA BroadcastDonePreserves ==
  ASSUME IInv, Running, BroadcastDone PROVE IInv'
<1>1. /\ pc'[Main] = "join_consumers"
      /\ pc' \in [Threads \cup {Main} -> Places \cup MainPlaces]
      /\ \A u \in Threads :
           /\ Undisturbed(u)
           /\ u \in read_cond => pc'[u] = "lock"
           /\ u \notin read_cond => pc'[u] = pc[u]
  <2>1. /\ read_cond \in SUBSET Threads
        /\ \A u \in read_cond : pc[u] = "waiting"
        /\ "join_consumers" \in Places \cup MainPlaces /\ Main \in Threads \cup {Main}
    BY Constants DEF IInv, TypeOK, WaitInv, MainPlaces
  <2>2. pc' = [u \in DOMAIN pc |-> IF u = Main THEN "join_consumers"
                                   ELSE IF u \in read_cond THEN "lock" ELSE pc[u]]
    BY DEF BroadcastDone
  <2>3. /\ pc' \in [Threads \cup {Main} -> Places \cup MainPlaces]
        /\ pc'[Main] = "join_consumers"
        /\ \A u \in (Threads \cup {Main}) \ {Main} :
             /\ Undisturbed(u)
             /\ u \in read_cond => pc'[u] = "lock"
             /\ u \notin read_cond => pc'[u] = pc[u]
    BY <2>1, <2>2, Wakes DEF IInv
  <2> QED BY <2>3, Constants
<1>2. /\ read_cond' = {}
      /\ UNCHANGED <<next_line, shared_resource, curr_prod, curr_cons, prod_mutex,
                     cons_mutex, resource_mutexes, write_cond, done_producing, line,
                     curr_index, put, got>>
  BY DEF BroadcastDone, ring, mutexes, locals, history
<1>3. \A u \in Threads : /\ InSlot(u)' <=> InSlot(u)
                         /\ Leaving(u)' <=> Leaving(u)
                         /\ Holding(u)' <=> Holding(u)
                         /\ pc'[u] = "store" <=> pc[u] = "store"
                         /\ pc'[u] = "absent" <=> pc[u] = "absent"
  BY <1>1 DEF Undisturbed, InSlot, Leaving, Holding
<1>4. TypeOK'
  BY <1>1, <1>2 DEF IInv, TypeOK
<1>5. PlacesInv'
  BY <1>1, Constants DEF IInv, PlacesInv, Undisturbed, MainPlaces
<1>6. WaitInv'
  BY <1>1, <1>2, Constants DEF IInv, PlacesInv, WaitInv, TypeOK
<1>7. LocksInv'
  <2>1. /\ \A q \in Producers :
             prod_mutex' = q <=> pc'[q] \in {"test", "block", "store", "copy"}
        /\ \A j \in Consumers :
             cons_mutex' = j <=> pc'[j] \in {"test", "ask", "block", "enter"}
    BY <1>1, <1>2, Constants DEF IInv, LocksInv, Undisturbed
  <2> QED BY <1>2, <1>3, <2>1 DEF IInv, LocksInv
<1>8. StoreInv'
  BY <1>2, <1>3, StoreKept, Constants
<1>9. LinesInv' /\ FifoInv'
  BY <1>2, <1>3, LinesKept, FifoKept, Constants
<1> QED BY <1>4, <1>5, <1>6, <1>7, <1>8, <1>9 DEF IInv

(* Nothing is said of the lines once clean_up has freed them. *)
LEMMA CleanUpPreserves ==
  ASSUME IInv, clean_up PROVE IInv'
<1>1. /\ pc'[Main] = "exited"
      /\ \A u \in Threads : pc'[u] = pc[u]
      /\ pc' \in [Threads \cup {Main} -> Places \cup MainPlaces]
  BY Moves, Constants DEF IInv, clean_up, MainPlaces
<1>2. /\ shared_resource' = [i \in Slots |-> NULL]
      /\ UNCHANGED <<next_line, curr_prod, curr_cons, prod_mutex, cons_mutex,
                     resource_mutexes, read_cond, write_cond, done_producing, line,
                     curr_index, put, got>>
  BY DEF clean_up, mutexes, conds, locals, history
<1>3. TypeOK'
  BY <1>1, <1>2 DEF IInv, TypeOK
<1>4. PlacesInv' /\ WaitInv'
  BY <1>1, <1>2, Constants DEF IInv, PlacesInv, WaitInv, MainPlaces
<1>5. LocksInv'
  BY <1>1, <1>2, Constants DEF IInv, LocksInv, InSlot
<1>6. StoreInv'
  BY <1>2, <1>3, Constants DEF StoreInv, slot_full, TypeOK
<1>7. LinesInv' /\ FifoInv'
  BY <1>1 DEF LinesInv, FifoInv
<1> QED BY <1>3, <1>4, <1>5, <1>6, <1>7 DEF IInv

LEMMA SpuriousWakeupPreserves ==
  ASSUME IInv, Running, NEW t \in Threads, SpuriousWakeup(t) PROVE IInv'
<1>1. /\ pc[t] = "waiting" /\ pc'[t] = "lock"
      /\ \A u \in (Threads \cup {Main}) \ {t} : pc'[u] = pc[u]
      /\ pc' \in [Threads \cup {Main} -> Places \cup MainPlaces]
  <2>1. pc[t] = "waiting"
    BY DEF SpuriousWakeup, IInv, TypeOK, WaitInv
  <2> QED BY <2>1, Moves, Constants DEF IInv, SpuriousWakeup, Places
<1>2. /\ read_cond' = read_cond \ {t} /\ write_cond' = write_cond \ {t}
      /\ UNCHANGED <<next_line, shared_resource, curr_prod, curr_cons, prod_mutex,
                     cons_mutex, resource_mutexes, done_producing, line, curr_index,
                     put, got>>
  BY DEF SpuriousWakeup, ring, mutexes, locals, history
<1>3. TypeOK'
  BY <1>1, <1>2 DEF IInv, TypeOK
<1>4. PlacesInv'
  BY <1>1, Constants DEF IInv, PlacesInv
<1>5. WaitInv'
  BY <1>1, <1>2, Constants DEF IInv, WaitInv
<1>6. LocksInv'
  BY <1>1, <1>2, Constants DEF IInv, LocksInv, InSlot
<1>7. StoreInv'
  BY <1>1, <1>2, StoreKept, Constants
<1>8. LinesInv' /\ FifoInv'
  BY <1>1, <1>2, LinesKept, FifoKept, Constants DEF Leaving, Holding
<1> QED BY <1>3, <1>4, <1>5, <1>6, <1>7, <1>8 DEF IInv

LEMMA StutterPreserves == IInv /\ UNCHANGED vars => IInv'
<1> SUFFICES ASSUME IInv, UNCHANGED vars PROVE IInv'
  OBVIOUS
<1> USE DEF vars, ring, mutexes, conds, locals, history
<1>1. TypeOK' /\ PlacesInv' /\ LocksInv' /\ WaitInv' /\ StoreInv'
  BY DEF IInv, TypeOK, PlacesInv, LocksInv, InSlot, WaitInv, StoreInv, slot_full
<1>2. LinesInv'
  BY DEF IInv, LinesInv, Somewhere, Holding, slot_full
<1>3. FifoInv'
  BY DEF IInv, FifoInv, single, At, ArrayInv, InArray, TurnInv, Leaving, slot_full
<1> QED BY <1>1, <1>2, <1>3 DEF IInv

-------------------------------------------------------------------------------
(* A line enters the array, and leaves it. *)

(* The slot it tested is free, so with one consumer the array is not full: *)
(* the oldest of N buffered lines would be in that slot.                   *)
LEMMA RoomToStore ==
  ASSUME IInv, Running, single, NEW p \in Producers, pc[p] = "store"
  PROVE  Len(put) - Len(got) < N
<1>1. ArrayInv /\ TurnInv
  BY DEF IInv, FifoInv, Running
<1>2. /\ Len(got) \in Nat /\ Len(put) \in Nat /\ N \in Nat \ {0}
      /\ Len(put) - Len(got) <= N
  BY <1>1, Typed, Constants DEF ArrayInv
<1>3. curr_index[p] = Len(put) % N /\ shared_resource[curr_index[p]] = NULL
  BY <1>1 DEF TurnInv, IInv, StoreInv, slot_full
<1> SUFFICES ASSUME Len(put) = Len(got) + N PROVE FALSE
  BY <1>2
<1>4. /\ Len(got) + 1 \in InArray /\ Len(got) + 1 \in 1..Len(put)
      /\ SlotOf(Len(got) + 1) = Len(got) % N
  BY <1>2 DEF InArray, SlotOf
<1>5. Len(got) % N = curr_index[p]
  BY <1>2, <1>3, RemainderRound
<1>6. shared_resource[curr_index[p]] = put[Len(got) + 1]
  BY <1>1, <1>4, <1>5 DEF ArrayInv
<1>7. put[Len(got) + 1] \in Lines
  BY <1>4, Typed
<1> QED BY <1>3, <1>6, <1>7, Constants

LEMMA StorePreserves ==
  ASSUME IInv, Running, NEW p \in Producers, Store(p) PROVE IInv'
<1> DEFINE c == curr_index[p]  l == line[p]
<1>1. /\ pc[p] = "store" /\ pc'[p] = "copy"
      /\ \A u \in (Threads \cup {Main}) \ {p} : pc'[u] = pc[u]
      /\ pc' \in [Threads \cup {Main} -> Places \cup MainPlaces]
  BY Moves, Constants DEF IInv, Store, At, Places
<1>2. /\ put' = Append(put, l)
      /\ UNCHANGED <<next_line, curr_prod, curr_cons, prod_mutex, cons_mutex,
                     read_cond, write_cond, done_producing, line, curr_index, got>>
  BY DEF Store, conds, locals
<1>3. /\ Holding(p) /\ ~Holding(p)'
      /\ \A q \in Producers \ {p} : Holding(q)' <=> Holding(q)
  BY <1>1, Constants DEF Holding
<1>4. c \in Slots /\ l \in Lines \cup {NULL} /\ l \in 1..next_line-1
  BY <1>3, Typed, Constants DEF IInv, LinesInv, Running
<1>5. l \in Lines /\ l # NULL
  BY <1>4, Constants DEF NULL
<1>6. shared_resource[c] = NULL
  BY <1>1 DEF IInv, StoreInv, slot_full
<1>7. /\ resource_mutexes[c] = Unlocked /\ resource_mutexes'[c] = p
      /\ \A i \in Slots \ {c} : resource_mutexes'[i] = resource_mutexes[i]
      /\ resource_mutexes' \in [Slots -> Threads \cup {Unlocked}]
  <2>1. /\ resource_mutexes \in [Slots -> Threads \cup {Unlocked}] /\ p \in Threads
    BY Constants DEF IInv, TypeOK
  <2> QED BY <1>4, <2>1 DEF Store, LockResource
<1>8. /\ shared_resource'[c] = l
      /\ \A i \in Slots \ {c} : shared_resource'[i] = shared_resource[i]
      /\ shared_resource' \in [Slots -> Lines \cup {NULL}]
  BY <1>4 DEF IInv, TypeOK, Store
<1>9. /\ put' \in Seq(Lines) /\ Len(put') = Len(put) + 1 /\ put'[Len(put) + 1] = l
      /\ \A n \in 1..Len(put) : put'[n] = put[n]
  BY <1>2, <1>5, Typed
<1>10. TypeOK'
  BY <1>1, <1>2, <1>7, <1>8, <1>9 DEF IInv, TypeOK
<1>11. PlacesInv' /\ WaitInv'
  BY <1>1, <1>2, Constants DEF IInv, PlacesInv, WaitInv
<1>12. prod_mutex = p /\ \A q \in Producers \ {p} : pc[q] # "store" /\ pc'[q] # "store"
  BY <1>1, Constants DEF IInv, LocksInv
<1>13. LocksInv'
  <2>1. /\ \A q \in Producers :
             prod_mutex' = q <=> pc'[q] \in {"test", "block", "store", "copy"}
        /\ \A j \in Consumers :
             cons_mutex' = j <=> pc'[j] \in {"test", "ask", "block", "enter"}
    BY <1>1, <1>2, <1>12, Constants DEF IInv, LocksInv
  <2>2. ASSUME NEW t \in Threads, NEW i \in Slots
        PROVE  resource_mutexes'[i] = t <=> InSlot(t)' /\ curr_index'[t] = i
    <3>1. resource_mutexes[i] = t <=> InSlot(t) /\ curr_index[t] = i
      BY DEF IInv, LocksInv
    <3>2. CASE t = p
      BY <1>1, <1>2, <1>7, <3>1, <3>2, Constants DEF InSlot
    <3>3. CASE t # p
      BY <1>1, <1>2, <1>7, <3>1, <3>3, Constants DEF InSlot
    <3> QED BY <3>2, <3>3
  <2> QED BY <2>1, <2>2 DEF LocksInv
<1>14. StoreInv'
  BY <1>1, <1>12 DEF StoreInv
<1>15. LinesInv'
  <2>1. LinesInv /\ pc[Main] # "exited"
    BY DEF IInv, Running
  <2>2. ASSUME NEW m \in 1..next_line'-1 PROVE Somewhere(m)'
    <3>1. Somewhere(m) /\ m # NULL
      BY <1>2, <2>1, Constants DEF LinesInv, NULL
    <3>2. CASE \E q \in Producers : Holding(q) /\ line[q] = m
      BY <1>2, <1>3, <1>4, <1>8, <3>2 DEF Somewhere
    <3>3. CASE \E i \in Slots : shared_resource[i] = m
      BY <1>4, <1>6, <1>8, <3>1, <3>3 DEF Somewhere
    <3>4. CASE \E n \in 1..Len(got) : got[n] = m
      BY <1>2, <3>4 DEF Somewhere
    <3> QED BY <3>1, <3>2, <3>3, <3>4 DEF Somewhere
  <2>3. \A i \in Slots : slot_full(i)' => shared_resource'[i] \in 1..next_line'-1
    BY <1>2, <1>4, <1>8, <2>1 DEF LinesInv, slot_full
  <2>4. \A i \in Slots \ {c} : shared_resource[i] # l
    BY <1>3, <2>1 DEF LinesInv
  <2>5. \A i, j \in Slots :
          slot_full(i)' /\ shared_resource'[i] = shared_resource'[j] => i = j
    BY <1>4, <1>8, <2>1, <2>4 DEF LinesInv, slot_full
  <2>6. \A n \in 1..Len(got) : got[n] # l
    BY <1>3, <2>1 DEF LinesInv
  <2>7. \A q \in Producers \ {p} : Holding(q) => line[q] # l
    BY <1>3, <2>1 DEF LinesInv
  <2>8. /\ \A q \in Producers : \A i \in Slots :
             Holding(q)' => line'[q] # shared_resource'[i]
        /\ \A i \in Slots : \A n \in 1..Len(got') : shared_resource'[i] # got'[n]
    BY <1>2, <1>3, <1>4, <1>8, <2>1, <2>6, <2>7 DEF LinesInv
  <2> QED BY <1>2, <1>3, <2>1, <2>2, <2>3, <2>5, <2>8 DEF LinesInv
<1>16. FifoInv'
  <2> SUFFICES ASSUME single' PROVE ArrayInv' /\ TurnInv'
    BY DEF FifoInv
  <2>1. single /\ ArrayInv /\ TurnInv
    BY <1>1, Constants DEF single, At, IInv, FifoInv, Running
  <2>2. c = Len(put) % N /\ curr_prod = (Len(put) + 1) % N
    BY <1>1, <2>1 DEF TurnInv
  <2>3. /\ Len(got) \in Nat /\ Len(put) \in Nat /\ N \in Nat \ {0}
        /\ Len(got) <= Len(put) /\ Len(put) - Len(got) <= N
    BY <2>1, Typed, Constants DEF ArrayInv
  <2>4. Len(put) - Len(got) < N
    BY <1>1, <2>1, RoomToStore
  <2>5. ASSUME NEW n \in InArray PROVE SlotOf(n) # c /\ SlotOf(n) \in Slots
    <3>1. n - 1 \in Nat /\ n - 1 < Len(put) /\ Len(put) - (n - 1) < N
      BY <2>3, <2>4 DEF InArray
    <3> QED BY <2>2, <2>3, <3>1, SlotsDiffer, SlotRange DEF SlotOf
  <2>6. /\ InArray' = InArray \cup {Len(put) + 1} /\ InArray \subseteq 1..Len(put)
        /\ SlotOf(Len(put) + 1) = c
    BY <1>2, <1>9, <2>2, <2>3 DEF InArray, SlotOf
  <2>7. Len(got') <= Len(put') /\ Len(put') - Len(got') <= N
    BY <1>2, <1>9, <2>3, <2>4
  <2>8. \A n \in 1..Len(got') : got'[n] = put'[n]
    BY <1>2, <1>9, <2>1, <2>3 DEF ArrayInv
  <2>9. \A n \in InArray' : shared_resource'[SlotOf(n)] = put'[n]
    BY <1>8, <1>9, <2>1, <2>5, <2>6 DEF ArrayInv
  <2>10. ASSUME NEW i \in Slots, slot_full(i)' PROVE \E n \in InArray' : i = SlotOf(n)
    <3>1. CASE i = c
      BY <2>6, <3>1
    <3>2. CASE i # c
      BY <1>8, <2>1, <2>6, <2>10, <3>2 DEF ArrayInv, slot_full
    <3> QED BY <3>1, <3>2
  <2>11. ArrayInv'
    BY <2>7, <2>8, <2>9, <2>10 DEF ArrayInv, SlotOf
  <2>12. \A q \in Producers : pc'[q] # "store"
    BY <1>1, <1>12
  <2>13. curr_prod' = Len(put') % N
    BY <1>2, <1>9, <2>2
  <2>14. \A k \in Consumers : Leaving(k)' <=> Leaving(k)
    BY <1>1, Constants DEF Leaving
  <2>15. \A k \in Consumers : Leaving(k) => slot_full(curr_index[k])'
    <3>1. \A k \in Consumers : Leaving(k) => curr_index[k] \in Slots \ {c}
      BY <1>6, <2>1, Typed, Constants DEF TurnInv, slot_full
    <3> QED BY <1>2, <1>8, <2>1, <3>1 DEF TurnInv, slot_full
  <2>16. TurnInv'
    BY <1>2, <2>1, <2>12, <2>13, <2>14, <2>15 DEF TurnInv
  <2> QED BY <2>11, <2>16
<1> QED BY <1>10, <1>11, <1>13, <1>14, <1>15, <1>16 DEF IInv

(* With one consumer, the slot it takes from holds the oldest line. *)
LEMMA OldestFirst ==
  ASSUME IInv, Running, single, NEW k \in Consumers, pc[k] = "take"
  PROVE  /\ Len(got) + 1 \in InArray /\ Len(got) + 1 \in 1..Len(put)
         /\ SlotOf(Len(got) + 1) = curr_index[k]
         /\ shared_resource[curr_index[k]] = put[Len(got) + 1]
         /\ shared_resource[curr_index[k]] # NULL
<1> DEFINE c == curr_index[k]  n0 == Len(got) + 1
<1>1. ArrayInv /\ TurnInv
  BY DEF IInv, FifoInv, Running
<1>2. slot_full(c) /\ c = Len(got) % N /\ c \in Slots
  BY <1>1, Typed, Constants DEF TurnInv, Leaving
<1>3. /\ Len(got) \in Nat /\ Len(put) \in Nat /\ N \in Nat \ {0}
  BY Typed, Constants
<1>4. PICK n \in InArray : c = SlotOf(n)
  BY <1>1, <1>2 DEF ArrayInv
<1>5. n0 \in InArray /\ n0 \in 1..Len(put)
  BY <1>3, <1>4 DEF InArray
<1>6. SlotOf(n0) = c
  BY <1>2, <1>3 DEF SlotOf
<1>7. shared_resource[c] = put[n0]
  BY <1>1, <1>5, <1>6 DEF ArrayInv
<1> QED BY <1>2, <1>5, <1>6, <1>7 DEF slot_full

LEMMA TakePreserves ==
  ASSUME IInv, Running, NEW k \in Consumers, Take(k) PROVE IInv'
<1> DEFINE c == curr_index[k]  l == shared_resource[c]
<1>1. /\ pc[k] = "take" /\ pc'[k] = "announce"
      /\ \A u \in (Threads \cup {Main}) \ {k} : pc'[u] = pc[u]
      /\ pc' \in [Threads \cup {Main} -> Places \cup MainPlaces]
  BY Moves, Constants DEF IInv, Take, At, Places
<1>2. UNCHANGED <<next_line, curr_prod, curr_cons, prod_mutex, cons_mutex,
                  resource_mutexes, read_cond, write_cond, done_producing,
                  curr_index, put>>
  BY DEF Take, mutexes, conds
<1>3. c \in Slots /\ l \in Lines \cup {NULL}
  BY Typed, Constants
<1>4. /\ line' \in [Threads -> Lines \cup {NULL}]
      /\ \A q \in Producers : line'[q] = line[q]
  BY <1>3, Constants DEF IInv, TypeOK, Take
<1>5. /\ shared_resource'[c] = NULL
      /\ \A i \in Slots \ {c} : shared_resource'[i] = shared_resource[i]
      /\ shared_resource' \in [Slots -> Lines \cup {NULL}]
  BY <1>3 DEF IInv, TypeOK, Take
<1>6. \/ l = NULL /\ got' = got
      \/ l # NULL /\ got' = Append(got, l)
  BY DEF Take
<1>7. l # NULL => /\ got' \in Seq(Lines) /\ Len(got') = Len(got) + 1
                  /\ got'[Len(got) + 1] = l
                  /\ \A n \in 1..Len(got) : got'[n] = got[n]
  <2> SUFFICES ASSUME l # NULL
      PROVE  /\ got' \in Seq(Lines) /\ Len(got') = Len(got) + 1
             /\ got'[Len(got) + 1] = l
             /\ \A n \in 1..Len(got) : got'[n] = got[n]
    OBVIOUS
  <2>1. l \in Lines /\ got' = Append(got, l) /\ got \in Seq(Lines)
    BY <1>3, <1>6, Typed
  <2> QED BY <2>1, AppendProperties
<1>8. TypeOK'
  BY <1>1, <1>2, <1>4, <1>5, <1>6, <1>7 DEF IInv, TypeOK
<1>9. PlacesInv' /\ WaitInv'
  BY <1>1, <1>2, Constants DEF IInv, PlacesInv, WaitInv
<1>10. LocksInv'
  BY <1>1, <1>2, Constants DEF IInv, LocksInv, InSlot
<1>11. \A p \in Producers : pc'[p] = pc[p] /\ (Holding(p)' <=> Holding(p))
  BY <1>1, Constants DEF Holding
<1>12. StoreInv'
  BY <1>2, <1>5, <1>11, Typed, Constants DEF IInv, StoreInv, slot_full
<1>13. LinesInv /\ pc[Main] # "exited"
  BY DEF IInv, Running
<1>14. LinesInv'
  <2>1. CASE l = NULL
    <3>1. \A i \in Slots : shared_resource'[i] = shared_resource[i]
      BY <1>5, <2>1
    <3> QED BY <1>2, <1>4, <1>6, <1>11, <1>13, <2>1, <3>1
            DEF LinesInv, Somewhere, slot_full
  <2>2. CASE l # NULL
    <3>1. /\ 1..Len(got') = 1..Len(got) \cup {Len(got) + 1}
          /\ Len(got) + 1 \notin 1..Len(got) /\ Len(got) + 1 \in 1..Len(got')
      BY <1>7, <2>2, Typed
    <3>2. slot_full(c) /\ l \in 1..next_line-1
      BY <1>3, <1>13, <2>2 DEF LinesInv, slot_full
    <3>3. /\ \A p \in Producers : Holding(p) => line[p] # l
          /\ \A n \in 1..Len(got) : got[n] # l
          /\ \A i \in Slots \ {c} : shared_resource[i] # l
      BY <1>3, <1>13, <3>2 DEF LinesInv
    <3>4. \A i \in Slots : slot_full(i)' => i # c /\ slot_full(i)
      BY <1>5 DEF slot_full
    <3>5. ASSUME NEW m \in 1..next_line'-1 PROVE Somewhere(m)'
      <4>1. Somewhere(m)
        BY <1>2, <1>13 DEF LinesInv
      <4>2. CASE \E q \in Producers : Holding(q) /\ line[q] = m
        BY <1>4, <1>11, <4>2 DEF Somewhere
      <4>3. CASE \E i \in Slots : shared_resource[i] = m
        BY <1>5, <1>7, <2>2, <3>1, <4>3 DEF Somewhere
      <4>4. CASE \E n \in 1..Len(got) : got[n] = m
        BY <1>7, <2>2, <3>1, <4>4 DEF Somewhere
      <4> QED BY <4>1, <4>2, <4>3, <4>4 DEF Somewhere
    <3>6. \A i \in Slots : slot_full(i)' => shared_resource'[i] \in 1..next_line'-1
      BY <1>2, <1>5, <1>13, <3>4 DEF LinesInv
    <3>7. \A n \in 1..Len(got') : got'[n] \in 1..next_line'-1
      BY <1>2, <1>7, <1>13, <2>2, <3>1, <3>2 DEF LinesInv
    <3>8. \A i, j \in Slots :
            slot_full(i)' /\ shared_resource'[i] = shared_resource'[j] => i = j
      BY <1>5, <1>13, <3>4 DEF LinesInv, slot_full
    <3>9. \A m, n \in 1..Len(got') : got'[m] = got'[n] => m = n
      BY <1>7, <1>13, <2>2, <3>1, <3>3 DEF LinesInv
    <3>10. ASSUME NEW p \in Producers, NEW i \in Slots, Holding(p)'
           PROVE  line'[p] # shared_resource'[i]
      <4>1. line'[p] \in 1..next_line-1
        BY <1>4, <1>11, <1>13, <3>10 DEF LinesInv
      <4>2. line'[p] # NULL
        BY <4>1, Constants DEF NULL
      <4> QED BY <1>4, <1>5, <1>11, <1>13, <3>10, <4>2 DEF LinesInv
    <3>11. \A p \in Producers : \A n \in 1..Len(got') : Holding(p)' => line'[p] # got'[n]
      BY <1>4, <1>7, <1>11, <1>13, <2>2, <3>1, <3>3 DEF LinesInv
    <3>12. ASSUME NEW i \in Slots, NEW n \in 1..Len(got')
           PROVE  shared_resource'[i] # got'[n]
      <4>1. got'[n] # NULL
        BY <3>7, Constants DEF NULL
      <4>2. CASE i = c
        BY <1>5, <4>1, <4>2
      <4>3. CASE i # c
        BY <1>5, <1>7, <1>13, <2>2, <3>1, <3>3, <4>3 DEF LinesInv
      <4> QED BY <4>2, <4>3
    <3>13. /\ \A p \in Producers : Holding(p)' => line'[p] \in 1..next_line'-1
           /\ \A p, q \in Producers :
                Holding(p)' /\ Holding(q)' /\ line'[p] = line'[q] => p = q
      BY <1>2, <1>4, <1>11, <1>13 DEF LinesInv
    <3> QED BY <3>5, <3>6, <3>7, <3>8, <3>9, <3>10, <3>11, <3>12, <3>13 DEF LinesInv
  <2> QED BY <2>1, <2>2
<1>15. FifoInv'
  <2> SUFFICES ASSUME single' PROVE ArrayInv' /\ TurnInv'
    BY DEF FifoInv
  <2>1. single /\ ArrayInv /\ TurnInv
    BY <1>1, Constants DEF single, At, IInv, FifoInv, Running
  <2> DEFINE n0 == Len(got) + 1
  <2>2. c = Len(got) % N /\ curr_cons = (Len(got) + 1) % N
    BY <1>1, <2>1 DEF TurnInv, Leaving
  <2>3. n0 \in InArray /\ n0 \in 1..Len(put) /\ SlotOf(n0) = c /\ l = put[n0] /\ l # NULL
    BY <1>1, <2>1, OldestFirst
  <2>4. /\ Len(got) \in Nat /\ Len(put) \in Nat /\ N \in Nat \ {0}
        /\ Len(put) - Len(got) <= N
    BY <2>1, Typed, Constants DEF ArrayInv
  <2>9. \A m \in InArray \ {n0} : SlotOf(m) # c /\ SlotOf(m) \in Slots
    <3> TAKE m \in InArray \ {n0}
    <3>1. m - 1 \in Nat /\ Len(got) < m - 1 /\ (m - 1) - Len(got) < N
      BY <2>4 DEF InArray
    <3> QED BY <2>2, <2>4, <3>1, SlotsDiffer, SlotRange DEF SlotOf
  <2>10. InArray' = InArray \ {n0}
    BY <1>2, <1>7, <2>3, <2>4 DEF InArray
  <2>11. Len(got') <= Len(put') /\ Len(put') - Len(got') <= N
    BY <1>2, <1>7, <2>3, <2>4
  <2>12. \A m \in 1..Len(got') : got'[m] = put'[m]
    <3>1. 1..Len(got') = 1..Len(got) \cup {n0}
      BY <1>7, <2>3, <2>4
    <3> QED BY <1>2, <1>7, <2>1, <2>3, <3>1 DEF ArrayInv
  <2>13. \A m \in InArray' : shared_resource'[SlotOf(m)] = put'[m]
    BY <1>2, <1>5, <2>1, <2>9, <2>10 DEF ArrayInv
  <2>14. \A i \in Slots : slot_full(i)' => \E m \in InArray' : i = SlotOf(m)
    BY <1>5, <2>1, <2>3, <2>10 DEF ArrayInv, slot_full
  <2>15. ArrayInv'
    BY <2>11, <2>12, <2>13, <2>14 DEF ArrayInv, SlotOf
  <2>16. \A j \in Consumers : ~Leaving(j)'
    BY <1>1, <2>1, Constants DEF single, At, Leaving
  <2>17. curr_cons' = Len(got') % N
    BY <1>2, <1>7, <2>2, <2>3
  <2>18. TurnInv'
    BY <1>2, <1>11, <2>1, <2>16, <2>17 DEF TurnInv
  <2> QED BY <2>15, <2>18
<1> QED BY <1>8, <1>9, <1>10, <1>12, <1>14, <1>15 DEF IInv

LEMMA NextPreserves == IInv /\ [Next]_vars => IInv'
<1> SUFFICES ASSUME IInv, [Next]_vars PROVE IInv'
  OBVIOUS
<1>1. CASE UNCHANGED vars
  BY <1>1, StutterPreserves
<1>2. CASE Next
  <2>1. Running
    BY <1>2 DEF Next
  <2>2. ASSUME NEW p \in Producers, produce(p) PROVE IInv'
    BY <2>1, <2>2, FgetsPreserves, LockProdPreserves, ProdTestPreserves,
       ProdWaitPreserves, StorePreserves, PublishPreserves DEF produce
  <2>3. ASSUME NEW k \in Consumers, consume(k) PROVE IInv'
    BY <2>1, <2>3, LockConsPreserves, ConsTestPreserves, AskDonePreserves,
       ConsWaitPreserves, EnterSlotPreserves, TakePreserves, AnnouncePreserves
       DEF consume
  <2>4. CASE wait_threads \/ sig_handler
    BY <2>1, <2>4, MainPreserves, BroadcastDonePreserves DEF wait_threads
  <2>5. CASE clean_up
    BY <2>5, CleanUpPreserves
  <2>6. ASSUME NEW t \in Threads, SpuriousWakeup(t) PROVE IInv'
    BY <2>1, <2>6, SpuriousWakeupPreserves
  <2> QED BY <1>2, <2>2, <2>3, <2>4, <2>5, <2>6 DEF Next
<1> QED BY <1>1, <1>2

(* The inductive invariant holds in every reachable state. *)
THEOREM Invariance == Spec => []IInv
BY InitEstablishes, NextPreserves, PTL DEF Spec

(* Every variable keeps its type: no index leaves the array and a mutex is *)
(* never owned by a thread that does not lock it.                          *)
THEOREM Typing == Spec => []TypeOK
<1>1. IInv => TypeOK
  BY DEF IInv
<1> QED BY <1>1, Invariance, PTL

(* Neither a producer and a consumer nor two consumers are in one slot. *)
THEOREM OneThreadPerSlot == Spec => []SlotExclusive
<1>1. IInv => SlotExclusive
  <2> SUFFICES ASSUME IInv, NEW t \in Threads, NEW u \in Threads,
                      InSlot(t), InSlot(u), curr_index[t] = curr_index[u]
               PROVE  t = u
    BY DEF SlotExclusive, InSlot
  <2>1. curr_index[t] \in Slots
    BY Typed
  <2>2. resource_mutexes[curr_index[t]] = t /\ resource_mutexes[curr_index[t]] = u
    BY <2>1 DEF IInv, LocksInv
  <2> QED BY <2>2
<1> QED BY <1>1, Invariance, PTL

(* Each line that left the file is in one place: with a producer, in a     *)
(* slot or taken, however many consumers pass each other in the array.     *)
THEOREM NoLineLostOrDoubled == Spec => []OnePlacePerLine
<1>1. IInv => OnePlacePerLine
  <2> SUFFICES ASSUME IInv, pc[Main] # "exited", NEW l \in Lines
               PROVE  /\ PlacesOf(l) # {} <=> l < next_line
                      /\ \A x, y \in PlacesOf(l) : x = y
    BY DEF OnePlacePerLine
  <2>1. LinesInv /\ l # NULL /\ l \in Nat \ {0} /\ next_line \in Nat
    BY Typed, Constants DEF IInv, Lines, NULL
  <2>2. \A x \in PlacesOf(l) :
          \/ \E p \in Producers : x = <<"producer", p>> /\ Holding(p) /\ line[p] = l
          \/ \E i \in Slots : x = <<"slot", i>> /\ shared_resource[i] = l
          \/ \E n \in 1..Len(got) : x = <<"taken", n>> /\ got[n] = l
    BY DEF PlacesOf, Holding
  <2>3. ASSUME NEW x \in PlacesOf(l) PROVE l \in 1..next_line-1
    BY <2>1, <2>2 DEF LinesInv, slot_full
  <2>4. ASSUME l < next_line PROVE PlacesOf(l) # {}
    <3>1. Somewhere(l)
      BY <2>1, <2>4 DEF LinesInv
    <3>2. ASSUME NEW p \in Producers, Holding(p), line[p] = l PROVE PlacesOf(l) # {}
      <4>1. <<"producer", p>> \in PlacesOf(l)
        BY <3>2 DEF PlacesOf, Holding
      <4> QED BY <4>1
    <3>3. ASSUME NEW i \in Slots, shared_resource[i] = l PROVE PlacesOf(l) # {}
      <4>1. <<"slot", i>> \in PlacesOf(l)
        BY <3>3 DEF PlacesOf
      <4> QED BY <4>1
    <3>4. ASSUME NEW n \in 1..Len(got), got[n] = l PROVE PlacesOf(l) # {}
      <4>1. <<"taken", n>> \in PlacesOf(l)
        BY <3>4 DEF PlacesOf
      <4> QED BY <4>1
    <3> QED BY <3>1, <3>2, <3>3, <3>4 DEF Somewhere
  <2>5. ASSUME NEW x \in PlacesOf(l), NEW y \in PlacesOf(l) PROVE x = y
    <3>1. /\ \A p, q \in Producers :
               Holding(p) /\ line[p] = l /\ Holding(q) /\ line[q] = l => p = q
          /\ \A i, j \in Slots : shared_resource[i] = l /\ shared_resource[j] = l => i = j
          /\ \A m, n \in 1..Len(got) : got[m] = l /\ got[n] = l => m = n
      BY <2>1 DEF LinesInv, slot_full
    <3>2. /\ \A p \in Producers : \A i \in Slots :
               ~(Holding(p) /\ line[p] = l /\ shared_resource[i] = l)
          /\ \A p \in Producers : \A n \in 1..Len(got) :
               ~(Holding(p) /\ line[p] = l /\ got[n] = l)
          /\ \A i \in Slots : \A n \in 1..Len(got) :
               ~(shared_resource[i] = l /\ got[n] = l)
      BY <2>1 DEF LinesInv
    <3> QED BY <2>2, <3>1, <3>2
  <2>6. PlacesOf(l) # {} => l < next_line
    BY <2>1, <2>3
  <2> QED BY <2>4, <2>5, <2>6
<1> QED BY <1>1, Invariance, PTL

-------------------------------------------------------------------------------
(* Locks cannot block the threads for ever. *)

(* The guard of the step a thread takes next. *)
Ready(t) ==
  \/ pc[t] \in {"fgets", "test", "ask", "block", "copy", "take", "announce"}
  \/ t \in Producers /\ pc[t] = "lock" /\ prod_mutex = Unlocked
  \/ t \in Consumers /\ pc[t] = "lock" /\ cons_mutex = Unlocked
  \/ pc[t] \in {"store", "enter"} /\ resource_mutexes[curr_index[t]] = Unlocked

(* A thread that waits for a mutex waits, in at most two hops, for a       *)
(* thread that can take its step, for prod_mutex and cons_mutex come before *)
(* the mutex of a slot in both functions: when nobody is ready, all threads *)
(* wait for a broadcast, finished or were not created, and no mutex is held. *)
NoLockCycle ==
  \/ \E t \in Threads : Ready(t)
  \/ /\ \A t \in Threads : pc[t] \in {"waiting", "finished", "absent"}
     /\ prod_mutex = Unlocked /\ cons_mutex = Unlocked
     /\ \A i \in Slots : resource_mutexes[i] = Unlocked

(* In every reachable state, for any number of threads and slots. *)
THEOREM LocksNeverBlock == Spec => []NoLockCycle
<1>1. IInv => NoLockCycle
  <2> SUFFICES ASSUME IInv, \A t \in Threads : ~Ready(t)
               PROVE  /\ \A t \in Threads : pc[t] \in {"waiting", "finished", "absent"}
                      /\ prod_mutex = Unlocked /\ cons_mutex = Unlocked
                      /\ \A i \in Slots : resource_mutexes[i] = Unlocked
    BY DEF NoLockCycle
  <2>1. ASSUME NEW i \in Slots PROVE resource_mutexes[i] = Unlocked
    <3>1. resource_mutexes[i] \in Threads \cup {Unlocked}
      BY DEF IInv, TypeOK
    <3>2. ASSUME NEW t \in Threads, resource_mutexes[i] = t PROVE FALSE
      BY <3>2 DEF IInv, LocksInv, InSlot, Ready
    <3> QED BY <3>1, <3>2
  <2>2. \A t \in Threads : pc[t] \notin {"store", "enter"}
    BY <2>1, Typed DEF Ready
  <2>3. prod_mutex = Unlocked /\ cons_mutex = Unlocked
    <3>1. prod_mutex \in Producers \cup {Unlocked} /\ cons_mutex \in Consumers \cup {Unlocked}
      BY DEF IInv, TypeOK
    <3>2. ASSUME NEW p \in Producers, prod_mutex = p PROVE FALSE
      BY <2>2, <3>2, Constants DEF IInv, LocksInv, Ready
    <3>3. ASSUME NEW k \in Consumers, cons_mutex = k PROVE FALSE
      BY <2>2, <3>3, Constants DEF IInv, LocksInv, Ready
    <3> QED BY <3>1, <3>2, <3>3
  <2>4. \A t \in Threads : pc[t] \in {"waiting", "finished", "absent"}
    BY <2>2, <2>3, Constants DEF IInv, PlacesInv, Ready, Threads
  <2> QED BY <2>1, <2>3, <2>4
<1> QED BY <1>1, Invariance, PTL

-------------------------------------------------------------------------------
(* The refinement: with one consumer Store is Put, Take is Get, and every  *)
(* other step stutters.                                                    *)

PutLines == {put[n] : n \in 1..Len(put)}
Buffered == SubSeq(put, Len(got) + 1, Len(put))

LEMMA StorePuts ==
  ASSUME IInv, Running, single, NEW p \in Producers, Store(p)
  PROVE  Buffer!Put(line[p]) /\ line[p] \in Lines \ PutLines
<1> DEFINE l == line[p]
<1>1. pc[p] = "store" /\ put' = Append(put, l) /\ got' = got
  BY DEF Store, At
<1>2. ArrayInv /\ LinesInv /\ Holding(p)
  BY <1>1 DEF IInv, FifoInv, Running, Holding
<1>3. l \in Lines
  <2>1. l \in 1..next_line-1
    BY <1>2, <1>1 DEF LinesInv, IInv, Running
  <2> QED BY <2>1, Typed, Constants DEF Lines
<1>4. Len(got) <= Len(put) /\ Len(put) - Len(got) < N
  BY <1>1, <1>2, RoomToStore DEF ArrayInv
<1>5. ASSUME NEW n \in 1..Len(put) PROVE put[n] # l
  <2>1. CASE n \in 1..Len(got)
    BY <1>2, <2>1 DEF ArrayInv, LinesInv, Running
  <2>2. CASE n \in InArray
    <3>1. n - 1 \in Nat
      BY Typed
    <3>2. SlotOf(n) \in Slots
      BY <3>1, SlotRange DEF SlotOf
    <3> QED BY <1>2, <2>2, <3>2 DEF ArrayInv, LinesInv, Running
  <2> QED BY <2>1, <2>2, Typed DEF InArray
<1>6. /\ put' \in Seq(Lines) /\ Len(put') = Len(put) + 1 /\ put'[Len(put) + 1] = l
      /\ \A n \in 1..Len(put) : put'[n] = put[n]
      /\ Len(put) \in Nat /\ Len(got) \in Nat
  BY <1>1, <1>3, Typed, AppendProperties
<1>7. Lines \ PutLines' = (Lines \ PutLines) \ {l}
  BY <1>6 DEF PutLines
<1>8. Buffered' = Append(Buffered, l)
  <2>1. Buffered' = SubSeq(put', Len(got) + 1, Len(put) + 1)
    BY <1>1, <1>6 DEF Buffered
  <2>2. Buffered' = SubSeq(put', Len(got) + 1, Len(put)) \o <<l>>
    <3>1. Len(got) + 1 \in 1..Len(put') /\ Len(put') \in Len(got) + 1..Len(put')
      BY <1>4, <1>6
    <3>2. SubSeq(put', Len(got) + 1, Len(put'))
            = SubSeq(put', Len(got) + 1, Len(put') - 1) \o <<put'[Len(put')]>>
      BY <1>6, <3>1, SubSeqRecursiveSecond
    <3>3. Len(put') - 1 = Len(put) /\ Len(put') = Len(put) + 1
      BY <1>6
    <3> QED BY <1>6, <2>1, <3>2, <3>3
  <2>3. SubSeq(put', Len(got) + 1, Len(put)) = Buffered
    BY <1>4, <1>6, Typed DEF Buffered
  <2>4. Buffered \in Seq(Lines)
    BY <1>4, Typed, SubSeqProperties, ElementOfSeq DEF Buffered
  <2> QED BY <1>3, <2>2, <2>3, <2>4, AppendIsConcat
<1>9. Len(Buffered) < N
  <2>1. Len(Buffered) = Len(put) - Len(got)
    BY <1>4, Typed, SubSeqProperties, ElementOfSeq DEF Buffered
  <2> QED BY <1>4, <2>1
<1> QED BY <1>1, <1>3, <1>5, <1>7, <1>8, <1>9 DEF Buffer!Put, Buffered, PutLines

LEMMA TakeGets ==
  ASSUME IInv, Running, single, NEW k \in Consumers, Take(k)
  PROVE  Buffer!Get
<1> DEFINE m == Len(got) + 1
<1>1. /\ m \in 1..Len(put) /\ shared_resource[curr_index[k]] = put[m]
      /\ shared_resource[curr_index[k]] # NULL
  BY OldestFirst DEF Take, At
<1>2. got' = Append(got, put[m]) /\ put' = put
  BY <1>1 DEF Take
<1>3. /\ Len(put) \in m..Len(put) /\ put[m] \in Lines
      /\ Len(put) \in Nat /\ Len(got) \in Nat
  BY <1>1, Typed
<1>4. Len(got') = m
  BY <1>2, <1>3, Typed, AppendProperties
<1>5. Buffered = <<put[m]>> \o SubSeq(put, m+1, Len(put))
  BY <1>1, <1>3, Typed, SubSeqRecursiveFirst DEF Buffered
<1>6. Head(Buffered) = put[m] /\ Tail(Buffered) = SubSeq(put, m+1, Len(put))
  BY <1>1, <1>3, Typed, HeadTailOfSubSeq DEF Buffered
<1>7. Buffered # <<>>
  <2>1. Len(Buffered) = Len(put) - Len(got)
    BY <1>1, Typed, SubSeqProperties, ElementOfSeq DEF Buffered
  <2> QED BY <1>1, <1>3, <2>1
<1>8. Buffered' = SubSeq(put, m+1, Len(put)) /\ PutLines' = PutLines
  BY <1>2, <1>4 DEF Buffered, PutLines
<1> QED BY <1>2, <1>6, <1>7, <1>8 DEF Buffer!Get, Buffered, PutLines

(* The array with one consumer, for any number of producers and slots, is a *)
(* first-in first-out buffer of N lines: each step of the threads is a step *)
(* of the promised buffer or leaves it alone.                              *)
THEOREM Refinement == Spec => ImplementsBuffer
<1>1. Init => (single => Buffer!Init)
  <2> SUFFICES ASSUME Init PROVE Buffer!Init
    OBVIOUS
  <2>1. put = <<>> /\ got = <<>> /\ Len(put) = 0 /\ Len(got) = 0
    BY DEF Init
  <2>2. SubSeq(put, Len(got) + 1, Len(put)) = <<>>
    BY <2>1, SubSeqEmpty
  <2>3. {put[n] : n \in 1..Len(put)} = {}
    BY <2>1
  <2> QED BY <2>1, <2>2, <2>3 DEF Buffer!Init
<1>2. IInv /\ [Next]_vars => [single => [Buffer!Next]_Buffer!vars]_vars
  <2> SUFFICES ASSUME IInv, Next, single PROVE [Buffer!Next]_Buffer!vars
    OBVIOUS
  <2>1. CASE UNCHANGED history
    BY <2>1 DEF history, Buffer!vars
  <2>2. ASSUME NEW p \in Producers, Store(p) PROVE Buffer!Next
    <3>1. /\ line[p] \in Lines \ {put[n] : n \in 1..Len(put)}
          /\ Buffer!Put(line[p])
      BY <2>2, StorePuts DEF PutLines, Next
    <3> QED BY <3>1 DEF Buffer!Next, Buffer!Put
  <2>3. ASSUME NEW k \in Consumers, Take(k) PROVE Buffer!Next
    BY <2>3, TakeGets DEF Buffer!Next, Next
  <2>4. \/ UNCHANGED history
        \/ \E p \in Producers : Store(p)
        \/ \E k \in Consumers : Take(k)
    BY DEF Next, produce, consume, wait_threads, fgets, LockProd, ProdTest, ProdWait,
           Publish, LockCons, ConsTest, AskDone, ConsWait, EnterSlot, Announce,
           JoinProducers, BroadcastDone, JoinConsumers, clean_up, sig_handler,
           SpuriousWakeup, history
  <2> QED BY <2>1, <2>2, <2>3, <2>4
<1>3. Spec => (single => Buffer!Init)
  BY <1>1 DEF Spec
<1>4. Spec => [][single => [Buffer!Next]_Buffer!vars]_vars
  BY <1>2, Invariance, PTL DEF Spec
<1> QED BY <1>3, <1>4, PTL DEF ImplementsBuffer
===============================================================================
