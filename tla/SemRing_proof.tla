---------------------------- MODULE SemRing_proof ----------------------------
(***************************************************************************)
(* Proofs about SemRing for any number of producers, consumers, slots and  *)
(* lines.  The n-th line that is put is the n-th line that is got, and it  *)
(* passes through slot (n-1) % N: SlotOf(n).  IInv says where each thread  *)
(* is on that way, and which semaphores it holds there.                    *)
(***************************************************************************)
EXTENDS SemRing, SequenceTheorems, FiniteSetTheorems, TLAPS

(* The threads that a binary semaphore has admitted. *)
Claiming  == {p \in Producers : pc[p] \in {"claim", "guard"}}
Consuming == {k \in Consumers : pc[k] \in {"test", "guard", "take", "release"}}
Inside(i) == {t \in Threads :
                /\ pc[t] \in {"store", "copy", "take", "release"}
                /\ curr_index[t] = i}

(* A semaphore that is 1 before anybody waits for it admits one thread. *)
Admits(s, inside) ==
  \/ sems[s] = 1 /\ inside = {}
  \/ sems[s] = 0 /\ \E t \in Threads : inside = {t}

TurnsInv ==
  /\ Admits(N, Claiming) /\ Admits(N+1, Consuming)
  /\ \A i \in Slots : Admits(i, Inside(i))

(* The places of each program, and whom main has waited for. *)
PlacesInv ==
  /\ \A p \in Producers :
       pc[p] \in {"fgets", "wait", "claim", "guard", "store", "copy", "finished"}
  /\ \A k \in Consumers :
       pc[k] \in {"wait", "test", "ask", "guard", "take", "release", "finished"}
  /\ pc[Main] \in MainPlaces
  /\ pc[Main] = "clean_up" => \A t \in Threads : pc[t] = "finished"
  /\ pc[Main] = "join_consumers" => \A p \in Producers : pc[p] = "finished"

(* Lines claimed for and not yet taken out of the array. *)
InArray == Len(got)+1..Len(put)
SlotOf(n) == (n-1) % N

Releasing == IF \E k \in Consumers : pc[k] = "release" THEN 1 ELSE 0

CountInv ==
  /\ Len(got) <= Len(put)
  /\ sems[N+2] + (Len(put) - Len(got)) + Releasing = N

(* Where the next line enters and leaves. *)
ConsumersInv ==
  /\ curr_prod = Len(put) % N
  /\ (\A k \in Consumers : pc[k] \notin {"guard", "take"}) =>
       curr_cons = Len(got) % N
  /\ \A k \in Consumers : pc[k] \in {"guard", "take"} =>
       /\ curr_cons = (Len(got) + 1) % N
       /\ curr_index[k] = Len(got) % N
       /\ slot_full(curr_index[k])

(* A slot holds the line it was claimed for, or not yet. *)
ArrayInv ==
  /\ \A n \in 1..Len(got) : got[n] = put[n]
  /\ \A n \in InArray : shared_resource[SlotOf(n)] \in {NULL, put[n]}
  /\ \A i \in Slots : slot_full(i) => \E n \in InArray : i = SlotOf(n)

HasSlot(p) == pc[p] \in {"guard", "store", "copy"}

(* A producer works on a slot of its own, empty until it stores there. *)
ProducersInv ==
  /\ \A p \in Producers : HasSlot(p) =>
       \E n \in InArray : curr_index[p] = SlotOf(n) /\ line[p] = put[n]
  /\ \A p \in Producers :
       pc[p] \in {"guard", "store"} => ~slot_full(curr_index[p])
  /\ \A p, q \in Producers :
       HasSlot(p) /\ HasSlot(q) /\ curr_index[p] = curr_index[q] => p = q

HasLine(p) == pc[p] \in {"wait", "claim"}

(* No line is read twice. *)
LinesInv ==
  /\ \A p \in Producers : HasLine(p) =>
       /\ line[p] \in 1..next_line-1
       /\ \A n \in 1..Len(put) : put[n] # line[p]
  /\ \A p, q \in Producers :
       HasLine(p) /\ HasLine(q) /\ line[p] = line[q] => p = q
  /\ \A n \in 1..Len(put) : put[n] < next_line

IInv ==
  /\ TypeOK /\ PlacesInv /\ TurnsInv /\ CountInv
  /\ ConsumersInv /\ ArrayInv /\ ProducersInv /\ LinesInv

-------------------------------------------------------------------------------
(* Remainders: the slots follow each other round the array. *)

LEMMA DivMod ==
  ASSUME NEW n \in Nat \ {0}, NEW a \in Nat
  PROVE  a % n \in 0..n-1 /\ a \div n \in Nat /\ a = n * (a \div n) + (a % n)
OBVIOUS

LEMMA RemainderOf ==
  ASSUME NEW n \in Nat \ {0}, NEW q \in Nat, NEW r \in 0..n-1
  PROVE  (n * q + r) % n = r
<1> SUFFICES ASSUME NEW a \in Nat, a = n * q + r PROVE a % n = r
  OBVIOUS
<1> DEFINE q2 == a \div n  r2 == a % n
<1>1. r2 \in 0..n-1 /\ q2 \in Nat /\ a = n * q2 + r2
  BY DivMod
<1>2. n * (q - q2) = r2 - r /\ n * (q2 - q) = r - r2
  BY <1>1
<1>3. /\ q - q2 >= 1 => n * (q - q2) >= n
      /\ q2 - q >= 1 => n * (q2 - q) >= n
  BY <1>1
<1>4. q = q2
  BY <1>1, <1>2, <1>3
<1> QED BY <1>1, <1>2, <1>4

(* One step round the array. *)
LEMMA RemainderNext ==
  ASSUME NEW n \in Nat \ {0}, NEW a \in Nat
  PROVE  ((a % n) + 1) % n = (a + 1) % n
<1> DEFINE r == a % n  q == a \div n
<1>1. r \in 0..n-1 /\ a = n * q + r /\ q \in Nat
  BY DivMod
<1>2. CASE r + 1 < n
  <2>1. r + 1 \in 0..n-1 /\ a + 1 = n * q + (r + 1) /\ n * 0 + (r + 1) = r + 1
    BY <1>1, <1>2
  <2>2. (n * q + (r + 1)) % n = r + 1 /\ (n * 0 + (r + 1)) % n = r + 1
    BY <1>1, <2>1, RemainderOf
  <2> QED BY <2>1, <2>2
<1>3. CASE r + 1 = n
  <2>1. /\ 0 \in 0..n-1 /\ q + 1 \in Nat
        /\ a + 1 = n * (q + 1) + 0 /\ r + 1 = n * 1 + 0
    BY <1>1, <1>3
  <2>2. (n * (q + 1) + 0) % n = 0 /\ (n * 1 + 0) % n = 0
    BY <2>1, RemainderOf
  <2> QED BY <2>1, <2>2
<1> QED BY <1>1, <1>2, <1>3

(* Fewer than n steps never lead back to the same slot. *)
LEMMA RemaindersDiffer ==
  ASSUME NEW n \in Nat \ {0}, NEW a \in Nat, NEW b \in Nat, a < b, b - a < n
  PROVE  a % n # b % n
<1> SUFFICES ASSUME a % n = b % n PROVE FALSE
  OBVIOUS
<1> DEFINE q == a \div n  q2 == b \div n
<1>1. /\ a % n \in 0..n-1 /\ a = n * q + (a % n) /\ q \in Nat
      /\ b = n * q2 + (a % n) /\ q2 \in Nat
  BY DivMod
<1>2. b - a = n * (q2 - q)
  BY <1>1
<1>3. /\ q2 - q >= 1 => n * (q2 - q) >= n
      /\ q2 - q <= 0 => n * (q2 - q) <= 0
  BY <1>1
<1> QED BY <1>1, <1>2, <1>3

LEMMA SlotRange == \A a \in Nat : a % N \in Slots
BY DivMod, ConstantsAssumption DEF Slots

(* The slot after that of one ticket is that of the next ticket. *)
LEMMA AfterSlot == \A a \in Nat : after(a % N) = (a + 1) % N
BY RemainderNext, ConstantsAssumption DEF after

(* Tickets less than N apart have slots of their own. *)
LEMMA SlotsDiffer ==
  ASSUME NEW a \in Nat, NEW b \in Nat, a < b, b - a < N
  PROVE  a % N # b % N
BY RemaindersDiffer, ConstantsAssumption

-------------------------------------------------------------------------------
(* What a step of one thread changes. *)

LEMMA Moves ==
  ASSUME TypeOK, NEW t \in Threads \cup {Main}, NEW place, Goto(t, place)
  PROVE  /\ pc'[t] = place
         /\ \A u \in (Threads \cup {Main}) \ {t} : pc'[u] = pc[u]
         /\ place \in Places \cup MainPlaces =>
              pc' \in [Threads \cup {Main} -> Places \cup MainPlaces]
BY DEF TypeOK, Goto

LEMMA Waited ==
  ASSUME TypeOK, NEW s \in 0..N+2, sem_wait(s)
  PROVE  /\ sems' \in [0..N+2 -> Int]
         /\ sems[s] > 0 /\ sems'[s] = sems[s] - 1
         /\ \A r \in (0..N+2) \ {s} : sems'[r] = sems[r]
<1>1. N \in Nat /\ sems \in [0..N+2 -> 0..N+1] /\ DOMAIN sems = 0..N+2
  BY ConstantsAssumption DEF TypeOK
<1>2. /\ sems[s] > 0
      /\ sems' = [r \in 0..N+2 |-> sems[r] - (IF r = s THEN 1 ELSE 0)]
  BY <1>1 DEF sem_wait, SemsAfter
<1>3. \A r \in 0..N+2 : sems[r] \in Int
  BY <1>1
<1> QED BY <1>2, <1>3

LEMMA Posted ==
  ASSUME TypeOK, NEW s \in SUBSET (0..N+2), sems' = SemsAfter({}, s)
  PROVE  /\ sems' \in [0..N+2 -> Int]
         /\ \A r \in 0..N+2 :
              sems'[r] = sems[r] + (IF r \in s THEN 1 ELSE 0)
<1>1. N \in Nat /\ sems \in [0..N+2 -> 0..N+1] /\ DOMAIN sems = 0..N+2
  BY ConstantsAssumption DEF TypeOK
<1>2. sems' = [r \in 0..N+2 |-> sems[r] + (IF r \in s THEN 1 ELSE 0)]
  BY <1>1 DEF SemsAfter
<1>3. \A r \in 0..N+2 : sems[r] \in Int
  BY <1>1
<1>4. \A r \in 0..N+2 : sems[r] + (IF r \in s THEN 1 ELSE 0) \in Int
  BY <1>3
<1>5. \A r \in 0..N+2 : sems'[r] = sems[r] + (IF r \in s THEN 1 ELSE 0)
  BY <1>2
<1> QED BY <1>2, <1>4, <1>5

(* The type of the semaphores follows from what they count. *)
SemsType ==
  /\ sems \in [0..N+2 -> 0..N+1]
  /\ \A s \in 0..N+1 : sems[s] <= 1
  /\ sems[N+2] <= N

LEMMA SemsTyped ==
  ASSUME sems' \in [0..N+2 -> Int], sems'[N+2] >= 0, TurnsInv', CountInv',
         put' \in Seq(Lines), got' \in Seq(Lines)
  PROVE  SemsType'
<1>1. /\ N \in Nat \ {0} /\ Len(put') \in Nat /\ Len(got') \in Nat
      /\ Releasing' \in {0, 1}
  BY ConstantsAssumption DEF Releasing
<1>2. sems'[N+2] <= N
  BY <1>1 DEF CountInv
<1>3. ASSUME NEW s \in 0..N+1 PROVE sems'[s] \in {0, 1}
  <2>1. s \in Slots \/ s = N \/ s = N+1
    BY <1>1 DEF Slots
  <2> QED BY <2>1 DEF TurnsInv, Admits
<1>4. ASSUME NEW s \in 0..N+2 PROVE sems'[s] \in 0..N+1
  <2>0. N \in Nat \ {0} /\ (s = N+2 \/ s \in 0..N+1)
    BY <1>1
  <2>1. CASE s = N+2
    <3>1. sems'[N+2] \in Int
      BY <2>0
    <3> QED BY <1>2, <2>0, <2>1, <3>1
  <2>2. CASE s \in 0..N+1
    <3>1. sems'[s] \in {0, 1}
      BY <1>3, <2>2
    <3> QED BY <2>0, <3>1
  <2> QED BY <2>0, <2>1, <2>2
<1>5. \A s \in 0..N+1 : sems'[s] <= 1
  BY <1>3
<1>6. sems' \in [0..N+2 -> 0..N+1]
  BY <1>4
<1> QED BY <1>2, <1>5, <1>6 DEF SemsType

-------------------------------------------------------------------------------
(* One lemma per action: it preserves the inductive invariant. *)

LEMMA InitEstablishes == Init => IInv
<1> SUFFICES ASSUME Init PROVE IInv
  OBVIOUS
<1>1. N \in Nat \ {0} /\ LINES \in Nat /\ Producers \cap Consumers = {} /\ Main \notin Threads
  BY ConstantsAssumption
<1>2. Len(put) = 0 /\ Len(got) = 0 /\ put \in Seq(Lines) /\ got \in Seq(Lines)
  BY DEF Init
<1>3. /\ \A p \in Producers : pc[p] = "fgets"
      /\ \A k \in Consumers : pc[k] = "wait"
      /\ pc[Main] = "join_producers"
      /\ pc \in [Threads \cup {Main} -> Places \cup MainPlaces]
  BY <1>1 DEF Init, Threads, Places, MainPlaces
<1>4. /\ sems \in [0..N+2 -> 0..N+1] /\ sems[N+2] = N
      /\ \A s \in 0..N+1 : sems[s] = 1
  BY <1>1 DEF Init
<1>5. TypeOK
  <2>1. 0 \in Slots /\ 0 \in Lines \cup {NULL} /\ 1 \in 1..LINES+1
    BY <1>1 DEF Slots, NULL
  <2>2. /\ shared_resource \in [Slots -> Lines \cup {NULL}]
        /\ line \in [Threads -> Lines \cup {NULL}]
        /\ curr_index \in [Threads -> Slots]
        /\ next_line \in 1..LINES+1 /\ curr_prod \in Slots /\ curr_cons \in Slots
        /\ full_info \in BOOLEAN /\ done_producing \in BOOLEAN
    BY <2>1 DEF Init, NULL
  <2>3. \A s \in 0..N+1 : sems[s] <= 1
    BY <1>4
  <2> QED BY <1>1, <1>2, <1>3, <1>4, <2>2, <2>3 DEF TypeOK
<1>6. PlacesInv
  BY <1>3 DEF PlacesInv, MainPlaces
<1>7. TurnsInv
  <2>1. Claiming = {} /\ Consuming = {} /\ \A i \in Slots : Inside(i) = {}
    BY <1>3 DEF Claiming, Consuming, Inside, Threads
  <2>2. \A i \in Slots : i \in 0..N+1
    BY <1>1 DEF Slots
  <2> QED BY <1>1, <1>4, <2>1, <2>2 DEF TurnsInv, Admits
<1>8. CountInv
  BY <1>1, <1>2, <1>3, <1>4 DEF CountInv, Releasing
<1>9. 0 % N = 0
  <2>1. (N * 0 + 0) % N = 0
    BY <1>1, RemainderOf
  <2> QED BY <1>1, <2>1
<1>10. ConsumersInv /\ ArrayInv
  <2>1. curr_prod = 0 /\ curr_cons = 0 /\ \A i \in Slots : ~slot_full(i)
    BY DEF Init, slot_full
  <2>2. InArray = {} /\ 1..Len(got) = {}
    BY <1>2 DEF InArray
  <2> QED BY <1>2, <1>3, <1>9, <2>1, <2>2 DEF ConsumersInv, ArrayInv
<1>11. ProducersInv /\ LinesInv
  BY <1>2, <1>3 DEF ProducersInv, LinesInv, HasSlot, HasLine
<1> QED BY <1>5, <1>6, <1>7, <1>8, <1>10, <1>11 DEF IInv

(* The constants, in the form the arithmetic needs them. *)
LEMMA Constants ==
  /\ N \in Nat \ {0} /\ LINES \in Nat
  /\ Main \notin Threads /\ Producers \cap Consumers = {}
  /\ Producers \subseteq Threads /\ Consumers \subseteq Threads
  /\ Slots \subseteq 0..N+2 /\ N \notin Slots /\ N+1 \notin Slots /\ N+2 \notin Slots
  /\ N \in 0..N+2 /\ N+1 \in 0..N+2 /\ N+2 \in 0..N+2
  /\ N # N+1 /\ N # N+2 /\ N+1 # N+2
BY ConstantsAssumption DEF Threads, Slots

LEMMA ThreadKinds == Producers \subseteq Threads /\ Consumers \subseteq Threads
BY DEF Threads

(* The slot a thread works on has a semaphore of its own. *)
LEMMA SlotSemaphore ==
  ASSUME TypeOK, NEW t \in Threads
  PROVE  /\ curr_index[t] \in Slots /\ curr_index[t] \in 0..N+2
         /\ curr_index[t] # N /\ curr_index[t] # N+1 /\ curr_index[t] # N+2
<1>1. curr_index[t] \in Slots
  BY DEF TypeOK
<1>2. \A i \in Slots : i \in 0..N+2 /\ i # N /\ i # N+1 /\ i # N+2
  <2>1. N \in Nat \ {0}
    BY Constants
  <2> QED BY <2>1 DEF Slots
<1> QED BY <1>1, <1>2

LEMMA Lengths ==
  ASSUME IInv
  PROVE  /\ Len(put) \in Nat /\ Len(got) \in Nat /\ Len(got) <= Len(put)
         /\ put \in Seq(Lines) /\ got \in Seq(Lines)
         /\ next_line \in Nat \ {0}
         /\ sems[N+2] \in Nat /\ Releasing \in {0, 1}
         /\ Len(put) - Len(got) <= N
<1>1. /\ Len(put) \in Nat /\ Len(got) \in Nat /\ Len(got) <= Len(put)
      /\ put \in Seq(Lines) /\ got \in Seq(Lines)
      /\ next_line \in Nat \ {0}
  <2>1. put \in Seq(Lines) /\ got \in Seq(Lines) /\ next_line \in 1..LINES+1
    BY DEF IInv, TypeOK
  <2> QED BY <2>1, Constants DEF IInv, CountInv
<1>2. sems[N+2] \in Nat /\ Releasing \in {0, 1}
  BY Constants DEF IInv, TypeOK, Releasing
<1> QED BY <1>1, <1>2, Constants DEF IInv, CountInv

(* The semaphores of the turns and slots change only with the threads they *)
(* admit.                                                                  *)
LEMMA TurnsKept ==
  ASSUME TurnsInv, Claiming' = Claiming, Consuming' = Consuming,
         \A i \in Slots : Inside(i)' = Inside(i),
         \A s \in (0..N+2) \ {N+2} : sems'[s] = sems[s]
  PROVE  TurnsInv'
BY Constants DEF TurnsInv, Admits

(* A ticket says which line is in a slot: another line has another slot. *)
LEMMA OneTicket ==
  ASSUME IInv, NEW m \in InArray, NEW n \in InArray, SlotOf(m) = SlotOf(n)
  PROVE  m = n
<1>1. /\ m \in Nat \ {0} /\ n \in Nat \ {0}
      /\ Len(put) - Len(got) <= N
      /\ m - n < N /\ n - m < N
  BY Lengths, Constants DEF InArray
<1>2. CASE m < n
  BY <1>1, <1>2, SlotsDiffer DEF SlotOf
<1>3. CASE n < m
  BY <1>1, <1>3, SlotsDiffer DEF SlotOf
<1> QED BY <1>1, <1>2, <1>3

LEMMA FgetsPreserves ==
  ASSUME IInv, NEW p \in Producers, fgets(p) PROVE IInv'
<1>1. /\ pc[p] = "fgets" /\ pc'[p] \in {"wait", "finished"}
      /\ \A u \in (Threads \cup {Main}) \ {p} : pc'[u] = pc[u]
      /\ pc' \in [Threads \cup {Main} -> Places \cup MainPlaces]
  BY Moves, Constants DEF IInv, fgets, At, Places
<1>2. UNCHANGED <<full_info, shared_resource, curr_prod, curr_cons, sems,
                  done_producing, curr_index, put, got>>
  BY DEF fgets, ring, history
<1>3. \/ /\ next_line <= LINES /\ next_line' = next_line + 1
         /\ line' = [line EXCEPT ![p] = next_line]
      \/ /\ pc'[p] = "finished" /\ UNCHANGED <<line, next_line>>
  BY Moves, Constants DEF IInv, fgets
<1>4. /\ next_line' \in 1..LINES+1 /\ next_line' >= next_line
      /\ line' \in [Threads -> Lines \cup {NULL}]
      /\ \A u \in Threads \ {p} : line'[u] = line[u]
      /\ pc'[p] = "wait" => line'[p] = next_line /\ next_line' = next_line + 1
  <2>1. next_line \in 1..LINES+1 /\ line \in [Threads -> Lines \cup {NULL}]
    BY DEF IInv, TypeOK
  <2>2. CASE next_line <= LINES /\ next_line' = next_line + 1
    <3>1. next_line \in Lines
      BY <2>1, <2>2, Constants DEF Lines
    <3> QED BY <1>1, <1>3, <2>1, <2>2, <3>1, Constants
  <2>3. CASE pc'[p] = "finished" /\ UNCHANGED <<line, next_line>>
    BY <2>1, <2>3, Constants
  <2> QED BY <1>3, <2>2, <2>3
<1>5. TypeOK'
  BY <1>1, <1>2, <1>4 DEF IInv, TypeOK
<1>6. PlacesInv'
  BY <1>1, Constants DEF IInv, PlacesInv
<1>7. TurnsInv'
  BY <1>1, <1>2, TurnsKept, Constants
  DEF IInv, Claiming, Consuming, Inside
<1>8. CountInv' /\ ConsumersInv'
  BY <1>1, <1>2, Constants
  DEF IInv, CountInv, Releasing, ConsumersInv, slot_full
<1>9. ArrayInv'
  BY <1>2 DEF IInv, ArrayInv, slot_full, InArray, SlotOf
<1>10. ProducersInv'
  BY <1>1, <1>2, <1>4, Constants
  DEF IInv, ProducersInv, HasSlot, slot_full, InArray, SlotOf
<1>11. LinesInv'
  <2>1. ASSUME NEW q \in Producers, HasLine(q)'
        PROVE  /\ line'[q] \in 1..next_line'-1
               /\ \A n \in 1..Len(put') : put'[n] # line'[q]
    <3>1. CASE q = p
      BY <1>1, <1>2, <1>4, <2>1, <3>1, Lengths DEF IInv, LinesInv, HasLine
    <3>2. CASE q # p
      BY <1>1, <1>2, <1>4, <2>1, <3>2, Constants, Lengths DEF IInv, LinesInv, HasLine
    <3> QED BY <3>1, <3>2
  <2>2. ASSUME NEW q \in Producers, NEW r \in Producers,
               HasLine(q)', HasLine(r)', line'[q] = line'[r]
        PROVE  q = r
    <3>1. \A u \in Producers \ {p} :
            HasLine(u)' => HasLine(u) /\ line'[u] = line[u] /\ line[u] < next_line
      BY <1>1, <1>4, Constants, Lengths DEF IInv, LinesInv, HasLine
    <3>2. HasLine(p)' => line'[p] = next_line
      BY <1>1, <1>4 DEF HasLine
    <3> QED BY <2>2, <3>1, <3>2, Lengths DEF IInv, LinesInv
  <2>3. \A n \in 1..Len(put') : put'[n] < next_line'
    <3> SUFFICES ASSUME NEW n \in 1..Len(put) PROVE put[n] < next_line'
      BY <1>2
    <3>1. put[n] \in Lines /\ put[n] < next_line
      BY Lengths, ElementOfSeq DEF IInv, LinesInv
    <3> QED BY <1>4, <3>1, Lengths DEF Lines
  <2> QED BY <2>1, <2>2, <2>3 DEF LinesInv
<1> QED BY <1>5, <1>6, <1>7, <1>8, <1>9, <1>10, <1>11 DEF IInv

(* sems[N] was not held: p holds it. *)
LEMMA WaitTurnPreserves ==
  ASSUME IInv, NEW p \in Producers, WaitTurn(p) PROVE IInv'
<1>1. /\ pc[p] = "wait" /\ pc'[p] = "claim"
      /\ \A u \in (Threads \cup {Main}) \ {p} : pc'[u] = pc[u]
      /\ pc' \in [Threads \cup {Main} -> Places \cup MainPlaces]
  BY Moves, Constants DEF IInv, WaitTurn, At, Places
<1>2. UNCHANGED <<full_info, next_line, shared_resource, curr_prod, curr_cons,
                  done_producing, line, curr_index, put, got>>
  BY DEF WaitTurn, ring, locals, history
<1>3. /\ sems' \in [0..N+2 -> Int] /\ sems[N] > 0 /\ sems'[N] = sems[N] - 1
      /\ \A r \in (0..N+2) \ {N} : sems'[r] = sems[r]
  BY Waited, Constants DEF IInv, WaitTurn
<1>4. PlacesInv'
  BY <1>1, Constants DEF IInv, PlacesInv
<1>5. TurnsInv'
  <2>1. /\ Claiming' = Claiming \cup {p} /\ Consuming' = Consuming
        /\ \A i \in Slots : Inside(i)' = Inside(i)
    BY <1>1, <1>2, Constants DEF Claiming, Consuming, Inside
  <2>2. Admits(N, Claiming)'
    BY <1>3, <2>1, Constants DEF IInv, TurnsInv, Admits
  <2>3. Admits(N+1, Consuming)' /\ \A i \in Slots : Admits(i, Inside(i))'
    BY <1>3, <2>1, Constants DEF IInv, TurnsInv, Admits
  <2> QED BY <2>2, <2>3 DEF TurnsInv
<1>6. CountInv' /\ sems'[N+2] >= 0
  <2>1. sems'[N+2] = sems[N+2] /\ Releasing' = Releasing
    BY <1>1, <1>3, Constants DEF Releasing
  <2> QED BY <1>2, <2>1, Lengths DEF IInv, CountInv
<1>7. ConsumersInv' /\ ArrayInv'
  BY <1>1, <1>2, Constants
  DEF IInv, ConsumersInv, ArrayInv, slot_full, InArray, SlotOf
<1>8. ProducersInv' /\ LinesInv'
  BY <1>1, <1>2, Constants
  DEF IInv, ProducersInv, LinesInv, HasSlot, HasLine, slot_full, InArray, SlotOf
<1>9. TypeOK'
  <2>1. SemsType'
    BY <1>2, <1>3, <1>5, <1>6, SemsTyped, Lengths
  <2> QED BY <1>1, <1>2, <2>1 DEF IInv, TypeOK, SemsType
<1> QED BY <1>4, <1>5, <1>6, <1>7, <1>8, <1>9 DEF IInv

LEMMA Tickets ==
  ASSUME IInv, NEW n \in InArray
  PROVE  /\ n \in Nat \ {0} /\ Len(got) < n /\ n <= Len(put) /\ n \in 1..Len(put)
         /\ SlotOf(n) \in Slots /\ put[n] \in Lines
<1>1. n \in Nat \ {0} /\ Len(got) < n /\ n <= Len(put) /\ n \in 1..Len(put)
  BY Lengths DEF InArray
<1>2. SlotOf(n) \in Slots
  BY <1>1, SlotRange DEF SlotOf
<1> QED BY <1>1, <1>2, ElementOfSeq, Lengths

(* A slot was counted free: the next one round the array is. *)
LEMMA ClaimPreserves ==
  ASSUME IInv, NEW p \in Producers, Claim(p) PROVE IInv'
<1> DEFINE m == Len(put) + 1
<1>1. /\ pc[p] = "claim" /\ pc'[p] = "guard"
      /\ \A u \in (Threads \cup {Main}) \ {p} : pc'[u] = pc[u]
      /\ pc' \in [Threads \cup {Main} -> Places \cup MainPlaces]
  BY Moves, Constants DEF IInv, Claim, At, Places
<1>2. UNCHANGED <<full_info, next_line, shared_resource, curr_cons,
                  done_producing, line, got>>
  BY DEF Claim
<1>3. /\ sems' \in [0..N+2 -> Int] /\ sems[N+2] > 0 /\ sems'[N+2] = sems[N+2] - 1
      /\ \A r \in (0..N+2) \ {N+2} : sems'[r] = sems[r]
  BY Waited, Constants DEF IInv, Claim
<1>4. line[p] \in Lines
  <2>1. /\ line[p] \in 1..next_line-1 /\ next_line \in 1..LINES+1
    BY <1>1 DEF IInv, LinesInv, HasLine, TypeOK
  <2> QED BY <2>1, Constants DEF Lines
<1>5. /\ put' \in Seq(Lines) /\ Len(put') = m /\ put'[m] = line[p]
      /\ \A n \in 1..Len(put) : put'[n] = put[n]
      /\ 1..Len(put') = 1..Len(put) \cup {m} /\ m \notin 1..Len(put)
      /\ m \in Nat
  BY <1>4, Lengths, AppendProperties DEF Claim
<1>6. InArray' = InArray \cup {m}
  BY <1>2, <1>5, Lengths DEF InArray
<1>7. SlotOf(m) \in Slots /\ SlotOf(m) = curr_prod
  BY Lengths, SlotRange DEF IInv, ConsumersInv, SlotOf
<1>8. /\ curr_index' \in [Threads -> Slots]
      /\ curr_index'[p] = SlotOf(m)
      /\ \A u \in Threads \ {p} : curr_index'[u] = curr_index[u]
  BY <1>7, Constants DEF Claim, IInv, TypeOK
<1>9. curr_prod' = Len(put') % N /\ curr_prod' \in Slots
  <2>1. Len(put) \in Nat /\ Len(put') = Len(put) + 1 /\ Len(put') \in Nat
    BY <1>5, Lengths
  <2>2. curr_prod' = after(Len(put) % N)
    BY DEF Claim, IInv, ConsumersInv
  <2>3. after(Len(put) % N) = Len(put') % N
    BY <2>1, AfterSlot
  <2> QED BY <2>1, <2>2, <2>3, SlotRange
<1>10. Len(put) - Len(got) < N
  <2>1. sems[N+2] + (Len(put) - Len(got)) + Releasing = N /\ N \in Nat
    BY ConstantsAssumption DEF IInv, CountInv
  <2> QED BY <1>3, <2>1, Lengths
<1>11. ASSUME NEW n \in InArray PROVE SlotOf(n) # SlotOf(m)
  <2>1. n \in Nat \ {0} /\ Len(got) < n /\ n <= Len(put)
    BY Tickets
  <2>2. n-1 \in Nat /\ m-1 \in Nat /\ n-1 < m-1 /\ (m-1) - (n-1) < N
    BY <1>10, <2>1, Lengths, Constants
  <2> QED BY <2>2, SlotsDiffer DEF SlotOf
<1>12. ~slot_full(SlotOf(m))
  BY <1>7, <1>11 DEF IInv, ArrayInv
<1>13. PlacesInv'
  BY <1>1, Constants DEF IInv, PlacesInv
<1>14. TurnsInv'
  <2>1. /\ Claiming' = Claiming /\ Consuming' = Consuming
        /\ \A i \in Slots : Inside(i)' = Inside(i)
    BY <1>1, <1>8, Constants DEF Claiming, Consuming, Inside
  <2> QED BY <1>3, <2>1, TurnsKept DEF IInv
<1>15. CountInv' /\ sems'[N+2] >= 0
  <2>1. Releasing' = Releasing
    BY <1>1, Constants DEF Releasing
  <2>2. sems[N+2] + (Len(put) - Len(got)) + Releasing = N
    BY DEF IInv, CountInv
  <2>3. /\ Len(got') <= Len(put')
        /\ sems'[N+2] + (Len(put') - Len(got')) + Releasing' = N
    <3>1. Len(put') = Len(put) + 1 /\ Len(got') = Len(got)
      BY <1>2, <1>5
    <3>2. /\ Len(put) \in Nat /\ Len(got) \in Nat /\ Len(got) <= Len(put)
          /\ sems[N+2] \in Nat /\ Releasing \in {0, 1}
      BY Lengths
    <3>3. Len(got') <= Len(put')
      BY <3>1, <3>2
    <3>4. sems'[N+2] + (Len(put') - Len(got')) + Releasing'
            = (sems[N+2] - 1) + ((Len(put) + 1) - Len(got)) + Releasing
      BY <1>3, <2>1, <3>1
    <3>5. @ = sems[N+2] + (Len(put) - Len(got)) + Releasing
      BY <3>2
    <3> QED BY <2>2, <3>3, <3>4, <3>5
  <2> QED BY <1>3, <2>3, Lengths DEF CountInv
<1>16. ConsumersInv'
  BY <1>1, <1>2, <1>8, <1>9, Constants DEF IInv, ConsumersInv, slot_full
<1>17. ArrayInv'
  <2>1. \A n \in 1..Len(got') : got'[n] = put'[n]
    BY <1>2, <1>5, Lengths DEF IInv, ArrayInv
  <2>2. ASSUME NEW n \in InArray' PROVE shared_resource'[SlotOf(n)] \in {NULL, put'[n]}
    <3>1. CASE n \in InArray
      BY <1>2, <1>5, <3>1, Tickets DEF IInv, ArrayInv
    <3>2. CASE n = m
      BY <1>2, <1>12, <3>2 DEF slot_full
    <3> QED BY <1>6, <3>1, <3>2
  <2>3. ASSUME NEW i \in Slots, slot_full(i)' PROVE \E n \in InArray' : i = SlotOf(n)
    BY <1>2, <1>6, <2>3 DEF IInv, ArrayInv, slot_full
  <2>4. \A n : SlotOf(n)' = SlotOf(n)
    BY DEF SlotOf
  <2> QED BY <2>1, <2>2, <2>3, <2>4 DEF ArrayInv
<1>18. ProducersInv'
  <2>1. \A n : SlotOf(n)' = SlotOf(n)
    BY DEF SlotOf
  <2>2. ASSUME NEW q \in Producers, q # p
        PROVE  /\ HasSlot(q)' = HasSlot(q)
               /\ curr_index'[q] = curr_index[q] /\ pc'[q] = pc[q]
    BY <1>1, <1>8, <2>2, Constants DEF HasSlot
  <2>3. ASSUME NEW q \in Producers, HasSlot(q)'
        PROVE  \E n \in InArray' : curr_index'[q] = SlotOf(n) /\ line'[q] = put'[n]
    <3>1. CASE q = p
      BY <1>2, <1>5, <1>6, <1>8, <3>1
    <3>2. CASE q # p
      BY <1>2, <1>5, <1>6, <2>2, <2>3, <3>2, Tickets DEF IInv, ProducersInv
    <3> QED BY <3>1, <3>2
  <2>4. ASSUME NEW q \in Producers, pc'[q] \in {"guard", "store"}
        PROVE  ~slot_full(curr_index[q])'
    BY <1>2, <1>8, <1>12, <2>2, <2>4 DEF IInv, ProducersInv, slot_full
  <2>5. ASSUME NEW q \in Producers, q # p, HasSlot(q)'
        PROVE  curr_index'[q] # curr_index'[p]
    BY <1>8, <1>11, <2>2, <2>5 DEF IInv, ProducersInv
  <2> QED BY <2>1, <2>2, <2>3, <2>4, <2>5 DEF ProducersInv, IInv
<1>19. LinesInv'
  <2>1. /\ HasLine(p) /\ ~HasLine(p)'
        /\ \A q \in Producers \ {p} : HasLine(q)' = HasLine(q)
    BY <1>1, Constants DEF HasLine
  <2>2. ASSUME NEW q \in Producers, HasLine(q)', NEW n \in 1..Len(put')
        PROVE  put'[n] # line'[q]
    BY <1>2, <1>5, <2>1, <2>2 DEF IInv, LinesInv
  <2>3. \A n \in 1..Len(put') : put'[n] < next_line'
    BY <1>2, <1>5, <2>1, Lengths DEF IInv, LinesInv
  <2> QED BY <1>2, <2>1, <2>2, <2>3 DEF IInv, LinesInv
<1>20. TypeOK'
  <2>1. SemsType'
    BY <1>2, <1>3, <1>5, <1>14, <1>15, SemsTyped, Lengths
  <2> QED BY <1>1, <1>2, <1>5, <1>8, <1>9, <2>1 DEF IInv, TypeOK, SemsType
<1> QED BY <1>13, <1>14, <1>15, <1>16, <1>17, <1>18, <1>19, <1>20 DEF IInv

(* p takes the semaphore of its slot and gives back its turn. *)
LEMMA GuardPreserves ==
  ASSUME IInv, NEW p \in Producers, Guard(p) PROVE IInv'
<1> DEFINE i == curr_index[p]
<1>1. /\ pc[p] = "guard" /\ pc'[p] = "store"
      /\ \A u \in (Threads \cup {Main}) \ {p} : pc'[u] = pc[u]
      /\ pc' \in [Threads \cup {Main} -> Places \cup MainPlaces]
  BY Moves, Constants DEF IInv, Guard, At, Places
<1>2. UNCHANGED <<full_info, next_line, shared_resource, curr_prod, curr_cons,
                  done_producing, line, curr_index, put, got>>
  BY DEF Guard, ring, locals, history
<1>3. i \in Slots /\ i \in 0..N+2 /\ i # N
  BY SlotSemaphore, ThreadKinds DEF IInv
<1>4. /\ sems' \in [0..N+2 -> Int]
      /\ sems[i] > 0 /\ sems'[i] = sems[i] - 1 /\ sems'[N] = sems[N] + 1
      /\ \A r \in (0..N+2) \ {i, N} : sems'[r] = sems[r]
  <2>1. sems \in [0..N+2 -> 0..N+1] /\ \A r \in 0..N+2 : sems[r] \in Int
    BY DEF IInv, TypeOK
  <2>2. sems' = [r \in 0..N+2 |-> sems[r] - (IF r \in {i} THEN 1 ELSE 0)
                                          + (IF r \in {N} THEN 1 ELSE 0)]
    BY <2>1 DEF Guard, SemsAfter, held
  <2>3. \A r \in 0..N+2 : sems'[r] = sems[r] - (IF r = i THEN 1 ELSE 0)
                                            + (IF r = N THEN 1 ELSE 0)
    BY <2>2
  <2>4. /\ sems'[i] = sems[i] - 1 /\ sems'[N] = sems[N] + 1
        /\ \A r \in (0..N+2) \ {i, N} : sems'[r] = sems[r]
    <3>1. i # N /\ i \in 0..N+2 /\ N \in 0..N+2
      BY <1>3, Constants
    <3>2. sems'[i] = sems[i] - 1
      BY <2>1, <2>3, <3>1
    <3>3. sems'[N] = sems[N] + 1
      BY <2>1, <2>3, <3>1
    <3>4. \A r \in (0..N+2) \ {i, N} : sems'[r] = sems[r]
      BY <2>1, <2>3
    <3> QED BY <3>2, <3>3, <3>4
  <2>5. \A r \in 0..N+2 : sems'[r] \in Int
    BY <2>1, <2>3
  <2> QED BY <2>2, <2>4, <2>5 DEF Guard
<1>5. PlacesInv'
  BY <1>1, Constants DEF IInv, PlacesInv
<1>6. TurnsInv'
  <2>1. /\ Claiming' = Claiming \ {p} /\ p \in Claiming /\ Consuming' = Consuming
        /\ Inside(i)' = Inside(i) \cup {p}
        /\ \A j \in Slots \ {i} : Inside(j)' = Inside(j)
    BY <1>1, <1>2, Constants DEF Claiming, Consuming, Inside
  <2>2. Admits(N, Claiming)'
    BY <1>4, <2>1 DEF IInv, TurnsInv, Admits
  <2>3. Admits(N+1, Consuming)'
    BY <1>3, <1>4, <2>1, Constants DEF IInv, TurnsInv, Admits
  <2>4. Inside(i) = {} /\ sems[i] = 1
    BY <1>3, <1>4 DEF IInv, TurnsInv, Admits
  <2>5. sems'[i] = 0 /\ Inside(i)' = {p}
    BY <1>4, <2>1, <2>4
  <2>6. ASSUME NEW j \in Slots PROVE Admits(j, Inside(j))'
    <3>1. CASE j = i
      BY <1>2, <2>5, <3>1, Constants DEF Admits
    <3>2. CASE j # i
      BY <1>4, <2>1, <3>2, Constants DEF IInv, TurnsInv, Admits
    <3> QED BY <3>1, <3>2
  <2> QED BY <2>2, <2>3, <2>6 DEF TurnsInv
<1>7. CountInv' /\ sems'[N+2] >= 0
  <2>1. sems'[N+2] = sems[N+2] /\ Releasing' = Releasing
    BY <1>1, <1>3, <1>4, Constants DEF Releasing
  <2> QED BY <1>2, <2>1, Lengths DEF IInv, CountInv
<1>8. ConsumersInv' /\ ArrayInv'
  BY <1>1, <1>2, Constants
  DEF IInv, ConsumersInv, ArrayInv, slot_full, InArray, SlotOf
<1>9. ProducersInv' /\ LinesInv'
  <2>1. \A q \in Producers :
          /\ HasSlot(q)' <=> HasSlot(q)
          /\ HasLine(q)' <=> HasLine(q)
          /\ pc'[q] \in {"guard", "store"} <=> pc[q] \in {"guard", "store"}
    BY <1>1, ThreadKinds DEF HasSlot, HasLine
  <2>2. \A n : slot_full(n)' <=> slot_full(n)
    BY <1>2 DEF slot_full
  <2>3. InArray' = InArray
    BY <1>2 DEF InArray
  <2>4. ProducersInv'
    BY <1>2, <2>1, <2>2, <2>3 DEF IInv, ProducersInv, SlotOf
  <2>5. LinesInv'
    BY <1>2, <2>1 DEF IInv, LinesInv
  <2> QED BY <2>4, <2>5
<1>10. TypeOK'
  <2>1. SemsType'
    BY <1>2, <1>4, <1>6, <1>7, SemsTyped, Lengths
  <2> QED BY <1>1, <1>2, <2>1 DEF IInv, TypeOK, SemsType
<1> QED BY <1>5, <1>6, <1>7, <1>8, <1>9, <1>10 DEF IInv

(* The line goes into the slot of its ticket; the other slots are those of *)
(* other tickets.                                                          *)
LEMMA StorePreserves ==
  ASSUME IInv, NEW p \in Producers, Store(p) PROVE IInv'
<1> DEFINE i == curr_index[p]
<1>1. /\ pc[p] = "store" /\ pc'[p] = "copy"
      /\ \A u \in (Threads \cup {Main}) \ {p} : pc'[u] = pc[u]
      /\ pc' \in [Threads \cup {Main} -> Places \cup MainPlaces]
  BY Moves, Constants DEF IInv, Store, At, Places
<1>2. UNCHANGED <<full_info, next_line, curr_prod, curr_cons, sems,
                  done_producing, line, curr_index, put, got>>
  BY DEF Store, locals, history
<1>3. PICK m \in InArray : i = SlotOf(m) /\ line[p] = put[m]
  BY <1>1 DEF IInv, ProducersInv, HasSlot
<1>4. i \in Slots /\ line[p] \in Lines /\ line[p] # NULL
  BY <1>3, Tickets DEF Lines, NULL
<1>5. /\ shared_resource' \in [Slots -> Lines \cup {NULL}]
      /\ shared_resource'[i] = line[p]
      /\ \A j \in Slots \ {i} : shared_resource'[j] = shared_resource[j]
  BY <1>4 DEF IInv, TypeOK, Store
<1>6. TypeOK'
  BY <1>1, <1>2, <1>5 DEF IInv, TypeOK
<1>7. PlacesInv'
  BY <1>1, Constants DEF IInv, PlacesInv
<1>8. TurnsInv'
  BY <1>1, <1>2, TurnsKept, Constants
  DEF IInv, Claiming, Consuming, Inside
<1>9. CountInv'
  BY <1>1, <1>2, Constants DEF IInv, CountInv, Releasing
<1>10. ConsumersInv'
  <2>1. ASSUME NEW k \in Consumers, pc[k] \in {"guard", "take"}
        PROVE  slot_full(curr_index[k])'
    <3>1. curr_index[k] \in Slots /\ slot_full(curr_index[k])
      BY <2>1, Constants DEF IInv, TypeOK, ConsumersInv
    <3> QED BY <1>2, <1>4, <1>5, <3>1 DEF slot_full
  <2>2. \A k \in Consumers : pc'[k] = pc[k]
    BY <1>1, Constants
  <2> QED BY <1>2, <2>1, <2>2 DEF IInv, ConsumersInv
<1>11. ArrayInv'
  <2>1. InArray' = InArray /\ \A n : SlotOf(n)' = SlotOf(n)
    BY <1>2 DEF InArray, SlotOf
  <2>2. ASSUME NEW n \in InArray PROVE shared_resource'[SlotOf(n)] \in {NULL, put[n]}
    <3>1. CASE n = m
      BY <1>3, <1>5, <3>1
    <3>2. CASE n # m
      <4>1. SlotOf(n) # i /\ SlotOf(n) \in Slots
        BY <1>3, <3>2, OneTicket, Tickets
      <4> QED BY <1>5, <4>1 DEF IInv, ArrayInv
    <3> QED BY <3>1, <3>2
  <2>3. ASSUME NEW j \in Slots, slot_full(j)' PROVE \E n \in InArray : j = SlotOf(n)
    BY <1>3, <1>5, <2>3 DEF IInv, ArrayInv, slot_full
  <2> QED BY <1>2, <2>1, <2>2, <2>3 DEF IInv, ArrayInv
<1>12. ProducersInv'
  <2>1. InArray' = InArray /\ \A n : SlotOf(n)' = SlotOf(n)
    BY <1>2 DEF InArray, SlotOf
  <2>2. /\ \A q \in Producers : HasSlot(q)' = HasSlot(q)
        /\ HasSlot(p)
    BY <1>1, Constants DEF HasSlot
  <2>3. ASSUME NEW q \in Producers, pc'[q] \in {"guard", "store"}
        PROVE  ~slot_full(curr_index[q])'
    <3>1. q # p /\ pc[q] = pc'[q] /\ HasSlot(q)
      BY <1>1, <2>3, Constants DEF HasSlot
    <3>2. curr_index[q] # i /\ curr_index[q] \in Slots
      BY <2>2, <3>1, Constants DEF IInv, ProducersInv, TypeOK
    <3>3. ~slot_full(curr_index[q])
      BY <2>3, <3>1 DEF IInv, ProducersInv
    <3> QED BY <1>2, <1>5, <3>2, <3>3 DEF slot_full
  <2> QED BY <1>2, <2>1, <2>2, <2>3 DEF IInv, ProducersInv
<1>13. LinesInv'
  BY <1>1, <1>2, Constants DEF IInv, LinesInv, HasLine
<1> QED BY <1>6, <1>7, <1>8, <1>9, <1>10, <1>11, <1>12, <1>13 DEF IInv

LEMMA PublishPreserves ==
  ASSUME IInv, NEW p \in Producers, Publish(p) PROVE IInv'
<1> DEFINE i == curr_index[p]
<1>1. /\ pc[p] = "copy" /\ pc'[p] = "fgets"
      /\ \A u \in (Threads \cup {Main}) \ {p} : pc'[u] = pc[u]
      /\ pc' \in [Threads \cup {Main} -> Places \cup MainPlaces]
  BY Moves, Constants DEF IInv, Publish, At, Places
<1>2. UNCHANGED <<full_info, next_line, shared_resource, curr_prod, curr_cons,
                  done_producing, line, curr_index, put, got>>
  BY DEF Publish, ring, locals, history
<1>3. i \in Slots /\ i \in 0..N+2
  BY SlotSemaphore, ThreadKinds DEF IInv
<1>4. /\ sems' \in [0..N+2 -> Int] /\ sems'[i] = sems[i] + 1
      /\ \A r \in (0..N+2) \ {i} : sems'[r] = sems[r]
  <2>1. /\ sems' \in [0..N+2 -> Int]
        /\ \A r \in 0..N+2 : sems'[r] = sems[r] + (IF r \in {i} THEN 1 ELSE 0)
    BY <1>3, Posted DEF IInv, Publish
  <2>2. \A r \in 0..N+2 : sems[r] \in Int
    BY DEF IInv, TypeOK
  <2> QED BY <1>3, <2>1, <2>2
<1>5. PlacesInv'
  BY <1>1, Constants DEF IInv, PlacesInv
<1>6. TurnsInv'
  <2>1. /\ Claiming' = Claiming /\ Consuming' = Consuming
        /\ Inside(i)' = Inside(i) \ {p} /\ p \in Inside(i)
        /\ \A j \in Slots \ {i} : Inside(j)' = Inside(j)
    BY <1>1, <1>2, Constants DEF Claiming, Consuming, Inside
  <2>2. sems[i] = 0 /\ Inside(i) = {p}
    BY <1>3, <2>1 DEF IInv, TurnsInv, Admits
  <2>3. sems'[i] = 1 /\ Inside(i)' = {}
    BY <1>4, <2>1, <2>2
  <2>4. ASSUME NEW j \in Slots PROVE Admits(j, Inside(j))'
    <3>1. CASE j = i
      BY <1>2, <2>3, <3>1 DEF Admits
    <3>2. CASE j # i
      BY <1>4, <2>1, <3>2, Constants DEF IInv, TurnsInv, Admits
    <3> QED BY <3>1, <3>2
  <2>5. Admits(N, Claiming)' /\ Admits(N+1, Consuming)'
    BY <1>3, <1>4, <2>1, Constants DEF IInv, TurnsInv, Admits
  <2> QED BY <2>4, <2>5 DEF TurnsInv
<1>7. CountInv' /\ sems'[N+2] >= 0
  <2>1. sems'[N+2] = sems[N+2] /\ Releasing' = Releasing
    BY <1>1, <1>3, <1>4, Constants DEF Releasing
  <2> QED BY <1>2, <2>1, Lengths DEF IInv, CountInv
<1>8. ConsumersInv' /\ ArrayInv'
  BY <1>1, <1>2, Constants
  DEF IInv, ConsumersInv, ArrayInv, slot_full, InArray, SlotOf
<1>9. ProducersInv' /\ LinesInv'
  BY <1>1, <1>2, Constants
  DEF IInv, ProducersInv, LinesInv, HasSlot, HasLine, slot_full, InArray, SlotOf
<1>10. TypeOK'
  <2>1. SemsType'
    BY <1>2, <1>4, <1>6, <1>7, SemsTyped, Lengths
  <2> QED BY <1>1, <1>2, <2>1 DEF IInv, TypeOK, SemsType
<1> QED BY <1>5, <1>6, <1>7, <1>8, <1>9, <1>10 DEF IInv

(* The producers' part of the invariant, when a consumer moves. *)
LEMMA ProducersKept ==
  ASSUME IInv, \A p \in Producers : pc'[p] = pc[p] /\ curr_index'[p] = curr_index[p]
                                     /\ line'[p] = line[p],
         UNCHANGED <<shared_resource, put, got, next_line>>
  PROVE  ArrayInv' /\ ProducersInv' /\ LinesInv'
BY DEF IInv, ArrayInv, ProducersInv, LinesInv, HasSlot, HasLine, slot_full,
       InArray, SlotOf

LEMMA WaitConsPreserves ==
  ASSUME IInv, NEW k \in Consumers, WaitCons(k) PROVE IInv'
<1>1. /\ pc[k] = "wait" /\ pc'[k] = "test"
      /\ \A u \in (Threads \cup {Main}) \ {k} : pc'[u] = pc[u]
      /\ pc' \in [Threads \cup {Main} -> Places \cup MainPlaces]
  BY Moves, Constants DEF IInv, WaitCons, At, Places
<1>2. UNCHANGED <<full_info, next_line, shared_resource, curr_prod, curr_cons,
                  done_producing, line, curr_index, put, got>>
  BY DEF WaitCons, ring, locals, history
<1>3. /\ sems' \in [0..N+2 -> Int] /\ sems[N+1] > 0 /\ sems'[N+1] = sems[N+1] - 1
      /\ \A r \in (0..N+2) \ {N+1} : sems'[r] = sems[r]
  BY Waited, Constants DEF IInv, WaitCons
<1>4. PlacesInv'
  BY <1>1, Constants DEF IInv, PlacesInv
<1>5. TurnsInv'
  <2>1. /\ Claiming' = Claiming /\ Consuming' = Consuming \cup {k}
        /\ \A i \in Slots : Inside(i)' = Inside(i)
    BY <1>1, <1>2, Constants DEF Claiming, Consuming, Inside
  <2>2. Admits(N+1, Consuming)'
    BY <1>3, <2>1, Constants DEF IInv, TurnsInv, Admits
  <2>3. Admits(N, Claiming)' /\ \A i \in Slots : Admits(i, Inside(i))'
    BY <1>3, <2>1, Constants DEF IInv, TurnsInv, Admits
  <2> QED BY <2>2, <2>3 DEF TurnsInv
<1>6. CountInv' /\ sems'[N+2] >= 0
  <2>1. sems'[N+2] = sems[N+2] /\ Releasing' = Releasing
    BY <1>1, <1>3, Constants DEF Releasing
  <2> QED BY <1>2, <2>1, Lengths DEF IInv, CountInv
<1>7. ConsumersInv'
  BY <1>1, <1>2, Constants DEF IInv, ConsumersInv, slot_full
<1>8. ArrayInv' /\ ProducersInv' /\ LinesInv'
  BY <1>1, <1>2, ProducersKept, Constants
<1>9. TypeOK'
  <2>1. SemsType'
    BY <1>2, <1>3, <1>5, <1>6, SemsTyped, Lengths
  <2> QED BY <1>1, <1>2, <2>1 DEF IInv, TypeOK, SemsType
<1> QED BY <1>4, <1>5, <1>6, <1>7, <1>8, <1>9 DEF IInv

(* The consumer whose turn it is is the only one past "wait". *)
LEMMA Alone ==
  ASSUME IInv, NEW k \in Consuming
  PROVE  Consuming = {k} /\ sems[N+1] = 0
BY DEF IInv, TurnsInv, Admits

LEMMA ConsTestPreserves ==
  ASSUME IInv, NEW k \in Consumers, ConsTest(k) PROVE IInv'
<1>1. /\ pc[k] = "test" /\ pc'[k] \in {"ask", "guard"}
      /\ \A u \in (Threads \cup {Main}) \ {k} : pc'[u] = pc[u]
      /\ pc' \in [Threads \cup {Main} -> Places \cup MainPlaces]
  BY Moves, Constants DEF IInv, ConsTest, At, Places
<1>2. UNCHANGED <<full_info, next_line, shared_resource, curr_prod,
                  done_producing, line, put, got>>
  BY DEF ConsTest, history
<1>3. /\ k \in Consuming /\ Consuming = {k} /\ sems[N+1] = 0
      /\ \A j \in Consumers \ {k} :
           pc[j] \notin {"test", "guard", "take", "release"}
  BY <1>1, Alone DEF Consuming
<1>4. curr_cons = Len(got) % N /\ curr_cons \in Slots
  BY <1>1, <1>3 DEF IInv, ConsumersInv, TypeOK
<1>5. PlacesInv'
  BY <1>1, Constants DEF IInv, PlacesInv
<1>6. CountInv'  /\ sems'[N+2] = sems[N+2] /\ Releasing' = Releasing
  <2>1. Releasing' = Releasing
    BY <1>1, Constants DEF Releasing
  <2>2. sems'[N+2] = sems[N+2]
    <3>1. CASE UNCHANGED sems
      BY <3>1
    <3>2. CASE sems' = SemsAfter({}, {N+1})
      <4>1. {N+1} \in SUBSET (0..N+2) /\ N+2 \notin {N+1} /\ N+2 \in 0..N+2
        BY Constants
      <4>2. sems'[N+2] = sems[N+2] + 0
        BY <3>2, <4>1, Posted DEF IInv
      <4> QED BY <4>2, Lengths
    <3> QED BY <3>1, <3>2 DEF ConsTest, given_back
  <2> QED BY <1>2, <2>1, <2>2, Lengths DEF IInv, CountInv
<1>7. CASE ~slot_full(curr_cons)
  <2>1. /\ pc'[k] = "ask" /\ sems' = SemsAfter({}, {N+1})
        /\ UNCHANGED <<curr_index, curr_cons>>
    BY <1>7, Moves, Constants DEF ConsTest, IInv, given_back
  <2>2. /\ sems' \in [0..N+2 -> Int] /\ sems'[N+1] = 1
        /\ \A r \in (0..N+2) \ {N+1} : sems'[r] = sems[r]
    <3>1. /\ sems' \in [0..N+2 -> Int]
          /\ \A r \in 0..N+2 : sems'[r] = sems[r] + (IF r \in {N+1} THEN 1 ELSE 0)
      <4>1. {N+1} \in SUBSET (0..N+2)
        BY Constants
      <4> QED BY <2>1, <4>1, Posted DEF IInv
    <3>2. \A r \in 0..N+2 : sems[r] \in Int
      BY DEF IInv, TypeOK
    <3> QED BY <1>3, <3>1, <3>2, Constants
  <2>3. TurnsInv'
    <3>1. /\ Claiming' = Claiming /\ Consuming' = {}
          /\ \A i \in Slots : Inside(i)' = Inside(i)
      BY <1>1, <1>3, <2>1, Constants DEF Claiming, Consuming, Inside
    <3>2. Admits(N+1, Consuming)'
      BY <2>2, <3>1 DEF Admits
    <3>3. Admits(N, Claiming)' /\ \A i \in Slots : Admits(i, Inside(i))'
      BY <2>2, <3>1, Constants DEF IInv, TurnsInv, Admits
    <3> QED BY <3>2, <3>3 DEF TurnsInv
  <2>4. ConsumersInv'
    BY <1>1, <1>2, <2>1, Constants DEF IInv, ConsumersInv, slot_full
  <2>5. ArrayInv' /\ ProducersInv' /\ LinesInv'
    BY <1>1, <1>2, <2>1, ProducersKept, Constants
  <2>6. SemsType'
    BY <1>2, <1>6, <2>2, <2>3, SemsTyped, Lengths
  <2>7. TypeOK'
    BY <1>1, <1>2, <2>1, <2>6 DEF IInv, TypeOK, SemsType
  <2> QED BY <1>5, <1>6, <2>3, <2>4, <2>5, <2>7 DEF IInv
<1>8. CASE slot_full(curr_cons)
  <2>1. /\ pc'[k] = "guard" /\ UNCHANGED sems
        /\ curr_index' = [curr_index EXCEPT ![k] = curr_cons]
        /\ curr_cons' = after(curr_cons)
    BY <1>8, Moves, Constants DEF ConsTest, IInv
  <2>2. /\ curr_index' \in [Threads -> Slots] /\ curr_index'[k] = Len(got) % N
        /\ \A u \in Threads \ {k} : curr_index'[u] = curr_index[u]
    BY <1>4, <2>1, Constants DEF IInv, TypeOK
  <2>3. curr_cons' = (Len(got) + 1) % N /\ curr_cons' \in Slots
    BY <1>4, <2>1, AfterSlot, SlotRange, Lengths
  <2>4. TurnsInv'
    <3>1. /\ Claiming' = Claiming /\ Consuming' = Consuming
          /\ \A i \in Slots : Inside(i)' = Inside(i)
      BY <1>1, <2>1, <2>2, Constants DEF Claiming, Consuming, Inside
    <3> QED BY <2>1, <3>1, TurnsKept DEF IInv
  <2>5. ConsumersInv'
    <3>1. \A j \in Consumers \ {k} : pc'[j] \notin {"guard", "take"}
      BY <1>1, <1>3, Constants
    <3>2. slot_full(curr_index[k])'
      BY <1>2, <1>4, <1>8, <2>2 DEF slot_full
    <3> QED BY <1>1, <1>2, <2>1, <2>2, <2>3, <3>1, <3>2 DEF IInv, ConsumersInv
  <2>6. ArrayInv' /\ ProducersInv' /\ LinesInv'
    BY <1>1, <1>2, <2>2, ProducersKept, Constants
  <2>7. TypeOK'
    BY <1>1, <1>2, <2>1, <2>2, <2>3 DEF IInv, TypeOK
  <2> QED BY <1>5, <1>6, <2>4, <2>5, <2>6, <2>7 DEF IInv
<1> QED BY <1>7, <1>8

LEMMA AskDonePreserves ==
  ASSUME IInv, NEW k \in Consumers, AskDone(k) PROVE IInv'
<1>1. /\ pc[k] = "ask" /\ pc'[k] \in {"finished", "wait"}
      /\ \A u \in (Threads \cup {Main}) \ {k} : pc'[u] = pc[u]
      /\ pc' \in [Threads \cup {Main} -> Places \cup MainPlaces]
  BY Moves, Constants DEF IInv, AskDone, At, Places
<1>2. UNCHANGED <<full_info, next_line, shared_resource, curr_prod, curr_cons,
                  sems, done_producing, line, curr_index, put, got>>
  BY DEF AskDone, ring, locals, history
<1>3. TypeOK'
  BY <1>1, <1>2 DEF IInv, TypeOK
<1>4. PlacesInv'
  BY <1>1, Constants DEF IInv, PlacesInv
<1>5. TurnsInv'
  BY <1>1, <1>2, TurnsKept, Constants DEF IInv, Claiming, Consuming, Inside
<1>6. CountInv'
  BY <1>1, <1>2, Constants DEF IInv, CountInv, Releasing
<1>7. ConsumersInv'
  BY <1>1, <1>2, Constants DEF IInv, ConsumersInv, slot_full
<1>8. ArrayInv' /\ ProducersInv' /\ LinesInv'
  BY <1>1, <1>2, ProducersKept, Constants
<1> QED BY <1>3, <1>4, <1>5, <1>6, <1>7, <1>8 DEF IInv

LEMMA GuardConsPreserves ==
  ASSUME IInv, NEW k \in Consumers, GuardCons(k) PROVE IInv'
<1> DEFINE i == curr_index[k]
<1>1. /\ pc[k] = "guard" /\ pc'[k] = "take"
      /\ \A u \in (Threads \cup {Main}) \ {k} : pc'[u] = pc[u]
      /\ pc' \in [Threads \cup {Main} -> Places \cup MainPlaces]
  BY Moves, Constants DEF IInv, GuardCons, At, Places
<1>2. UNCHANGED <<full_info, next_line, shared_resource, curr_prod, curr_cons,
                  done_producing, line, curr_index, put, got>>
  BY DEF GuardCons, ring, locals, history
<1>3. i \in Slots /\ i \in 0..N+2
  BY SlotSemaphore, ThreadKinds DEF IInv
<1>4. /\ sems' \in [0..N+2 -> Int] /\ sems[i] > 0 /\ sems'[i] = sems[i] - 1
      /\ \A r \in (0..N+2) \ {i} : sems'[r] = sems[r]
  BY <1>3, Waited DEF IInv, GuardCons
<1>5. PlacesInv'
  BY <1>1, Constants DEF IInv, PlacesInv
<1>6. TurnsInv'
  <2>1. /\ Claiming' = Claiming /\ Consuming' = Consuming
        /\ Inside(i)' = Inside(i) \cup {k}
        /\ \A j \in Slots \ {i} : Inside(j)' = Inside(j)
    BY <1>1, <1>2, Constants DEF Claiming, Consuming, Inside
  <2>2. Inside(i) = {} /\ sems[i] = 1
    BY <1>3, <1>4 DEF IInv, TurnsInv, Admits
  <2>3. sems'[i] = 0 /\ Inside(i)' = {k}
    BY <1>4, <2>1, <2>2
  <2>4. ASSUME NEW j \in Slots PROVE Admits(j, Inside(j))'
    <3>1. CASE j = i
      BY <1>2, <2>3, <3>1, Constants DEF Admits
    <3>2. CASE j # i
      BY <1>4, <2>1, <3>2, Constants DEF IInv, TurnsInv, Admits
    <3> QED BY <3>1, <3>2
  <2>5. Admits(N, Claiming)' /\ Admits(N+1, Consuming)'
    BY <1>3, <1>4, <2>1, Constants DEF IInv, TurnsInv, Admits
  <2> QED BY <2>4, <2>5 DEF TurnsInv
<1>7. CountInv' /\ sems'[N+2] >= 0
  <2>1. sems'[N+2] = sems[N+2] /\ Releasing' = Releasing
    BY <1>1, <1>3, <1>4, Constants DEF Releasing
  <2> QED BY <1>2, <2>1, Lengths DEF IInv, CountInv
<1>8. ConsumersInv'
  BY <1>1, <1>2, Constants DEF IInv, ConsumersInv, slot_full
<1>9. ArrayInv' /\ ProducersInv' /\ LinesInv'
  BY <1>1, <1>2, ProducersKept, Constants
<1>10. TypeOK'
  <2>1. SemsType'
    BY <1>2, <1>4, <1>6, <1>7, SemsTyped, Lengths
  <2> QED BY <1>1, <1>2, <2>1 DEF IInv, TypeOK, SemsType
<1> QED BY <1>5, <1>6, <1>7, <1>8, <1>9, <1>10 DEF IInv

(* The oldest line is taken out; no producer works on its slot any more. *)
LEMMA TakePreserves ==
  ASSUME IInv, NEW k \in Consumers, Take(k)
  PROVE  /\ IInv'
         /\ Len(got) + 1 \in InArray
         /\ got' = Append(got, put[Len(got) + 1]) /\ put' = put
<1> DEFINE i == curr_index[k]  m == Len(got) + 1
<1>1. /\ pc[k] = "take" /\ pc'[k] = "release"
      /\ \A u \in (Threads \cup {Main}) \ {k} : pc'[u] = pc[u]
      /\ pc' \in [Threads \cup {Main} -> Places \cup MainPlaces]
  BY Moves, Constants DEF IInv, Take, At, Places
<1>2. UNCHANGED <<full_info, next_line, curr_prod, curr_cons, sems,
                  done_producing, curr_index, put>>
  BY DEF Take
<1>3. /\ k \in Consuming /\ Consuming = {k}
      /\ \A j \in Consumers \ {k} :
           pc[j] \notin {"test", "guard", "take", "release"}
  BY <1>1, Alone DEF Consuming
<1>4. /\ i = Len(got) % N /\ curr_cons = (Len(got) + 1) % N
      /\ i \in Slots /\ slot_full(i)
  BY <1>1, Constants DEF IInv, ConsumersInv, TypeOK
<1>5. m \in InArray /\ SlotOf(m) = i /\ shared_resource[i] = put[m]
  <2>1. PICK n \in InArray : i = SlotOf(n)
    BY <1>4 DEF IInv, ArrayInv
  <2>2. n \in Nat \ {0} /\ Len(got) < n /\ n <= Len(put)
    BY <2>1, Tickets
  <2>3. m \in InArray
    BY <2>2, Lengths DEF InArray
  <2>4. SlotOf(m) = i
    BY <1>4, Lengths DEF SlotOf
  <2> QED BY <1>4, <2>3, <2>4 DEF IInv, ArrayInv, slot_full
<1>6. /\ got' = Append(got, put[m]) /\ put[m] \in Lines /\ put[m] # NULL
  <2>1. put[m] \in Lines
    BY <1>5, Tickets
  <2> QED BY <1>4, <1>5, <2>1 DEF Take, slot_full
<1>7. /\ got' \in Seq(Lines) /\ Len(got') = m /\ got'[m] = put[m]
      /\ \A n \in 1..Len(got) : got'[n] = got[n]
      /\ 1..Len(got') = 1..Len(got) \cup {m} /\ m <= Len(put)
  BY <1>5, <1>6, Lengths, AppendProperties, Tickets
<1>8. InArray' = InArray \ {m}
  BY <1>2, <1>7, Lengths DEF InArray
<1>9. /\ shared_resource' \in [Slots -> Lines \cup {NULL}]
      /\ shared_resource'[i] = NULL
      /\ \A j \in Slots \ {i} : shared_resource'[j] = shared_resource[j]
  BY <1>4 DEF IInv, TypeOK, Take
<1>10. /\ line' \in [Threads -> Lines \cup {NULL}]
       /\ \A u \in Threads \ {k} : line'[u] = line[u]
  BY <1>4, Constants DEF IInv, TypeOK, Take
<1>11. ASSUME NEW p \in Producers, HasSlot(p)
       PROVE  curr_index[p] # i
  <2> SUFFICES ASSUME curr_index[p] = i PROVE FALSE
    OBVIOUS
  <2>1. pc[p] = "copy"
    BY <1>4, <1>11 DEF IInv, ProducersInv, HasSlot
  <2>2. p \in Inside(i) /\ k \in Inside(i) /\ p # k
    BY <1>1, <2>1, Constants DEF Inside
  <2> QED BY <1>4, <2>2 DEF IInv, TurnsInv, Admits
<1>12. TypeOK'
  BY <1>1, <1>2, <1>7, <1>9, <1>10 DEF IInv, TypeOK
<1>13. PlacesInv'
  BY <1>1, Constants DEF IInv, PlacesInv
<1>14. TurnsInv'
  BY <1>1, <1>2, TurnsKept, Constants DEF IInv, Claiming, Consuming, Inside
<1>15. CountInv'
  <2>1. Releasing = 0 /\ Releasing' = 1
    BY <1>1, <1>3 DEF Releasing
  <2>2. sems[N+2] + (Len(put) - Len(got)) + 0 = N
    BY <2>1 DEF IInv, CountInv
  <2>3. Len(put') = Len(put) /\ Len(got') = Len(got) + 1 /\ Len(got') <= Len(put)
    BY <1>2, <1>7
  <2>4. sems'[N+2] + (Len(put') - Len(got')) + Releasing'
          = sems[N+2] + (Len(put) - (Len(got) + 1)) + 1
    BY <1>2, <2>1, <2>3
  <2>5. @ = sems[N+2] + (Len(put) - Len(got)) + 0
    BY Lengths
  <2> QED BY <2>2, <2>3, <2>4, <2>5 DEF CountInv
<1>16. ConsumersInv'
  <2>1. \A j \in Consumers : pc'[j] \notin {"guard", "take"}
    BY <1>1, <1>3, Constants
  <2>2. curr_cons' = Len(got') % N /\ curr_prod' = Len(put') % N
    BY <1>2, <1>4, <1>7 DEF IInv, ConsumersInv
  <2> QED BY <2>1, <2>2 DEF ConsumersInv
<1>17. ArrayInv'
  <2>1. \A n \in 1..Len(got') : got'[n] = put'[n]
    BY <1>2, <1>7 DEF IInv, ArrayInv
  <2>2. ASSUME NEW n \in InArray'
        PROVE  shared_resource'[SlotOf(n)] \in {NULL, put'[n]}
    <3>1. n \in InArray /\ n # m
      BY <1>8
    <3>2. SlotOf(n) \in Slots /\ SlotOf(n) # i
      BY <1>5, <3>1, OneTicket, Tickets
    <3> QED BY <1>2, <1>9, <3>1, <3>2 DEF IInv, ArrayInv
  <2>3. ASSUME NEW j \in Slots, slot_full(j)'
        PROVE  \E n \in InArray' : j = SlotOf(n)
    <3>1. j # i /\ slot_full(j)
      BY <1>9, <2>3 DEF slot_full
    <3>2. PICK n \in InArray : j = SlotOf(n)
      BY <3>1 DEF IInv, ArrayInv
    <3> QED BY <1>5, <1>8, <3>1, <3>2
  <2>4. \A n : SlotOf(n)' = SlotOf(n)
    BY DEF SlotOf
  <2> QED BY <2>1, <2>2, <2>3, <2>4 DEF ArrayInv
<1>18. ProducersInv'
  <2>1. /\ \A p \in Producers : /\ pc'[p] = pc[p] /\ curr_index'[p] = curr_index[p]
                                /\ line'[p] = line[p] /\ HasSlot(p)' = HasSlot(p)
                                /\ curr_index[p] \in Slots
        /\ \A n : SlotOf(n)' = SlotOf(n)
    BY <1>1, <1>2, <1>10, Constants DEF HasSlot, SlotOf, IInv, TypeOK
  <2>2. ASSUME NEW p \in Producers, HasSlot(p)
        PROVE  \E n \in InArray' : curr_index[p] = SlotOf(n) /\ line[p] = put[n]
    <3>1. PICK n \in InArray : curr_index[p] = SlotOf(n) /\ line[p] = put[n]
      BY <2>2 DEF IInv, ProducersInv
    <3>2. n # m
      BY <1>5, <1>11, <2>2, <3>1
    <3> QED BY <1>8, <3>1, <3>2
  <2>3. ASSUME NEW p \in Producers, pc[p] \in {"guard", "store"}
        PROVE  ~slot_full(curr_index[p])'
    <3>1. curr_index[p] # i /\ ~slot_full(curr_index[p])
      BY <1>11, <2>3 DEF HasSlot, IInv, ProducersInv
    <3> QED BY <1>2, <1>9, <2>1, <3>1 DEF slot_full
  <2> QED BY <1>2, <2>1, <2>2, <2>3 DEF IInv, ProducersInv
<1>19. LinesInv'
  BY <1>1, <1>2, <1>10, Constants DEF IInv, LinesInv, HasLine
<1> QED
  BY <1>2, <1>5, <1>6, <1>12, <1>13, <1>14, <1>15, <1>16, <1>17, <1>18, <1>19
  DEF IInv

(* The three semaphores posted are not held by anybody else. *)
LEMMA ReleasePreserves ==
  ASSUME IInv, NEW k \in Consumers, Release(k) PROVE IInv'
<1> DEFINE i == curr_index[k]
<1>1. /\ pc[k] = "release" /\ pc'[k] = "wait"
      /\ \A u \in (Threads \cup {Main}) \ {k} : pc'[u] = pc[u]
      /\ pc' \in [Threads \cup {Main} -> Places \cup MainPlaces]
  BY Moves, Constants DEF IInv, Release, At, Places
<1>2. UNCHANGED <<full_info, next_line, shared_resource, curr_prod, curr_cons,
                  done_producing, curr_index, put, got>>
  BY DEF Release, ring, history
<1>3. /\ k \in Consuming /\ Consuming = {k} /\ sems[N+1] = 0
      /\ \A j \in Consumers \ {k} :
           pc[j] \notin {"test", "guard", "take", "release"}
  BY <1>1, Alone DEF Consuming
<1>4. i \in Slots /\ i \in 0..N+2 /\ i # N /\ i # N+1 /\ i # N+2
  BY SlotSemaphore, ThreadKinds DEF IInv
<1>5. /\ sems' \in [0..N+2 -> Int]
      /\ sems'[i] = sems[i] + 1 /\ sems'[N+1] = 1 /\ sems'[N+2] = sems[N+2] + 1
      /\ \A r \in (0..N+2) \ {i, N+1, N+2} : sems'[r] = sems[r]
  <2>1. posted(i) \in SUBSET (0..N+2) /\ posted(i) = {N+2, N+1, i}
    BY <1>4, Constants DEF posted
  <2>2. /\ sems' \in [0..N+2 -> Int]
        /\ \A r \in 0..N+2 :
             sems'[r] = sems[r] + (IF r \in {N+2, N+1, i} THEN 1 ELSE 0)
    BY <2>1, Posted DEF IInv, Release
  <2>3. \A r \in 0..N+2 : sems[r] \in Int
    BY DEF IInv, TypeOK
  <2>4. sems'[i] = sems[i] + 1
    BY <1>4, <2>2
  <2>5. sems'[N+1] = 0 + 1
    BY <1>3, <2>2, Constants
  <2>6. sems'[N+2] = sems[N+2] + 1
    BY <2>2, Constants
  <2>7. \A r \in (0..N+2) \ {i, N+1, N+2} : sems'[r] = sems[r]
    BY <2>2, <2>3
  <2> QED BY <2>2, <2>4, <2>5, <2>6, <2>7
<1>6. /\ line' \in [Threads -> Lines \cup {NULL}]
      /\ \A u \in Threads \ {k} : line'[u] = line[u]
  BY Constants DEF IInv, TypeOK, Release
<1>7. PlacesInv'
  BY <1>1, Constants DEF IInv, PlacesInv
<1>8. TurnsInv'
  <2>1. /\ Claiming' = Claiming /\ Consuming' = {}
        /\ Inside(i)' = Inside(i) \ {k} /\ k \in Inside(i)
        /\ \A j \in Slots \ {i} : Inside(j)' = Inside(j)
    BY <1>1, <1>2, <1>3, Constants DEF Claiming, Consuming, Inside
  <2>2. sems[i] = 0 /\ Inside(i) = {k}
    BY <1>4, <2>1 DEF IInv, TurnsInv, Admits
  <2>3. sems'[i] = 1 /\ Inside(i)' = {}
    BY <1>5, <2>1, <2>2
  <2>4. ASSUME NEW j \in Slots PROVE Admits(j, Inside(j))'
    <3>1. CASE j = i
      BY <1>2, <2>3, <3>1 DEF Admits
    <3>2. CASE j # i
      BY <1>5, <2>1, <3>2, Constants DEF IInv, TurnsInv, Admits
    <3> QED BY <3>1, <3>2
  <2>5. Admits(N, Claiming)'
    BY <1>4, <1>5, <2>1, Constants DEF IInv, TurnsInv, Admits
  <2>6. Admits(N+1, Consuming)'
    BY <1>5, <2>1 DEF Admits
  <2> QED BY <2>4, <2>5, <2>6 DEF TurnsInv
<1>9. CountInv' /\ sems'[N+2] >= 0
  <2>1. Releasing = 1 /\ Releasing' = 0
    BY <1>1, <1>3, Constants DEF Releasing
  <2>2. sems[N+2] + (Len(put) - Len(got)) + 1 = N
    BY <2>1 DEF IInv, CountInv
  <2>3. sems'[N+2] + (Len(put') - Len(got')) + Releasing'
          = (sems[N+2] + 1) + (Len(put) - Len(got)) + 0
    BY <1>2, <1>5, <2>1
  <2>4. @ = sems[N+2] + (Len(put) - Len(got)) + 1
    BY Lengths
  <2> QED BY <1>2, <1>5, <2>2, <2>3, <2>4, Lengths DEF CountInv
<1>10. ConsumersInv'
  <2>1. \A j \in Consumers : pc'[j] \notin {"guard", "take"}
    BY <1>1, <1>3, Constants
  <2>2. \A j \in Consumers : pc[j] \notin {"guard", "take"}
    BY <1>1, <1>3
  <2> QED BY <1>2, <2>1, <2>2 DEF IInv, ConsumersInv
<1>11. ArrayInv' /\ ProducersInv' /\ LinesInv'
  BY <1>1, <1>2, <1>6, ProducersKept, Constants
<1>12. TypeOK'
  <2>1. SemsType'
    BY <1>2, <1>5, <1>8, <1>9, SemsTyped, Lengths
  <2> QED BY <1>1, <1>2, <1>6, <2>1 DEF IInv, TypeOK, SemsType
<1> QED BY <1>7, <1>8, <1>9, <1>10, <1>11, <1>12 DEF IInv

(* main and the signal touch nothing the threads rely on; the array is     *)
(* emptied when no thread is left.                                         *)
LEMMA MainPreserves ==
  ASSUME IInv, wait_threads \/ clean_up \/ sig_handler PROVE IInv'
<1>1. /\ pc' \in [Threads \cup {Main} -> Places \cup MainPlaces]
      /\ \A u \in Threads : pc'[u] = pc[u]
      /\ \/ pc'[Main] \in {"killed", "exited"}
         \/ /\ pc'[Main] = "join_consumers"
            /\ \A p \in Producers : pc[p] = "finished"
         \/ /\ pc'[Main] = "clean_up" /\ pc[Main] = "join_consumers"
            /\ \A k \in Consumers : pc[k] = "finished"
  <2>1. CASE JoinProducers
    BY <2>1, Moves, Constants DEF IInv, JoinProducers, At, MainPlaces
  <2>2. CASE JoinConsumers
    BY <2>2, Moves, Constants DEF IInv, JoinConsumers, At, MainPlaces
  <2>3. CASE clean_up
    BY <2>3, Moves, Constants DEF IInv, clean_up, At, MainPlaces
  <2>4. CASE sig_handler
    BY <2>4, Moves, Constants DEF IInv, sig_handler, At, MainPlaces
  <2> QED BY <2>1, <2>2, <2>3, <2>4 DEF wait_threads
<1>2. /\ UNCHANGED <<full_info, next_line, curr_prod, curr_cons, sems,
                     line, curr_index, put, got>>
      /\ done_producing' \in BOOLEAN
      /\ \/ UNCHANGED shared_resource
         \/ /\ \A t \in Threads : pc[t] = "finished"
            /\ shared_resource' = [i \in Slots |-> NULL]
  BY DEF IInv, TypeOK, PlacesInv, wait_threads, JoinProducers, JoinConsumers,
         clean_up, sig_handler, ring, locals, history, At
<1>3. TypeOK'
  BY <1>1, <1>2 DEF IInv, TypeOK
<1>4. PlacesInv'
  BY <1>1, Constants DEF IInv, PlacesInv, MainPlaces, Threads
<1>5. TurnsInv'
  BY <1>1, <1>2, TurnsKept, Constants DEF IInv, Claiming, Consuming, Inside
<1>6. CountInv'
  BY <1>1, <1>2, Constants DEF IInv, CountInv, Releasing
<1>7. CASE UNCHANGED shared_resource
  <2>1. ConsumersInv'
    BY <1>1, <1>2, <1>7, Constants DEF IInv, ConsumersInv, slot_full
  <2>2. ArrayInv' /\ ProducersInv' /\ LinesInv'
    BY <1>1, <1>2, <1>7, ProducersKept, Constants
  <2> QED BY <1>3, <1>4, <1>5, <1>6, <2>1, <2>2 DEF IInv
<1>8. CASE /\ \A t \in Threads : pc[t] = "finished"
           /\ shared_resource' = [i \in Slots |-> NULL]
  <2>1. ConsumersInv' /\ ProducersInv'
    BY <1>1, <1>2, <1>8, Constants
    DEF IInv, ConsumersInv, ProducersInv, HasSlot
  <2>2. LinesInv'
    BY <1>1, <1>2, <1>8, Constants DEF IInv, LinesInv, HasLine
  <2>3. \A i \in Slots : shared_resource'[i] = NULL
    BY <1>8
  <2>4. InArray' = InArray /\ \A n : SlotOf(n)' = SlotOf(n)
    BY <1>2 DEF InArray, SlotOf
  <2>5. ArrayInv'
    BY <1>2, <2>3, <2>4, Tickets DEF IInv, ArrayInv, slot_full
  <2> QED BY <1>3, <1>4, <1>5, <1>6, <2>1, <2>2, <2>5 DEF IInv
<1> QED BY <1>2, <1>7, <1>8

LEMMA NextPreserves == IInv /\ [Next]_vars => IInv'
<1> SUFFICES ASSUME IInv, [Next]_vars PROVE IInv'
  OBVIOUS
<1>1. ASSUME NEW p \in Producers, produce(p) PROVE IInv'
  BY <1>1, FgetsPreserves, WaitTurnPreserves, ClaimPreserves, GuardPreserves,
     StorePreserves, PublishPreserves DEF produce
<1>2. ASSUME NEW k \in Consumers, consume(k) PROVE IInv'
  BY <1>2, WaitConsPreserves, ConsTestPreserves, AskDonePreserves,
     GuardConsPreserves, TakePreserves, ReleasePreserves DEF consume
<1>3. CASE wait_threads \/ clean_up \/ sig_handler
  BY <1>3, MainPreserves
<1>4. CASE UNCHANGED vars
  <2>1. UNCHANGED <<full_info, next_line, shared_resource, curr_prod, curr_cons,
                    sems, done_producing, pc, line, curr_index, put, got>>
    BY <1>4 DEF vars, ring, locals, history
  <2>2. TypeOK' /\ PlacesInv' /\ CountInv' /\ ConsumersInv'
    BY <2>1 DEF IInv, TypeOK, PlacesInv, CountInv, Releasing, ConsumersInv, slot_full
  <2>3. TurnsInv'
    BY <2>1, TurnsKept DEF IInv, Claiming, Consuming, Inside
  <2>4. ArrayInv' /\ ProducersInv' /\ LinesInv'
    BY <2>1, ProducersKept
  <2> QED BY <2>2, <2>3, <2>4 DEF IInv
<1> QED BY <1>1, <1>2, <1>3, <1>4 DEF Next

-------------------------------------------------------------------------------
(* The theorems *)

THEOREM Invariance == Spec => []IInv
BY InitEstablishes, NextPreserves, PTL DEF Spec

(* Types: with any number of threads the indices stay inside the array and *)
(* no semaphore leaves its range; sems[N+2] counts at most N free slots.   *)
THEOREM Typing == Spec => []TypeOK
<1>1. IInv => TypeOK
  BY DEF IInv
<1> QED BY <1>1, Invariance, PTL

(* One thread at a time works on a slot, although a consumer may see a     *)
(* pointer before its text is copied and producers copy side by side.      *)
THEOREM OneThreadPerSlot == Spec => []SlotExclusive
<1>1. IInv => SlotExclusive
  <2> SUFFICES ASSUME IInv, NEW t \in Threads, NEW u \in Threads,
                      pc[t] \in {"store", "copy", "take", "release"},
                      pc[u] \in {"store", "copy", "take", "release"},
                      curr_index[t] = curr_index[u]
               PROVE  t = u
    BY DEF SlotExclusive
  <2> DEFINE i == curr_index[t]
  <2>1. i \in Slots /\ t \in Inside(i) /\ u \in Inside(i)
    BY DEF Inside, IInv, TypeOK
  <2> QED BY <2>1 DEF IInv, TurnsInv, Admits
<1> QED BY <1>1, Invariance, PTL

(* The free slots are counted exactly, although the producers that wait    *)
(* for the count and the consumer that posts it hold no common semaphore.  *)
THEOREM FreeSlotsExact == Spec => []FreeSlotsCounted
<1>1. IInv => FreeSlotsCounted
  <2> SUFFICES ASSUME IInv PROVE FreeSlotsCounted
    OBVIOUS
  <2> DEFINE R == {k \in Consumers : pc[k] = "release"}
  <2>1. Cardinality(R) = Releasing
    <3>1. CASE R = {}
      BY <3>1, FS_EmptySet DEF Releasing
    <3>2. CASE R # {}
      <4>1. PICK k \in Consumers : pc[k] = "release"
        BY <3>2
      <4>2. Consuming = {k}
        BY <4>1, Alone DEF Consuming
      <4>3. R = {k}
        BY <4>1, <4>2 DEF Consuming
      <4> QED BY <4>1, <4>3, FS_Singleton DEF Releasing
    <3> QED BY <3>1, <3>2
  <2> QED BY <2>1 DEF IInv, CountInv, FreeSlotsCounted
<1> QED BY <1>1, Invariance, PTL

-------------------------------------------------------------------------------
(* The refinement: Claim is Put, Take is Get, every other step stutters. *)

PutLines == {put[n] : n \in 1..Len(put)}
Buffered == SubSeq(put, Len(got) + 1, Len(put))

LEMMA ClaimPuts ==
  ASSUME IInv, NEW p \in Producers, Claim(p)
  PROVE  Buffer!Put(line[p]) /\ line[p] \in Lines \ PutLines
<1> DEFINE l == line[p]
<1>1. /\ l \in Lines /\ put' = Append(put, l) /\ got' = got
      /\ \A n \in 1..Len(put) : put[n] # l
  <2>1. pc[p] = "claim" /\ put' = Append(put, l) /\ got' = got
    BY DEF Claim, At
  <2>2. l \in 1..next_line-1 /\ next_line \in 1..LINES+1
        /\ \A n \in 1..Len(put) : put[n] # l
    BY <2>1 DEF IInv, LinesInv, HasLine, TypeOK
  <2> QED BY <2>1, <2>2, Constants DEF Lines
<1>2. /\ put' \in Seq(Lines) /\ Len(put') = Len(put) + 1 /\ put'[Len(put) + 1] = l
      /\ \A n \in 1..Len(put) : put'[n] = put[n]
      /\ Len(put) \in Nat /\ Len(got) \in Nat /\ Len(got) <= Len(put)
  BY <1>1, Lengths, AppendProperties
<1>3. Lines \ PutLines' = (Lines \ PutLines) \ {l}
  BY <1>2 DEF PutLines
<1>4. Buffered' = Append(Buffered, l)
  <2>1. Buffered' = SubSeq(put', Len(got) + 1, Len(put) + 1)
    BY <1>1, <1>2 DEF Buffered
  <2>2. Buffered' = SubSeq(put', Len(got) + 1, Len(put)) \o <<l>>
    <3>1. Len(got) + 1 \in 1..Len(put') /\ Len(put') \in Len(got) + 1..Len(put')
      BY <1>2
    <3>2. SubSeq(put', Len(got) + 1, Len(put'))
            = SubSeq(put', Len(got) + 1, Len(put') - 1) \o <<put'[Len(put')]>>
      BY <1>2, <3>1, SubSeqRecursiveSecond
    <3>3. Len(put') - 1 = Len(put) /\ Len(put') = Len(put) + 1
      BY <1>2
    <3> QED BY <1>2, <2>1, <3>2, <3>3
  <2>3. SubSeq(put', Len(got) + 1, Len(put)) = Buffered
    BY <1>2, Lengths DEF Buffered
  <2>4. Buffered \in Seq(Lines)
    BY Lengths, SubSeqProperties, ElementOfSeq DEF Buffered
  <2> QED BY <1>1, <2>2, <2>3, <2>4, AppendIsConcat
<1>5. Len(Buffered) < N
  <2>1. Len(Buffered) = Len(put) - Len(got)
    BY Lengths, SubSeqProperties, ElementOfSeq DEF Buffered
  <2>2. sems[N+2] > 0
    BY DEF Claim, sem_wait
  <2> QED BY <2>1, <2>2, Lengths, Constants DEF IInv, CountInv
<1> QED BY <1>1, <1>3, <1>4, <1>5 DEF Buffer!Put, Buffered, PutLines

LEMMA TakeGets ==
  ASSUME IInv, NEW k \in Consumers, Take(k)
  PROVE  Buffer!Get
<1> DEFINE m == Len(got) + 1
<1>1. m \in InArray /\ got' = Append(got, put[m]) /\ put' = put
  BY TakePreserves
<1>2. /\ m \in 1..Len(put) /\ Len(put) \in m..Len(put) /\ put[m] \in Lines
      /\ Len(put) \in Nat /\ Len(got) \in Nat
  BY <1>1, Lengths, Tickets
<1>3. Len(got') = m
  BY <1>1, <1>2, Lengths, AppendProperties
<1>4. Buffered = <<put[m]>> \o SubSeq(put, m+1, Len(put))
  BY <1>2, Lengths, SubSeqRecursiveFirst DEF Buffered
<1>5. Head(Buffered) = put[m] /\ Tail(Buffered) = SubSeq(put, m+1, Len(put))
  BY <1>2, Lengths, HeadTailOfSubSeq DEF Buffered
<1>6. Buffered # <<>>
  <2>1. Len(Buffered) = Len(put) - Len(got)
    BY Lengths, SubSeqProperties, ElementOfSeq DEF Buffered
  <2> QED BY <1>2, <2>1
<1>7. Buffered' = SubSeq(put, m+1, Len(put)) /\ PutLines' = PutLines
  BY <1>1, <1>3 DEF Buffered, PutLines
<1> QED BY <1>1, <1>5, <1>6, <1>7 DEF Buffer!Get, Buffered, PutLines

(* The ring, for any number of threads and slots, is a first-in first-out  *)
(* buffer of N lines: what the promised buffer does, it does.              *)
THEOREM Refinement == Spec => ImplementsBuffer
<1>1. Init => Buffer!Init
  <2> SUFFICES ASSUME Init PROVE Buffer!Init
    OBVIOUS
  <2>1. put = <<>> /\ got = <<>> /\ Len(put) = 0 /\ Len(got) = 0
    BY DEF Init
  <2>2. SubSeq(put, Len(got) + 1, Len(put)) = <<>>
    BY <2>1, SubSeqEmpty
  <2>3. {put[n] : n \in 1..Len(put)} = {}
    BY <2>1
  <2> QED BY <2>1, <2>2, <2>3 DEF Buffer!Init
<1>2. IInv /\ [Next]_vars => [Buffer!Next]_Buffer!vars
  <2> SUFFICES ASSUME IInv, [Next]_vars PROVE [Buffer!Next]_Buffer!vars
    OBVIOUS
  <2>1. CASE UNCHANGED history
    BY <2>1 DEF history, Buffer!vars
  <2>2. ASSUME NEW p \in Producers, Claim(p) PROVE Buffer!Next
    <3>1. /\ line[p] \in Lines \ {put[n] : n \in 1..Len(put)}
          /\ Buffer!Put(line[p])
      BY <2>2, ClaimPuts DEF PutLines
    <3> QED BY <3>1 DEF Buffer!Next, Buffer!Put
  <2>3. ASSUME NEW k \in Consumers, Take(k) PROVE Buffer!Next
    BY <2>3, TakeGets DEF Buffer!Next
  <2>4. \/ UNCHANGED history
        \/ \E p \in Producers : Claim(p)
        \/ \E k \in Consumers : Take(k)
    BY DEF Next, vars, produce, consume, wait_threads, fgets, WaitTurn, Guard,
           Store, Publish, WaitCons, ConsTest, AskDone, GuardCons, Release,
           JoinProducers, JoinConsumers, clean_up, sig_handler, history
  <2> QED BY <2>1, <2>2, <2>3, <2>4
<1> QED BY <1>1, <1>2, Invariance, PTL DEF Spec, ImplementsBuffer, Buffer!Spec
===============================================================================
