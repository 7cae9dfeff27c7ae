----------------------------- MODULE SigUsr_proof -----------------------------
(***************************************************************************)
(* Proofs about SigUsr for any number L of signals.  IInv balances the     *)
(* books of TYPE 2 as long as both processes are in their loops, where at  *)
(* most one signal is under way.  Accounts keeps those of TYPE 3, with any *)
(* number of signals queued and SIGRTMAX in the middle of the handler of   *)
(* SIGRTMIN: each signal sent is pending, in a handler or counted, each    *)
(* one counted in a handler, pending for the parent or received.  Which    *)
(* handler may interrupt which follows from the order signals come in.     *)
(***************************************************************************)
EXTENDS SigUsr, SequenceTheorems, FiniteSetTheorems, TLAPS

Frames == [sig : Signals, counted : BOOLEAN]

TypeOK ==
  /\ TYPE \in 1..3
  /\ parent \in {"sleep", "loop", "suspend", "waitpid", "interrupt", "reaped",
                 "failed", "hasty", "exit9", "killed"}
  /\ child \in {"start", "loop", "exited", "killed"}
  /\ pending \in [{"parent", "child"} -> [Signals -> Nat]]
  /\ frames \in Seq(Frames)
  /\ sent_to_child \in 0..L+1
  /\ received_by_child \in Nat /\ received_by_parent \in Nat
  /\ interrupted \in BOOLEAN

(* The parent has not sent its last signal and the child has not ended. *)
Sending == parent \in {"sleep", "loop", "suspend"}
Together == Sending /\ child \in {"start", "loop"}

(* What the parent's place says. *)
ParentInv ==
  /\ Sending => sent_to_child <= L
  /\ parent = "suspend" => TYPE = 2 /\ sent_to_child < L
  /\ parent = "waitpid" => child # "start"
  /\ parent = "waitpid" /\ child = "loop" =>
       \/ pending["child"][last_signal] > 0
       \/ \E i \in 1..Len(frames) : frames[i].sig = last_signal
  /\ parent \in {"reaped", "failed"} => child_ended

(* As long as both are in their loops only the user's signal is under way, *)
(* and its handler is not interrupted.                                     *)
InHandler(counted) == IF frames # <<>> /\ frames[1].counted = counted THEN 1 ELSE 0

OneSignal ==
  Together =>
    /\ \A sig \in Signals \ {user_signal} :
         pending["child"][sig] = 0 /\ pending["parent"][sig] = 0
    /\ frames # <<>> => Len(frames) = 1 /\ frames[1].sig = user_signal

(* Before the first signal nothing is under way. *)
AtRest ==
  /\ frames = <<>>
  /\ \A sig \in Signals : pending["child"][sig] = 0 /\ pending["parent"][sig] = 0
  /\ sent_to_child = 0 /\ received_by_child = 0 /\ received_by_parent = 0

StartInv == Together /\ (parent = "sleep" \/ child = "start") => AtRest

(* The signal sent before sigsuspend is counted after it. *)
Sent == IF parent = "suspend" THEN sent_to_child + 1 ELSE sent_to_child

Balance ==
  Together /\ TYPE = 2 =>
    /\ Sent = pending["child"][user_signal] + InHandler(FALSE) + received_by_child
    /\ received_by_child =
         InHandler(TRUE) + pending["parent"][user_signal] + received_by_parent
    /\ sent_to_child <= received_by_parent

IInv == TypeOK /\ ParentInv /\ OneSignal /\ StartInv /\ Balance

-------------------------------------------------------------------------------
(* Signals and frames. *)

LEMMA Numbers ==
  /\ L \in Nat \ {0}
  /\ SIGUSR1 = 10 /\ SIGUSR2 = 12 /\ SIGRTMIN = 34 /\ SIGRTMAX = 64
  /\ Signals = {SIGUSR1, SIGUSR2, SIGRTMIN, SIGRTMAX} /\ Standard = {SIGUSR1, SIGUSR2}
BY LAssumption DEF SIGUSR1, SIGUSR2, SIGRTMIN, SIGRTMAX, Signals, Standard

LEMMA TheSignals ==
  /\ user_signal \in Signals /\ last_signal \in Signals /\ user_signal # last_signal
  /\ user_signal \in {SIGUSR1, SIGRTMIN} /\ last_signal \in {SIGUSR2, SIGRTMAX}
  /\ TYPE # 3 => user_signal = SIGUSR1 /\ last_signal = SIGUSR2
  /\ TYPE = 3 => user_signal = SIGRTMIN /\ last_signal = SIGRTMAX
BY Numbers DEF user_signal, last_signal

LEMMA TypeKept ==
  ASSUME TYPE' = TYPE
  PROVE  user_signal' = user_signal /\ last_signal' = last_signal
BY DEF user_signal, last_signal

(* The handlers, one more or one less. *)
LEMMA Pushed ==
  ASSUME NEW s \in Seq(Frames), NEW f \in Frames, NEW t, t = Append(s, f)
  PROVE  /\ t \in Seq(Frames) /\ Len(t) = Len(s) + 1 /\ t # <<>>
         /\ Len(t) \in 1..Len(t) /\ t[Len(t)] = f
         /\ \A i \in 1..Len(s) : i \in 1..Len(t) /\ t[i] = s[i]
OBVIOUS

LEMMA Popped ==
  ASSUME NEW s \in Seq(Frames), s # <<>>, NEW t, t = Front(s)
  PROVE  /\ Len(s) \in Nat \ {0} /\ Len(s) \in 1..Len(s) /\ s[Len(s)] \in Frames
         /\ t \in Seq(Frames) /\ Len(t) = Len(s) - 1
         /\ \A i \in 1..Len(s) : i # Len(s) => i \in 1..Len(t) /\ t[i] = s[i]
<1>1. Len(s) \in Nat \ {0} /\ Len(s) \in 1..Len(s) /\ s[Len(s)] \in Frames
  BY EmptySeq
<1>2. \A i \in 1..Len(s)-1 : s[i] \in Frames
  BY <1>1
<1>3. /\ t \in Seq(Frames) /\ Len(t) = Len(s) - 1
      /\ \A i \in 1..Len(s)-1 : t[i] = s[i]
  <2>1. PICK n \in Nat : n = Len(s) - 1
    BY <1>1
  <2>2. \A i \in 1..n : s[i] \in Frames
    BY <1>2, <2>1
  <2>3. /\ SubSeq(s, 1, n) \in Seq(Frames)
        /\ Len(SubSeq(s, 1, n)) = IF 1 <= n THEN n-1+1 ELSE 0
        /\ \A i \in 1..n-1+1 : SubSeq(s, 1, n)[i] = s[1+i-1]
    BY <2>2, SubSeqProperties
  <2>4. n-1+1 = n /\ (IF 1 <= n THEN n-1+1 ELSE 0) = n /\ \A i \in 1..n : 1+i-1 = i
    OBVIOUS
  <2>5. t = SubSeq(s, 1, n)
    BY <2>1 DEF Front
  <2> QED BY <2>1, <2>3, <2>4, <2>5
<1>4. \A i \in 1..Len(s) : i # Len(s) => i \in 1..Len(s)-1
  BY <1>1
<1> QED BY <1>1, <1>3, <1>4

LEMMA Changed ==
  ASSUME NEW s \in Seq(Frames), s # <<>>, NEW t,
         t = [s EXCEPT ![Len(s)].counted = TRUE]
  PROVE  /\ Len(s) \in Nat \ {0}
         /\ t \in Seq(Frames) /\ Len(t) = Len(s) /\ t # <<>>
         /\ t[Len(s)].counted = TRUE
         /\ \A i \in 1..Len(s) : t[i].sig = s[i].sig
         /\ \A i \in 1..Len(s) : i # Len(s) => t[i] = s[i]
<1>1. Len(s) \in Nat \ {0} /\ Len(s) \in 1..Len(s) /\ DOMAIN s = 1..Len(s)
  BY EmptySeq
<1>2. s[Len(s)] \in Frames /\ \A i \in 1..Len(s) : s[i] \in Frames
  BY <1>1
<1> DEFINE f == [s[Len(s)] EXCEPT !.counted = TRUE]
<1>3. f \in Frames /\ f.counted = TRUE /\ f.sig = s[Len(s)].sig
  BY <1>2 DEF Frames
<1>4. t = [s EXCEPT ![Len(s)] = f]
  OBVIOUS
<1>5. t \in Seq(Frames) /\ Len(t) = Len(s)
  BY <1>3, <1>4, <1>1
<1>6. t[Len(s)] = f /\ \A i \in 1..Len(s) : i # Len(s) => t[i] = s[i]
  BY <1>1, <1>4
<1>7. t # <<>>
  BY <1>1, <1>5
<1> QED BY <1>1, <1>3, <1>5, <1>6, <1>7

(* kill, for the process p. *)
LEMMA Queued ==
  ASSUME TypeOK, NEW p \in {"parent", "child"}, NEW sig \in Signals, queued(p, sig)
  PROVE  /\ pending' \in [{"parent", "child"} -> [Signals -> Nat]]
         /\ pending'[p][sig] = IF sig \in Standard THEN 1 ELSE pending[p][sig] + 1
         /\ \A q \in {"parent", "child"}, s \in Signals :
              q # p \/ s # sig => pending'[q][s] = pending[q][s]
<1> DEFINE n == IF sig \in Standard THEN 1 ELSE pending[p][sig] + 1
<1>1. /\ pending \in [{"parent", "child"} -> [Signals -> Nat]]
      /\ pending[p][sig] \in Nat /\ n \in Nat
  BY DEF TypeOK
<1>2. pending' = [pending EXCEPT ![p][sig] = n]
  BY DEF queued
<1> QED BY <1>1, <1>2

LEMMA Taken ==
  ASSUME TypeOK, NEW p \in {"parent", "child"}, NEW sig \in Signals,
         pending[p][sig] > 0, pending' = [pending EXCEPT ![p][sig] = pending[p][sig] - 1]
  PROVE  /\ pending' \in [{"parent", "child"} -> [Signals -> Nat]]
         /\ pending'[p][sig] = pending[p][sig] - 1
         /\ \A q \in {"parent", "child"}, s \in Signals :
              q # p \/ s # sig => pending'[q][s] = pending[q][s]
<1>1. /\ pending \in [{"parent", "child"} -> [Signals -> Nat]]
      /\ pending[p][sig] \in Nat /\ pending[p][sig] - 1 \in Nat
  BY DEF TypeOK
<1> QED BY <1>1

-------------------------------------------------------------------------------
(* One lemma per action: it preserves the inductive invariant. *)

LEMMA InitEstablishes == Init => IInv
<1> SUFFICES ASSUME Init PROVE IInv
  OBVIOUS
<1>1. /\ frames = <<>> /\ frames \in Seq(Frames)
      /\ parent = "sleep" /\ child = "start" /\ sent_to_child = 0
      /\ received_by_child = 0 /\ received_by_parent = 0
      /\ \A p \in {"parent", "child"}, sig \in Signals : pending[p][sig] = 0
      /\ pending \in [{"parent", "child"} -> [Signals -> Nat]]
  BY DEF Init
<1>2. TypeOK
  <2>1. sent_to_child \in 0..L+1 /\ received_by_child \in Nat /\ received_by_parent \in Nat
    BY <1>1, Numbers
  <2>2. TYPE \in 1..3 /\ interrupted \in BOOLEAN
    BY DEF Init
  <2> QED BY <1>1, <2>1, <2>2 DEF TypeOK
<1>3. ParentInv /\ OneSignal
  BY <1>1, Numbers DEF ParentInv, OneSignal
<1>4. StartInv
  BY <1>1 DEF StartInv, AtRest
<1>5. Balance
  BY <1>1, TheSignals DEF Balance, Sent, InHandler
<1> QED BY <1>2, <1>3, <1>4, <1>5 DEF IInv

(* Steps after which the two are not together, nor the parent in waitpid   *)
(* with a running child.                                                   *)
LEMMA Parted ==
  ASSUME TypeOK', ~Together', TYPE' = TYPE,
         Sending' => sent_to_child' <= L,
         parent' = "suspend" => TYPE = 2 /\ sent_to_child' < L,
         parent' = "waitpid" => child' \notin {"start", "loop"},
         parent' \in {"reaped", "failed"} => child_ended'
  PROVE  IInv'
BY DEF IInv, ParentInv, OneSignal, StartInv, Balance

LEMMA SetHandlersPreserves == ASSUME IInv, SetHandlers PROVE IInv'
<1>1. /\ parent = "sleep" /\ parent' = "loop"
      /\ UNCHANGED <<TYPE, child, pending, frames, sent_to_child, received_by_child,
                     received_by_parent, interrupted>>
  BY DEF SetHandlers, counts
<1>2. TypeOK'
  BY <1>1 DEF IInv, TypeOK
<1>3. Sending /\ Sending' /\ (Together' <=> Together) /\ Sent' = Sent
  BY <1>1 DEF Sending, Together, Sent
<1>4. user_signal' = user_signal
  BY <1>1, TypeKept
<1>5. ParentInv'
  BY <1>1, <1>3 DEF IInv, ParentInv
<1>6. OneSignal' /\ StartInv'
  BY <1>1, <1>3, <1>4 DEF IInv, OneSignal, StartInv, AtRest
<1>7. Balance'
  BY <1>1, <1>3, <1>4 DEF IInv, Balance, InHandler
<1> QED BY <1>2, <1>5, <1>6, <1>7 DEF IInv

(* What the two have sent and received when they are together. *)
LEMMA Books ==
  ASSUME IInv, Together
  PROVE  /\ InHandler(FALSE) \in {0, 1} /\ InHandler(TRUE) \in {0, 1}
         /\ frames = <<>> => InHandler(FALSE) = 0 /\ InHandler(TRUE) = 0
         /\ pending["child"][user_signal] \in Nat
         /\ pending["parent"][user_signal] \in Nat
         /\ TYPE = 2 => /\ pending["child"][user_signal] <= 1
                        /\ pending["parent"][user_signal] <= 1
                        /\ InHandler(TRUE) = 1 => pending["parent"][user_signal] = 0
                        /\ parent # "suspend" => /\ pending["child"][user_signal] = 0
                                                 /\ pending["parent"][user_signal] = 0
                                                 /\ InHandler(FALSE) = 0
                                                 /\ InHandler(TRUE) = 0
                                                 /\ received_by_child = sent_to_child
                                                 /\ received_by_parent = sent_to_child
<1> DEFINE f == InHandler(FALSE)  t == InHandler(TRUE)
           pc == pending["child"][user_signal]  pp == pending["parent"][user_signal]
<1>1. f \in {0, 1} /\ t \in {0, 1} /\ (frames = <<>> => f = 0 /\ t = 0)
  BY DEF InHandler
<1>2. /\ pc \in Nat /\ pp \in Nat /\ sent_to_child \in Nat
      /\ received_by_child \in Nat /\ received_by_parent \in Nat
  BY TheSignals, Numbers DEF IInv, TypeOK
<1>3. ASSUME TYPE = 2
      PROVE  /\ pc <= 1 /\ pp <= 1 /\ (t = 1 => pp = 0)
             /\ parent # "suspend" => /\ pc = 0 /\ pp = 0 /\ f = 0 /\ t = 0
                                      /\ received_by_child = sent_to_child
                                      /\ received_by_parent = sent_to_child
  <2>1. /\ Sent = pc + f + received_by_child
        /\ received_by_child = t + pp + received_by_parent
        /\ sent_to_child <= received_by_parent
    BY <1>3 DEF IInv, Balance
  <2>2. Sent = (IF parent = "suspend" THEN sent_to_child + 1 ELSE sent_to_child)
    BY DEF Sent
  <2> HIDE DEF f, t, pc, pp
  <2>3. Sent <= sent_to_child + 1 /\ Sent \in Nat
    BY <1>2, <2>2
  <2>4. pc + f + t + pp <= 1
    BY <1>1, <1>2, <2>1, <2>3
  <2>5. parent # "suspend" => pc + f + t + pp <= 0
    BY <1>1, <1>2, <2>1, <2>2
  <2>6. pc <= 1 /\ pp <= 1 /\ (t = 1 => pp = 0)
    BY <1>1, <1>2, <2>4
  <2>7. parent # "suspend" => pc = 0 /\ pp = 0 /\ f = 0 /\ t = 0
    BY <1>1, <1>2, <2>5
  <2>8. parent # "suspend" => /\ received_by_child = sent_to_child
                              /\ received_by_parent = sent_to_child
    BY <1>1, <1>2, <2>1, <2>2, <2>7
  <2> QED BY <2>6, <2>7, <2>8
<1> QED BY <1>1, <1>2, <1>3

LEMMA SendSignalPreserves == ASSUME IInv, SendSignal PROVE IInv'
<1>1. /\ parent = "loop" /\ sent_to_child < L
      /\ child' = IF child = "start" THEN "killed" ELSE child
      /\ child = "loop" => queued("child", user_signal)
      /\ child # "loop" => pending' = pending
      /\ TYPE = 2 => parent' = "suspend" /\ sent_to_child' = sent_to_child
      /\ TYPE # 2 => parent' = "loop" /\ sent_to_child' = sent_to_child + 1
      /\ UNCHANGED <<TYPE, frames, received_by_child, received_by_parent, interrupted>>
  BY DEF SendSignal, kill_child, waits_for_answer
<1>2. user_signal' = user_signal /\ user_signal \in Signals
  BY <1>1, TypeKept, TheSignals
<1>3. sent_to_child \in Nat /\ sent_to_child' \in 0..L /\ TypeOK
  BY <1>1, Numbers DEF IInv, TypeOK
<1>4. /\ pending' \in [{"parent", "child"} -> [Signals -> Nat]]
  BY <1>1, <1>2, <1>3, Queued DEF TypeOK
<1>5. TypeOK'
  <2>1. sent_to_child' \in 0..L+1
    BY <1>3, Numbers
  <2> QED BY <1>1, <1>3, <1>4, <2>1 DEF TypeOK
<1>6. CASE child # "loop"
  <2>1. child' \notin {"start", "loop"}
    BY <1>1, <1>6
  <2> QED BY <1>1, <1>3, <1>5, <2>1, Parted DEF Sending, Together
<1>7. CASE child = "loop"
  <2>1. Together /\ Together' /\ Sending'
    BY <1>1, <1>7 DEF Together, Sending
  <2>2. ParentInv'
    BY <1>1, <1>3, <2>1 DEF ParentInv
  <2>3. /\ pending'["child"][user_signal] =
             IF user_signal \in Standard THEN 1 ELSE pending["child"][user_signal] + 1
        /\ \A sig \in Signals : pending'["parent"][sig] = pending["parent"][sig]
        /\ \A sig \in Signals \ {user_signal} :
             pending'["child"][sig] = pending["child"][sig]
    BY <1>1, <1>2, <1>3, <1>7, Queued
  <2>4. OneSignal'
    BY <1>1, <1>2, <2>1, <2>3 DEF IInv, OneSignal
  <2>5. StartInv'
    BY <1>1, <1>7 DEF StartInv
  <2>6. Sent' = Sent + 1
    BY <1>1, <1>3 DEF Sent
  <2>7. TYPE = 2 => pending'["child"][user_signal] = pending["child"][user_signal] + 1
    <3> SUFFICES ASSUME TYPE = 2
                 PROVE  pending'["child"][user_signal] = pending["child"][user_signal] + 1
      OBVIOUS
    <3>1. pending["child"][user_signal] = 0
      BY <1>1, <2>1, Books
    <3>2. user_signal \in Standard
      BY TheSignals, Numbers
    <3> QED BY <2>3, <3>1, <3>2
  <2>8. InHandler(FALSE)' = InHandler(FALSE) /\ InHandler(TRUE)' = InHandler(TRUE)
    BY <1>1 DEF InHandler
  <2>9. /\ Sent \in Nat /\ pending["child"][user_signal] \in Nat
        /\ pending'["parent"][user_signal] = pending["parent"][user_signal]
    BY <1>2, <1>3, <2>3 DEF Sent, TypeOK
  <2>10. Balance'
    <3> SUFFICES ASSUME TYPE = 2
                 PROVE  /\ Sent' = pending'["child"][user_signal] + InHandler(FALSE)
                                   + received_by_child
                        /\ received_by_child = InHandler(TRUE)
                             + pending'["parent"][user_signal] + received_by_parent
                        /\ sent_to_child' <= received_by_parent
      BY <1>1, <1>2, <2>8 DEF Balance
    <3>1. /\ Sent = pending["child"][user_signal] + InHandler(FALSE) + received_by_child
          /\ received_by_child =
               InHandler(TRUE) + pending["parent"][user_signal] + received_by_parent
          /\ sent_to_child <= received_by_parent
      BY <2>1 DEF IInv, Balance
    <3>2. InHandler(FALSE) \in {0, 1} /\ received_by_child \in Nat
      BY <1>3, <2>1, Books DEF TypeOK
    <3>3. Sent + 1 = (pending["child"][user_signal] + 1) + InHandler(FALSE)
                     + received_by_child
      <4>1. PICK a \in Nat, p \in Nat, f \in Nat, r \in Nat :
              /\ a = Sent /\ p = pending["child"][user_signal]
              /\ f = InHandler(FALSE) /\ r = received_by_child
        BY <2>9, <3>2
      <4>2. a = p + f + r
        BY <3>1, <4>1
      <4>3. a + 1 = (p + 1) + f + r
        BY <4>2
      <4> QED BY <4>1, <4>3
    <3> QED BY <1>1, <1>2, <2>3, <2>6, <2>7, <3>1, <3>3
  <2> QED BY <1>5, <2>2, <2>4, <2>5, <2>10 DEF IInv
<1> QED BY <1>6, <1>7

LEMMA SendLastPreserves == ASSUME IInv, SendLast PROVE IInv'
<1>1. /\ parent = "loop" /\ sent_to_child = L /\ parent' = "waitpid"
      /\ child' = IF child = "start" THEN "killed" ELSE child
      /\ child = "loop" => queued("child", last_signal)
      /\ child # "loop" => pending' = pending
      /\ sent_to_child' = IF TYPE = 3 THEN sent_to_child + 1 ELSE sent_to_child
      /\ UNCHANGED <<TYPE, frames, received_by_child, received_by_parent, interrupted>>
  BY DEF SendLast, kill_child
<1>2. last_signal' = last_signal /\ last_signal \in Signals
  BY <1>1, TypeKept, TheSignals
<1>3. TypeOK
  BY DEF IInv
<1>4. pending' \in [{"parent", "child"} -> [Signals -> Nat]]
  BY <1>1, <1>2, <1>3, Queued DEF TypeOK
<1>5. TypeOK'
  <2>1. sent_to_child' \in 0..L+1
    BY <1>1, Numbers
  <2> QED BY <1>1, <1>3, <1>4, <2>1 DEF TypeOK
<1>6. child = "loop" => pending'["child"][last_signal] > 0
  <2> SUFFICES ASSUME child = "loop" PROVE pending'["child"][last_signal] > 0
    OBVIOUS
  <2>1. /\ pending'["child"][last_signal] =
             IF last_signal \in Standard THEN 1 ELSE pending["child"][last_signal] + 1
        /\ pending["child"][last_signal] \in Nat
    BY <1>1, <1>2, <1>3, Queued DEF TypeOK
  <2> QED BY <2>1
<1>7. ~Sending' /\ ~Together'
  BY <1>1 DEF Sending, Together
<1>8. ParentInv'
  BY <1>1, <1>2, <1>6, <1>7 DEF ParentInv
<1> QED BY <1>5, <1>7, <1>8 DEF IInv, OneSignal, StartInv, Balance

LEMMA WaitChildPreserves == ASSUME IInv, WaitChild PROVE IInv'
<1>1. /\ parent = "waitpid" /\ child_ended /\ parent' \in {"reaped", "failed"}
      /\ UNCHANGED <<TYPE, child, pending, frames, sent_to_child, received_by_child,
                     received_by_parent, interrupted>>
  BY DEF WaitChild, counts
<1>2. TypeOK'
  BY <1>1 DEF IInv, TypeOK
<1>3. ~Sending' /\ ~Together' /\ child_ended'
  BY <1>1 DEF Sending, Together, child_ended
<1> QED BY <1>1, <1>2, <1>3, Parted

LEMMA ExitHandlerPreserves == ASSUME IInv, ExitHandler PROVE IInv'
<1>1. /\ parent = "interrupt" /\ parent' = "exit9"
      /\ UNCHANGED <<TYPE, child, pending, frames, sent_to_child, received_by_child,
                     received_by_parent, interrupted>>
  BY DEF ExitHandler, counts
<1>2. TypeOK'
  BY <1>1 DEF IInv, TypeOK
<1>3. ~Sending' /\ ~Together'
  BY <1>1 DEF Sending, Together
<1> QED BY <1>1, <1>2, <1>3, Parted

LEMMA ParentInterruptedPreserves == ASSUME IInv, ParentInterrupted PROVE IInv'
<1>1. /\ parent' \in {"killed", "interrupt"}
      /\ child' = child \/ child' = "killed"
      /\ pending' = pending \/ queued("child", SIGUSR2)
      /\ interrupted' = TRUE
      /\ UNCHANGED <<TYPE, frames, sent_to_child, received_by_child, received_by_parent>>
  BY DEF ParentInterrupted, kill_child, counts
<1>2. pending' \in [{"parent", "child"} -> [Signals -> Nat]]
  BY <1>1, Queued, Numbers DEF IInv, TypeOK
<1>3. TypeOK'
  BY <1>1, <1>2 DEF IInv, TypeOK
<1>4. ~Sending' /\ ~Together'
  BY <1>1 DEF Sending, Together
<1> QED BY <1>1, <1>3, <1>4, Parted

LEMMA ChildInterruptedPreserves == ASSUME IInv, ChildInterrupted PROVE IInv'
<1>1. /\ child \notin {"exited", "killed"} /\ child' \in {"exited", "killed"}
      /\ interrupted' = TRUE
      /\ UNCHANGED <<TYPE, parent, pending, frames, sent_to_child, received_by_child,
                     received_by_parent>>
  BY DEF ChildInterrupted, child_ended, counts
<1>2. TypeOK'
  BY <1>1 DEF IInv, TypeOK
<1>3. ~Together' /\ child_ended' /\ (Sending' <=> Sending)
  BY <1>1 DEF Sending, Together, child_ended
<1> QED BY <1>1, <1>2, <1>3, Parted DEF IInv, ParentInv

(* The signal leaves the parent's pending signals and is received; when it *)
(* ends sigsuspend the signal sent before is counted.                      *)
LEMMA ParentHandlerPreserves == ASSUME IInv, parent_handler PROVE IInv'
<1>1. PICK sig \in {SIGUSR1, SIGRTMIN} :
        /\ parent \in {"loop", "suspend", "waitpid", "interrupt"}
        /\ pending["parent"][sig] > 0
        /\ pending' = [pending EXCEPT !["parent"][sig] = pending["parent"][sig] - 1]
        /\ received_by_parent' = received_by_parent + 1
        /\ \/ parent' = parent /\ sent_to_child' = sent_to_child
           \/ /\ parent = "suspend" /\ parent' = "loop"
              /\ sent_to_child' = sent_to_child + 1
           \/ parent = "waitpid" /\ parent' = "hasty" /\ sent_to_child' = sent_to_child
        /\ UNCHANGED <<TYPE, child, frames, received_by_child, interrupted>>
  BY DEF parent_handler
<1>2. /\ user_signal' = user_signal /\ last_signal' = last_signal
      /\ user_signal \in Signals /\ last_signal \in Signals /\ sig \in Signals
  BY <1>1, TypeKept, TheSignals, Numbers
<1>3. /\ TypeOK /\ sent_to_child \in 0..L+1
      /\ parent = "suspend" => sent_to_child < L
      /\ Sending => sent_to_child <= L
  BY DEF IInv, TypeOK, ParentInv
<1>4. /\ pending' \in [{"parent", "child"} -> [Signals -> Nat]]
      /\ pending'["parent"][sig] = pending["parent"][sig] - 1
      /\ \A s \in Signals : /\ s # sig => pending'["parent"][s] = pending["parent"][s]
                            /\ pending'["child"][s] = pending["child"][s]
  BY <1>1, <1>2, <1>3, Taken
<1>5. sent_to_child' \in 0..L+1 /\ (Sending' => Sending /\ sent_to_child' <= L)
  BY <1>1, <1>3, Numbers DEF Sending
<1>6. TypeOK'
  <2>1. received_by_parent' \in Nat
    BY <1>1, <1>3 DEF TypeOK
  <2> QED BY <1>1, <1>3, <1>4, <1>5, <2>1 DEF TypeOK
<1>7. ParentInv'
  <2>1. ParentInv
    BY DEF IInv
  <2>2. pending'["child"][last_signal] = pending["child"][last_signal]
    BY <1>2, <1>4
  <2> QED BY <1>1, <1>2, <1>5, <2>1, <2>2 DEF ParentInv, child_ended
<1>8. Together' => Together
  BY <1>1, <1>5 DEF Together
<1>9. Together => sig = user_signal /\ ~AtRest
  BY <1>1, <1>2 DEF IInv, OneSignal, AtRest
<1>10. OneSignal'
  BY <1>1, <1>2, <1>4, <1>8, <1>9 DEF IInv, OneSignal
<1>11. StartInv'
  BY <1>1, <1>8, <1>9 DEF IInv, StartInv
<1>12. Sending' => Sent' = Sent
  BY <1>1, <1>3 DEF Sent, Sending
<1>13. Balance'
  <2> SUFFICES ASSUME Together', TYPE = 2
               PROVE  /\ Sent' = pending'["child"][user_signal] + InHandler(FALSE)
                                 + received_by_child
                      /\ received_by_child = InHandler(TRUE)
                           + pending'["parent"][user_signal] + received_by_parent'
                      /\ sent_to_child' <= received_by_parent'
    BY <1>1, <1>2 DEF Balance, InHandler
  <2>1. /\ Sent = pending["child"][user_signal] + InHandler(FALSE) + received_by_child
        /\ received_by_child =
             InHandler(TRUE) + pending["parent"][user_signal] + received_by_parent
        /\ sent_to_child <= received_by_parent
    BY <1>8 DEF IInv, Balance
  <2>2. PICK p \in Nat, t \in Nat, r \in Nat :
          /\ p = pending["parent"][user_signal] /\ t = InHandler(TRUE)
          /\ r = received_by_parent
    BY <1>3, <1>8, Books DEF TypeOK
  <2>3. t + (p - 1) + (r + 1) = t + p + r
    OBVIOUS
  <2>4. received_by_child =
          InHandler(TRUE) + pending'["parent"][user_signal] + received_by_parent'
    BY <1>1, <1>4, <1>8, <1>9, <2>1, <2>2, <2>3
  <2>5. sent_to_child' <= received_by_parent'
    BY <1>1, <1>3, <2>1, <2>2
  <2>6. Sent' = Sent
    BY <1>12 DEF Together
  <2> QED BY <1>2, <1>4, <2>1, <2>4, <2>5, <2>6
<1> QED BY <1>6, <1>7, <1>10, <1>11, <1>13 DEF IInv

LEMMA SetChildHandlersPreserves == ASSUME IInv, SetChildHandlers PROVE IInv'
<1>1. /\ child = "start" /\ child' = "loop"
      /\ UNCHANGED <<TYPE, parent, pending, frames, sent_to_child, received_by_child,
                     received_by_parent, interrupted>>
  BY DEF SetChildHandlers, counts
<1>2. TypeOK'
  BY <1>1 DEF IInv, TypeOK
<1>3. (Sending' <=> Sending) /\ (Together' <=> Together) /\ Sent' = Sent
  BY <1>1 DEF Sending, Together, Sent
<1>4. user_signal' = user_signal
  BY <1>1, TypeKept
<1>5. ParentInv'
  BY <1>1, <1>3 DEF IInv, ParentInv, child_ended
<1>6. OneSignal' /\ StartInv'
  BY <1>1, <1>3, <1>4 DEF IInv, OneSignal, StartInv, AtRest
<1>7. Balance'
  BY <1>1, <1>3, <1>4 DEF IInv, Balance, InHandler
<1> QED BY <1>2, <1>5, <1>6, <1>7 DEF IInv

LEMMA DeliverPreserves == ASSUME IInv, Deliver PROVE IInv'
<1>1. PICK sig \in Signals \ handling :
        /\ child = "loop" /\ pending["child"][sig] > 0
        /\ pending' = [pending EXCEPT !["child"][sig] = pending["child"][sig] - 1]
        /\ frames' = Append(frames, [sig |-> sig, counted |-> FALSE])
        /\ UNCHANGED <<TYPE, parent, child, sent_to_child, received_by_child,
                       received_by_parent, interrupted>>
  BY DEF Deliver, counts
<1> DEFINE f == [sig |-> sig, counted |-> FALSE]
<1>2. /\ user_signal' = user_signal /\ last_signal' = last_signal
      /\ user_signal \in Signals /\ last_signal \in Signals
  BY <1>1, TypeKept, TheSignals
<1>3. TypeOK
  BY DEF IInv
<1>4. /\ pending' \in [{"parent", "child"} -> [Signals -> Nat]]
      /\ pending'["child"][sig] = pending["child"][sig] - 1
      /\ \A s \in Signals : /\ s # sig => pending'["child"][s] = pending["child"][s]
                            /\ pending'["parent"][s] = pending["parent"][s]
  BY <1>1, <1>3, Taken
<1>5. /\ frames' \in Seq(Frames) /\ Len(frames') = Len(frames) + 1 /\ frames' # <<>>
      /\ Len(frames') \in 1..Len(frames') /\ frames'[Len(frames')] = f
      /\ \A i \in 1..Len(frames) : i \in 1..Len(frames') /\ frames'[i] = frames[i]
  <2>1. f \in Frames
    BY DEF Frames
  <2>2. frames \in Seq(Frames) /\ frames' = Append(frames, f)
    BY <1>1, <1>3 DEF TypeOK
  <2> HIDE DEF f
  <2> QED BY <2>1, <2>2, Pushed
<1>6. TypeOK'
  BY <1>1, <1>3, <1>4, <1>5 DEF TypeOK
<1>7. ParentInv'
  <2>1. ASSUME parent = "waitpid"
        PROVE  \/ pending'["child"][last_signal] > 0
               \/ \E i \in 1..Len(frames') : frames'[i].sig = last_signal
    <3>1. CASE sig = last_signal
      BY <1>5, <3>1
    <3>2. CASE sig # last_signal
      <4>1. \/ pending["child"][last_signal] > 0
            \/ \E i \in 1..Len(frames) : frames[i].sig = last_signal
        BY <1>1, <2>1 DEF IInv, ParentInv
      <4> QED BY <1>2, <1>4, <1>5, <3>2, <4>1
    <3> QED BY <3>1, <3>2
  <2> QED BY <1>1, <1>2, <2>1 DEF IInv, ParentInv, Sending, child_ended
<1>8. CASE ~Together
  <2>1. ~Together'
    BY <1>1, <1>8 DEF Together, Sending
  <2> QED BY <1>6, <1>7, <2>1 DEF IInv, OneSignal, StartInv, Balance
<1>9. CASE Together
  <2>1. sig = user_signal /\ ~AtRest
    BY <1>1, <1>2, <1>9 DEF IInv, OneSignal, AtRest
  <2>2. frames = <<>> /\ Len(frames) = 0
    <3>1. frames # <<>> => user_signal \in handling
      BY <1>9, Numbers DEF IInv, OneSignal, handling
    <3> QED BY <1>1, <2>1, <3>1
  <2>3. frames'[1] = f /\ Len(frames') = 1
    BY <1>5, <2>2
  <2>4. OneSignal'
    BY <1>2, <1>4, <1>9, <2>1, <2>3 DEF IInv, OneSignal
  <2>5. StartInv'
    BY <1>1, <1>9, <2>1 DEF IInv, StartInv, Together, Sending
  <2>6. /\ InHandler(FALSE) = 0 /\ InHandler(TRUE) = 0
        /\ InHandler(FALSE)' = 1 /\ InHandler(TRUE)' = 0
    BY <1>5, <2>2, <2>3 DEF InHandler
  <2>7. Balance'
    <3> SUFFICES ASSUME TYPE = 2
                 PROVE  /\ Sent = pending'["child"][user_signal] + 1 + received_by_child
                        /\ received_by_child = 0 + pending'["parent"][user_signal]
                                               + received_by_parent
                        /\ sent_to_child <= received_by_parent
      BY <1>1, <1>2, <2>6 DEF Balance, Sent
    <3>1. /\ Sent = pending["child"][user_signal] + 0 + received_by_child
          /\ received_by_child = 0 + pending["parent"][user_signal] + received_by_parent
          /\ sent_to_child <= received_by_parent
      BY <1>9, <2>6 DEF IInv, Balance
    <3>2. PICK p \in Nat, r \in Nat :
            p = pending["child"][user_signal] /\ r = received_by_child
      BY <1>2, <1>3 DEF TypeOK
    <3>3. p + 0 + r = (p - 1) + 1 + r
      OBVIOUS
    <3> QED BY <1>2, <1>4, <2>1, <3>1, <3>2, <3>3
  <2> QED BY <1>6, <1>7, <2>4, <2>5, <2>7 DEF IInv
<1> QED BY <1>8, <1>9

(* Steps of a handler while the parent waits: the last signal's stays. *)
LEMMA HandlerCountsPreserves == ASSUME IInv, HandlerCounts PROVE IInv'
<1> DEFINE n == Len(frames)  last == frames[n]
<1>1. /\ child = "loop" /\ frames # <<>> /\ last.counted # TRUE
      /\ \/ /\ last.sig \in counted_signals
            /\ received_by_child' = received_by_child + 1
            /\ frames' = [frames EXCEPT ![n].counted = TRUE]
         \/ /\ last.sig \notin counted_signals
            /\ frames' = Front(frames) /\ received_by_child' = received_by_child
      /\ UNCHANGED <<TYPE, parent, child, pending, sent_to_child, received_by_parent,
                     interrupted>>
  BY DEF HandlerCounts, Last
<1>2. /\ user_signal' = user_signal /\ last_signal' = last_signal
      /\ user_signal \in Signals /\ last_signal \in Signals
  BY <1>1, TypeKept, TheSignals
<1>3. TypeOK /\ frames \in Seq(Frames)
  BY DEF IInv, TypeOK
<1>4. n \in Nat \ {0} /\ n \in 1..n /\ last \in Frames
  BY <1>1, <1>3, EmptySeq
<1>5. parent \in {"sleep", "loop", "suspend", "waitpid"} =>
        user_signal \in counted_signals /\ last_signal \in counted_signals
  BY <1>3, TheSignals DEF counted_signals, parent_ended, TypeOK
<1>6. CASE last.sig \in counted_signals
  <2>1. /\ frames' \in Seq(Frames) /\ Len(frames') = n /\ frames' # <<>>
        /\ frames'[n].counted = TRUE
        /\ \A i \in 1..n : frames'[i].sig = frames[i].sig
        /\ received_by_child' = received_by_child + 1
    BY <1>1, <1>3, <1>6, Changed
  <2>2. TypeOK'
    BY <1>1, <1>3, <2>1 DEF TypeOK
  <2>3. ParentInv'
    BY <1>1, <1>2, <2>1 DEF IInv, ParentInv, Sending, child_ended
  <2>4. CASE ~Together
    <3>1. ~Together'
      BY <1>1, <2>4 DEF Together, Sending
    <3> QED BY <2>2, <2>3, <3>1 DEF IInv, OneSignal, StartInv, Balance
  <2>5. CASE Together
    <3>1. n = 1 /\ last.sig = user_signal /\ ~AtRest
      BY <1>1, <2>5 DEF IInv, OneSignal, AtRest
    <3>2. OneSignal'
      BY <1>1, <1>2, <2>1, <2>5, <3>1 DEF IInv, OneSignal
    <3>3. StartInv'
      BY <1>1, <2>5, <3>1 DEF IInv, StartInv, Together, Sending
    <3>4. /\ InHandler(FALSE) = 1 /\ InHandler(TRUE) = 0
          /\ InHandler(FALSE)' = 0 /\ InHandler(TRUE)' = 1
      BY <1>1, <1>4, <2>1, <3>1 DEF InHandler, Frames
    <3>5. Balance'
      <4> SUFFICES ASSUME TYPE = 2
                   PROVE  /\ Sent = pending["child"][user_signal] + 0 + received_by_child'
                          /\ received_by_child' = 1 + pending["parent"][user_signal]
                                                  + received_by_parent
                          /\ sent_to_child <= received_by_parent
        BY <1>1, <1>2, <3>4 DEF Balance, Sent
      <4>1. /\ Sent = pending["child"][user_signal] + 1 + received_by_child
            /\ received_by_child = 0 + pending["parent"][user_signal] + received_by_parent
            /\ sent_to_child <= received_by_parent
        BY <2>5, <3>4 DEF IInv, Balance
      <4>2. PICK p \in Nat, q \in Nat, r \in Nat, s \in Nat :
              /\ p = pending["child"][user_signal] /\ q = pending["parent"][user_signal]
              /\ r = received_by_child /\ s = received_by_parent
        BY <1>2, <1>3 DEF TypeOK
      <4>3. p + 1 + r = p + 0 + (r + 1) /\ (r = 0 + q + s => r + 1 = 1 + q + s)
        OBVIOUS
      <4> QED BY <2>1, <4>1, <4>2, <4>3
    <3> QED BY <2>2, <2>3, <3>2, <3>3, <3>5 DEF IInv
  <2> QED BY <2>4, <2>5
<1>7. CASE last.sig \notin counted_signals
  <2>1. /\ frames' \in Seq(Frames) /\ Len(frames') = n - 1
        /\ \A i \in 1..n : i # n => i \in 1..Len(frames') /\ frames'[i] = frames[i]
        /\ received_by_child' = received_by_child
    BY <1>1, <1>3, <1>7, Popped
  <2>2. TypeOK'
    BY <1>1, <1>3, <2>1 DEF TypeOK
  <2>3. ~Together
    BY <1>1, <1>5, <1>7 DEF IInv, OneSignal, Together, Sending
  <2>4. ~Together'
    BY <1>1, <2>3 DEF Together, Sending
  <2>5. ParentInv'
    <3>1. parent = "waitpid" => \A i \in 1..n : frames[i].sig = last_signal => i # n
      BY <1>5, <1>7
    <3> QED BY <1>1, <1>2, <2>1, <3>1 DEF IInv, ParentInv, Sending, child_ended
  <2> QED BY <2>2, <2>4, <2>5 DEF IInv, OneSignal, StartInv, Balance
<1> QED BY <1>6, <1>7

LEMMA HandlerAnswersPreserves == ASSUME IInv, HandlerAnswers PROVE IInv'
<1> DEFINE n == Len(frames)  last == frames[n]
<1>1. /\ child = "loop" /\ frames # <<>> /\ last.counted
      /\ \/ /\ last.sig \in {SIGUSR1, SIGRTMIN}
            /\ IF parent_ended THEN pending' = pending ELSE queued("parent", last.sig)
            /\ frames' = Front(frames) /\ child' = child
         \/ /\ child' = "exited" /\ UNCHANGED <<pending, frames>>
      /\ UNCHANGED <<TYPE, parent, sent_to_child, received_by_child, received_by_parent,
                     interrupted>>
  BY DEF HandlerAnswers, Last, counts
<1>2. /\ user_signal' = user_signal /\ last_signal' = last_signal
      /\ user_signal \in Signals /\ last_signal \in Signals
  BY <1>1, TypeKept, TheSignals
<1>3. TypeOK /\ frames \in Seq(Frames)
  BY DEF IInv, TypeOK
<1>4. n \in Nat \ {0} /\ n \in 1..n /\ last \in Frames /\ last.sig \in Signals
  <2>1. n \in Nat \ {0} /\ n \in 1..n /\ last \in Frames
    BY <1>1, <1>3, EmptySeq
  <2> HIDE DEF last
  <2>2. last.sig \in Signals
    BY <2>1 DEF Frames
  <2> QED BY <2>1, <2>2
<1>5. CASE child' = "exited" /\ UNCHANGED <<pending, frames>>
  <2>1. TypeOK'
    BY <1>1, <1>3, <1>5 DEF TypeOK
  <2>2. ~Together' /\ child_ended' /\ (Sending' <=> Sending)
    BY <1>1, <1>5 DEF Together, Sending, child_ended
  <2> QED BY <1>1, <1>5, <2>1, <2>2, Parted DEF IInv, ParentInv
<1>6. CASE /\ last.sig \in {SIGUSR1, SIGRTMIN}
           /\ IF parent_ended THEN pending' = pending ELSE queued("parent", last.sig)
           /\ frames' = Front(frames) /\ child' = child
  <2>1. /\ frames' \in Seq(Frames) /\ Len(frames') = n - 1
        /\ \A i \in 1..n : i # n => i \in 1..Len(frames') /\ frames'[i] = frames[i]
    BY <1>1, <1>3, <1>6, Popped
  <2>2. /\ pending' \in [{"parent", "child"} -> [Signals -> Nat]]
        /\ ~parent_ended => pending'["parent"][last.sig] =
             IF last.sig \in Standard THEN 1 ELSE pending["parent"][last.sig] + 1
        /\ \A s \in Signals :
             /\ s # last.sig => pending'["parent"][s] = pending["parent"][s]
             /\ pending'["child"][s] = pending["child"][s]
    <3>1. CASE parent_ended
      BY <1>3, <1>6, <3>1 DEF TypeOK
    <3>2. CASE ~parent_ended
      BY <1>3, <1>4, <1>6, <3>2, Queued
    <3> QED BY <3>1, <3>2
  <2>3. TypeOK'
    BY <1>1, <1>3, <1>6, <2>1, <2>2 DEF TypeOK
  <2>4. ParentInv'
    <3>1. \A i \in 1..n : frames[i].sig = last_signal => i # n
      BY <1>6, TheSignals, Numbers
    <3>2. pending'["child"][last_signal] = pending["child"][last_signal]
      BY <1>2, <2>2
    <3> QED BY <1>1, <1>2, <1>6, <2>1, <3>1, <3>2 DEF IInv, ParentInv, Sending, child_ended
  <2>5. CASE ~Together
    <3>1. ~Together'
      BY <1>1, <1>6, <2>5 DEF Together, Sending
    <3> QED BY <2>3, <2>4, <3>1 DEF IInv, OneSignal, StartInv, Balance
  <2>6. CASE Together
    <3>1. n = 1 /\ last.sig = user_signal /\ ~AtRest /\ ~parent_ended
      BY <1>1, <2>6 DEF IInv, OneSignal, AtRest, Together, Sending, parent_ended
    <3>2. frames' = <<>>
      BY <2>1, <3>1, EmptySeq
    <3>3. OneSignal'
      BY <1>2, <2>2, <2>6, <3>1, <3>2 DEF IInv, OneSignal
    <3>4. StartInv'
      BY <1>1, <1>6, <2>6, <3>1 DEF IInv, StartInv, Together, Sending
    <3>5. /\ InHandler(FALSE) = 0 /\ InHandler(TRUE) = 1
          /\ InHandler(FALSE)' = 0 /\ InHandler(TRUE)' = 0
      BY <1>1, <1>4, <3>1, <3>2 DEF InHandler, Frames
    <3>6. TYPE = 2 => pending'["parent"][user_signal] = pending["parent"][user_signal] + 1
      <4> SUFFICES ASSUME TYPE = 2
                   PROVE  pending'["parent"][user_signal] = pending["parent"][user_signal] + 1
        OBVIOUS
      <4>1. pending["parent"][user_signal] = 0
        BY <2>6, <3>5, Books
      <4>2. user_signal \in Standard
        BY TheSignals, Numbers
      <4> QED BY <2>2, <3>1, <4>1, <4>2
    <3>7. Balance'
      <4> SUFFICES ASSUME TYPE = 2
                   PROVE  /\ Sent = pending["child"][user_signal] + 0 + received_by_child
                          /\ received_by_child = 0 + (pending["parent"][user_signal] + 1)
                                                 + received_by_parent
                          /\ sent_to_child <= received_by_parent
        BY <1>1, <1>2, <2>2, <3>5, <3>6 DEF Balance, Sent
      <4>1. /\ Sent = pending["child"][user_signal] + 0 + received_by_child
            /\ received_by_child = 1 + pending["parent"][user_signal] + received_by_parent
            /\ sent_to_child <= received_by_parent
        BY <2>6, <3>5 DEF IInv, Balance
      <4>2. PICK q \in Nat, s \in Nat :
              q = pending["parent"][user_signal] /\ s = received_by_parent
        BY <1>2, <1>3 DEF TypeOK
      <4>3. 1 + q + s = 0 + (q + 1) + s
        OBVIOUS
      <4> QED BY <4>1, <4>2, <4>3
    <3> QED BY <2>3, <2>4, <3>3, <3>4, <3>7 DEF IInv
  <2> QED BY <2>5, <2>6
<1> QED BY <1>1, <1>5, <1>6

LEMMA StutterPreserves == ASSUME IInv, UNCHANGED vars PROVE IInv'
<1>1. UNCHANGED <<TYPE, parent, child, pending, frames, sent_to_child,
                  received_by_child, received_by_parent, interrupted>>
  BY DEF vars, counts
<1>2. /\ user_signal' = user_signal /\ last_signal' = last_signal
      /\ (Sending' <=> Sending) /\ (Together' <=> Together) /\ (AtRest' <=> AtRest)
      /\ Sent' = Sent /\ (child_ended' <=> child_ended)
  BY <1>1, TypeKept DEF Sending, Together, AtRest, Sent, child_ended
<1>3. InHandler(FALSE)' = InHandler(FALSE) /\ InHandler(TRUE)' = InHandler(TRUE)
  BY <1>1 DEF InHandler
<1>4. TypeOK' /\ ParentInv'
  BY <1>1, <1>2 DEF IInv, TypeOK, ParentInv
<1>5. OneSignal' /\ StartInv' /\ Balance'
  BY <1>1, <1>2, <1>3 DEF IInv, OneSignal, StartInv, Balance
<1> QED BY <1>4, <1>5 DEF IInv

LEMMA NextPreserves == IInv /\ [Next]_vars => IInv'
<1> SUFFICES ASSUME IInv, [Next]_vars PROVE IInv'
  OBVIOUS
<1>1. CASE SetHandlers
  BY <1>1, SetHandlersPreserves
<1>2. CASE SendSignal
  BY <1>2, SendSignalPreserves
<1>3. CASE SendLast
  BY <1>3, SendLastPreserves
<1>4. CASE WaitChild
  BY <1>4, WaitChildPreserves
<1>5. CASE parent_handler
  BY <1>5, ParentHandlerPreserves
<1>6. CASE ExitHandler
  BY <1>6, ExitHandlerPreserves
<1>7. CASE SetChildHandlers
  BY <1>7, SetChildHandlersPreserves
<1>8. CASE Deliver
  BY <1>8, DeliverPreserves
<1>9. CASE HandlerCounts
  BY <1>9, HandlerCountsPreserves
<1>10. CASE HandlerAnswers
  BY <1>10, HandlerAnswersPreserves
<1>11. CASE ParentInterrupted
  BY <1>11, ParentInterruptedPreserves
<1>12. CASE ChildInterrupted
  BY <1>12, ChildInterruptedPreserves
<1>13. CASE UNCHANGED vars
  BY <1>13, StutterPreserves
<1> QED
  BY <1>1, <1>2, <1>3, <1>4, <1>5, <1>6, <1>7, <1>8, <1>9, <1>10, <1>11, <1>12, <1>13
  DEF Next, ParentStep, ChildStep

-------------------------------------------------------------------------------
(* The books of TYPE 3, on top of IInv: the last signal is sent once and    *)
(* after all others, so it finds the child's handler of SIGRTMIN running   *)
(* or nothing of SIGRTMIN left; its own handler is never below that one.   *)

Once(s) == \A i, j \in 1..Len(s) : s[i].sig = s[j].sig => i = j

Below(s) ==
  \A i, j \in 1..Len(s) : s[i].sig = SIGRTMAX /\ s[j].sig = SIGRTMIN => j < i

Entered(s, sig) ==
  IF \E i \in 1..Len(s) : s[i].sig = sig /\ s[i].counted = FALSE THEN 1 ELSE 0
Counted(s, sig) ==
  IF \E i \in 1..Len(s) : s[i].sig = sig /\ s[i].counted = TRUE THEN 1 ELSE 0

MinEntered == in_handler(SIGRTMIN, FALSE)
MinCounted == in_handler(SIGRTMIN, TRUE)
MaxEntered == in_handler(SIGRTMAX, FALSE)
MaxCounted == in_handler(SIGRTMAX, TRUE)

Lasts ==
  pending["child"][SIGRTMAX] + MaxEntered + MaxCounted

SentLast == Lasts \in {0, 1} /\ (Lasts = 1 => sent_to_child = L + 1)

NoUsr1 ==
  /\ pending["child"][SIGUSR1] = 0 /\ pending["parent"][SIGUSR1] = 0
  /\ \A i \in 1..Len(frames) : frames[i].sig # SIGUSR1

LastComesLast ==
  /\ Below(frames)
  /\ MaxEntered = 1 \/ MaxCounted = 1 =>
       pending["child"][SIGRTMIN] = 0 \/ SIGRTMIN \in handling

WhileRunning ==
  child = "loop" /\ ~parent_ended =>
    /\ sent_to_child = pending["child"][SIGRTMIN] + pending["child"][SIGRTMAX]
         + MinEntered + MaxEntered
         + received_by_child
    /\ received_by_child = MinCounted + MaxCounted
         + pending["parent"][SIGRTMIN] + received_by_parent

AtExit ==
  MaxCounted = 1 =>
    L = received_by_parent + pending["parent"][SIGRTMIN]
        + MinCounted + MinEntered
        + pending["child"][SIGRTMIN]

Accounts ==
  /\ Once(frames)
  /\ parent = "interrupt" => child # "start"
  /\ TYPE = 3 => SentLast /\ NoUsr1 /\ LastComesLast /\ WhileRunning /\ AtExit

LEMMA InHandler3 ==
  ASSUME NEW s \in Seq(Frames), NEW sig \in Signals
  PROVE  /\ (IF [sig |-> sig, counted |-> FALSE] \in ToSet(s) THEN 1 ELSE 0) = Entered(s, sig)
         /\ (IF [sig |-> sig, counted |-> TRUE] \in ToSet(s) THEN 1 ELSE 0) = Counted(s, sig)
<1>1. DOMAIN s = 1..Len(s) /\ \A i \in 1..Len(s) : s[i] \in Frames
  OBVIOUS
<1>2. ASSUME NEW counted \in BOOLEAN
      PROVE  [sig |-> sig, counted |-> counted] \in ToSet(s)
               <=> \E i \in 1..Len(s) : s[i].sig = sig /\ s[i].counted = counted
  <2> DEFINE f == [sig |-> sig, counted |-> counted]
  <2>1. \A i \in 1..Len(s) : s[i] = f <=> s[i].sig = sig /\ s[i].counted = counted
    BY <1>1 DEF Frames
  <2>2. f \in ToSet(s) <=> \E i \in 1..Len(s) : s[i] = f
    BY <1>1 DEF ToSet
  <2> QED BY <2>1, <2>2
<1> QED BY <1>2 DEF Entered, Counted

LEMMA FlagsNow ==
  ASSUME TypeOK
  PROVE  /\ MinEntered = Entered(frames, SIGRTMIN)
         /\ MinCounted = Counted(frames, SIGRTMIN)
         /\ MaxEntered = Entered(frames, SIGRTMAX)
         /\ MaxCounted = Counted(frames, SIGRTMAX)
BY InHandler3, Numbers
DEF TypeOK, in_handler, MinEntered, MinCounted, MaxEntered, MaxCounted

LEMMA FlagsNext ==
  ASSUME TypeOK'
  PROVE  /\ MinEntered' = Entered(frames', SIGRTMIN)
         /\ MinCounted' = Counted(frames', SIGRTMIN)
         /\ MaxEntered' = Entered(frames', SIGRTMAX)
         /\ MaxCounted' = Counted(frames', SIGRTMAX)
<1>1. frames' \in Seq(Frames)
  BY DEF TypeOK
<1> QED BY <1>1, InHandler3, Numbers
        DEF in_handler, MinEntered, MinCounted, MaxEntered, MaxCounted

LEMMA FlagsStay ==
  ASSUME frames' = frames
  PROVE  /\ MinEntered' = MinEntered /\ MinCounted' = MinCounted
         /\ MaxEntered' = MaxEntered /\ MaxCounted' = MaxCounted
         /\ handling' = handling
BY DEF in_handler, handling, MinEntered, MinCounted, MaxEntered, MaxCounted

LEMMA HandledPushed ==
  ASSUME NEW s \in Seq(Frames), Once(s), NEW sig \in Signals,
         \A i \in 1..Len(s) : s[i].sig # sig,
         NEW f \in Frames, f.sig = sig, f.counted = FALSE, NEW t, t = Append(s, f)
  PROVE  /\ t \in Seq(Frames) /\ Once(t)
         /\ Entered(s, sig) = 0 /\ Counted(s, sig) = 0
         /\ Entered(t, sig) = 1 /\ Counted(t, sig) = 0
         /\ \A other \in Signals \ {sig} :
              Entered(t, other) = Entered(s, other) /\ Counted(t, other) = Counted(s, other)
         /\ Len(t) \in 1..Len(t) /\ t[Len(t)].sig = sig
         /\ \A i \in 1..Len(s) : i \in 1..Len(t) /\ t[i] = s[i]
         /\ \A i \in 1..Len(t) : t[i].sig = sig => i = Len(t)
         /\ \A i \in 1..Len(t) : t[i].sig # sig =>
              i \in 1..Len(s) /\ i < Len(t) /\ t[i] = s[i]
<1>1. f \in Frames /\ f.sig = sig /\ f.counted = FALSE
  OBVIOUS
<1>2. /\ t \in Seq(Frames) /\ Len(t) = Len(s) + 1 /\ Len(s) \in Nat
      /\ Len(t) \in 1..Len(t) /\ t[Len(t)] = f
      /\ \A i \in 1..Len(s) : i \in 1..Len(t) /\ t[i] = s[i]
  BY Pushed
<1>3. \A i \in 1..Len(t) : i # Len(t) => i \in 1..Len(s) /\ i < Len(t) /\ t[i] = s[i]
  BY <1>2
<1>4. \A i \in 1..Len(t) : t[i].sig = sig => i = Len(t)
  BY <1>3
<1>5. Once(t)
  <2> SUFFICES ASSUME NEW i \in 1..Len(t), NEW j \in 1..Len(t), t[i].sig = t[j].sig
               PROVE  i = j
    BY DEF Once
  <2>1. CASE t[i].sig = sig
    BY <1>4, <2>1
  <2>2. CASE t[i].sig # sig
    BY <1>1, <1>2, <1>3, <2>2 DEF Once
  <2> QED BY <2>1, <2>2
<1>6. Entered(s, sig) = 0 /\ Counted(s, sig) = 0
  BY DEF Entered, Counted
<1>7. Entered(t, sig) = 1 /\ Counted(t, sig) = 0
  BY <1>1, <1>2, <1>4 DEF Entered, Counted
<1>8. ASSUME NEW other \in Signals \ {sig}
      PROVE  Entered(t, other) = Entered(s, other) /\ Counted(t, other) = Counted(s, other)
  BY <1>1, <1>2, <1>3 DEF Entered, Counted
<1>9. \A i \in 1..Len(t) : t[i].sig # sig => i # Len(t)
  BY <1>1, <1>2
<1> QED BY <1>1, <1>2, <1>3, <1>4, <1>5, <1>6, <1>7, <1>8, <1>9

LEMMA HandledPopped ==
  ASSUME NEW s \in Seq(Frames), s # <<>>, Once(s), NEW t, t = Front(s)
  PROVE  /\ t \in Seq(Frames) /\ Once(t)
         /\ s[Len(s)].counted = FALSE => /\ Entered(s, s[Len(s)].sig) = 1
                                        /\ Counted(s, s[Len(s)].sig) = 0
         /\ s[Len(s)].counted # FALSE => /\ Entered(s, s[Len(s)].sig) = 0
                                       /\ Counted(s, s[Len(s)].sig) = 1
         /\ Entered(t, s[Len(s)].sig) = 0 /\ Counted(t, s[Len(s)].sig) = 0
         /\ \A other \in Signals \ {s[Len(s)].sig} :
              Entered(t, other) = Entered(s, other) /\ Counted(t, other) = Counted(s, other)
         /\ \A i \in 1..Len(t) : i \in 1..Len(s) /\ t[i] = s[i]
         /\ \A i \in 1..Len(s) : i # Len(s) => i \in 1..Len(t) /\ t[i] = s[i]
<1> DEFINE n == Len(s)  last == s[n]
<1>1. /\ n \in Nat \ {0} /\ n \in 1..n /\ last \in Frames
      /\ t \in Seq(Frames) /\ Len(t) = n - 1
      /\ \A i \in 1..n : i # n => i \in 1..Len(t) /\ t[i] = s[i]
  BY Popped
<1>2. \A i \in 1..Len(t) : i \in 1..n /\ i # n /\ t[i] = s[i]
  BY <1>1
<1>3. Once(t)
  BY <1>2 DEF Once
<1>4. \A i \in 1..n : s[i].sig = last.sig => i = n
  BY <1>1 DEF Once
<1>5. Entered(t, last.sig) = 0 /\ Counted(t, last.sig) = 0
  BY <1>2, <1>4 DEF Entered, Counted
<1>6. ASSUME NEW other \in Signals \ {last.sig}
      PROVE  Entered(t, other) = Entered(s, other) /\ Counted(t, other) = Counted(s, other)
  <2>1. \A i \in 1..n : s[i].sig = other => i # n
    OBVIOUS
  <2> QED BY <1>1, <1>2, <2>1 DEF Entered, Counted
<1>7. /\ last.counted = FALSE => Entered(s, last.sig) = 1 /\ Counted(s, last.sig) = 0
      /\ last.counted # FALSE => Entered(s, last.sig) = 0 /\ Counted(s, last.sig) = 1
  <2>1. last.counted \in BOOLEAN
    BY <1>1 DEF Frames
  <2> QED BY <1>1, <1>4, <2>1 DEF Entered, Counted
<1> QED BY <1>1, <1>2, <1>3, <1>5, <1>6, <1>7

LEMMA HandledCounted ==
  ASSUME NEW s \in Seq(Frames), s # <<>>, Once(s), s[Len(s)].counted = FALSE,
         NEW t \in Seq(Frames), Len(t) = Len(s), t[Len(s)].counted = TRUE,
         \A i \in 1..Len(s) : t[i].sig = s[i].sig,
         \A i \in 1..Len(s) : i # Len(s) => t[i] = s[i]
  PROVE  /\ Once(t)
         /\ Entered(s, s[Len(s)].sig) = 1 /\ Counted(s, s[Len(s)].sig) = 0
         /\ Entered(t, s[Len(s)].sig) = 0 /\ Counted(t, s[Len(s)].sig) = 1
         /\ \A other \in Signals \ {s[Len(s)].sig} :
              Entered(t, other) = Entered(s, other) /\ Counted(t, other) = Counted(s, other)
         /\ \A i \in 1..Len(s) : t[i].sig = s[i].sig
<1> DEFINE n == Len(s)  last == s[n]
<1>1. /\ n \in Nat \ {0} /\ n \in 1..n /\ last \in Frames /\ Len(t) = n
      /\ \A i \in 1..n : t[i].sig = s[i].sig
  BY EmptySeq
<1>2. \A i \in 1..n : i # n => t[i] = s[i]
  OBVIOUS
<1>3. \A i \in 1..n : s[i].sig = last.sig => i = n
  BY <1>1 DEF Once
<1>4. Once(t)
  BY <1>1 DEF Once
<1>5. /\ Entered(s, last.sig) = 1 /\ Counted(s, last.sig) = 0
      /\ Entered(t, last.sig) = 0 /\ Counted(t, last.sig) = 1
  BY <1>1, <1>3 DEF Entered, Counted
<1>6. ASSUME NEW other \in Signals \ {last.sig}
      PROVE  Entered(t, other) = Entered(s, other) /\ Counted(t, other) = Counted(s, other)
  <2>1. \A i \in 1..n : s[i].sig = other => i # n
    OBVIOUS
  <2>2. ASSUME NEW i \in 1..n
        PROVE  /\ t[i].sig = s[i].sig
               /\ s[i].sig = other => t[i].counted = s[i].counted
    <3>1. t[i].sig = s[i].sig
      BY <1>1
    <3>2. CASE i = n
      BY <2>1, <3>1, <3>2
    <3>3. CASE i # n
      BY <1>2, <3>3
    <3> QED BY <3>1, <3>2, <3>3
  <2>3. Len(t) = n
    BY <1>1
  <2> HIDE DEF n, last
  <2>4. Len(s) = n
    BY DEF n
  <2> QED BY <2>2, <2>3, <2>4 DEF Entered, Counted
<1> QED BY <1>1, <1>4, <1>5, <1>6

(* What the parts of Accounts speak of. *)
LEMMA AccountTypes ==
  ASSUME TypeOK
  PROVE  /\ pending["child"][SIGRTMIN] \in Nat /\ pending["child"][SIGRTMAX] \in Nat
         /\ pending["parent"][SIGRTMIN] \in Nat
         /\ MinEntered \in {0, 1} /\ MinCounted \in {0, 1}
         /\ MaxEntered \in {0, 1} /\ MaxCounted \in {0, 1}
         /\ sent_to_child \in Nat /\ received_by_child \in Nat /\ received_by_parent \in Nat
         /\ L \in Nat
<1>1. /\ MinEntered \in {0, 1} /\ MinCounted \in {0, 1}
      /\ MaxEntered \in {0, 1} /\ MaxCounted \in {0, 1}
  BY FlagsNow DEF Entered, Counted
<1>2. SIGRTMIN \in Signals /\ SIGRTMAX \in Signals
  BY Numbers
<1>3. /\ sent_to_child \in Nat /\ received_by_child \in Nat /\ received_by_parent \in Nat
      /\ L \in Nat
  BY Numbers DEF TypeOK
<1> QED BY <1>1, <1>2, <1>3 DEF TypeOK

(* Steps that leave the child's handlers and the signals of TYPE 3 alone.  *)
LEMMA AccountsStay ==
  ASSUME TypeOK, TypeOK', Accounts,
         UNCHANGED <<TYPE, frames, sent_to_child, received_by_child, received_by_parent>>,
         \A sig \in {SIGUSR1, SIGRTMIN, SIGRTMAX} :
           /\ pending'["child"][sig] = pending["child"][sig]
           /\ pending'["parent"][sig] = pending["parent"][sig],
         parent' = "interrupt" => child' # "start",
         TYPE = 3 /\ child' = "loop" /\ ~parent_ended' => child = "loop" /\ ~parent_ended
  PROVE  Accounts'
<1>1. /\ MinEntered' = MinEntered /\ MinCounted' = MinCounted
      /\ MaxEntered' = MaxEntered /\ MaxCounted' = MaxCounted
      /\ handling' = handling
  BY FlagsStay
<1>2. SIGRTMIN \in Signals /\ SIGRTMAX \in Signals
  BY Numbers
<1>3. (SentLast => SentLast') /\ (NoUsr1 => NoUsr1')
  BY <1>1, <1>2 DEF SentLast, Lasts, NoUsr1
<1>4. (LastComesLast => LastComesLast') /\ (AtExit => AtExit')
  BY <1>1, <1>2 DEF LastComesLast, AtExit
<1>5. TYPE = 3 /\ WhileRunning => WhileRunning'
  BY <1>1, <1>2 DEF WhileRunning
<1> QED BY <1>3, <1>4, <1>5 DEF Accounts

LEMMA InitAccounts == Init => Accounts
<1> SUFFICES ASSUME Init PROVE Accounts
  OBVIOUS
<1>1. /\ TypeOK /\ frames = <<>> /\ Len(frames) = 0 /\ child = "start" /\ parent = "sleep"
      /\ \A p \in {"parent", "child"}, sig \in Signals : pending[p][sig] = 0
  BY InitEstablishes DEF Init, IInv
<1>2. MinEntered = 0 /\ MinCounted = 0 /\ MaxEntered = 0 /\ MaxCounted = 0
  BY <1>1, FlagsNow DEF Entered, Counted
<1>3. SIGRTMIN \in Signals /\ SIGRTMAX \in Signals /\ SIGUSR1 \in Signals
  BY Numbers
<1> QED BY <1>1, <1>2, <1>3
        DEF Accounts, Once, SentLast, Lasts, NoUsr1, LastComesLast, Below, WhileRunning, AtExit

LEMMA SetHandlersAccounts == ASSUME IInv, IInv', Accounts, SetHandlers PROVE Accounts'
<1>1. /\ parent = "sleep" /\ parent' = "loop"
      /\ UNCHANGED <<TYPE, child, pending, frames, sent_to_child, received_by_child,
                     received_by_parent>>
  BY DEF SetHandlers, counts
<1> QED BY <1>1, AccountsStay DEF IInv, parent_ended

LEMMA WaitChildAccounts == ASSUME IInv, IInv', Accounts, WaitChild PROVE Accounts'
<1>1. /\ child_ended /\ parent' \in {"reaped", "failed"}
      /\ UNCHANGED <<TYPE, child, pending, frames, sent_to_child, received_by_child,
                     received_by_parent>>
  BY DEF WaitChild, counts
<1> QED BY <1>1, AccountsStay DEF IInv, parent_ended

LEMMA ExitHandlerAccounts == ASSUME IInv, IInv', Accounts, ExitHandler PROVE Accounts'
<1>1. /\ parent' = "exit9"
      /\ UNCHANGED <<TYPE, child, pending, frames, sent_to_child, received_by_child,
                     received_by_parent>>
  BY DEF ExitHandler, counts
<1> QED BY <1>1, AccountsStay DEF IInv, parent_ended

LEMMA ChildInterruptedAccounts ==
  ASSUME IInv, IInv', Accounts, ChildInterrupted PROVE Accounts'
<1>1. /\ child' \in {"exited", "killed"}
      /\ UNCHANGED <<TYPE, parent, pending, frames, sent_to_child, received_by_child,
                     received_by_parent>>
  BY DEF ChildInterrupted, counts
<1> QED BY <1>1, AccountsStay DEF IInv

LEMMA StutterAccounts == ASSUME IInv, IInv', Accounts, UNCHANGED vars PROVE Accounts'
<1>1. UNCHANGED <<TYPE, parent, child, pending, frames, sent_to_child, received_by_child,
                  received_by_parent>>
  BY DEF vars, counts
<1> QED BY <1>1, AccountsStay DEF IInv, Accounts, parent_ended

(* The child's SIGUSR2 is not in the books; without handlers it dies of it. *)
LEMMA ParentInterruptedAccounts ==
  ASSUME IInv, IInv', Accounts, ParentInterrupted PROVE Accounts'
<1>1. /\ ~parent_ended
      /\ \/ parent' = "killed" /\ child' = child /\ pending' = pending
         \/ /\ parent' = "interrupt"
            /\ child' = IF child = "start" THEN "killed" ELSE child
            /\ pending' = pending \/ queued("child", SIGUSR2)
      /\ UNCHANGED <<TYPE, frames, sent_to_child, received_by_child, received_by_parent>>
  BY DEF ParentInterrupted, kill_child, counts
<1>2. \A sig \in {SIGUSR1, SIGRTMIN, SIGRTMAX} :
        /\ pending'["child"][sig] = pending["child"][sig]
        /\ pending'["parent"][sig] = pending["parent"][sig]
  <2>1. CASE pending' = pending
    BY <2>1
  <2>2. CASE queued("child", SIGUSR2)
    BY <2>2, Queued, Numbers DEF IInv
  <2> QED BY <1>1, <2>1, <2>2
<1> QED BY <1>1, <1>2, AccountsStay DEF IInv, parent_ended

(* The books are opened at rest. *)
LEMMA SetChildHandlersAccounts ==
  ASSUME IInv, IInv', Accounts, SetChildHandlers PROVE Accounts'
<1>1. /\ child = "start" /\ child' = "loop"
      /\ UNCHANGED <<TYPE, parent, pending, frames, sent_to_child, received_by_child,
                     received_by_parent>>
  BY DEF SetChildHandlers, counts
<1>2. /\ MinEntered' = MinEntered /\ MinCounted' = MinCounted
      /\ MaxEntered' = MaxEntered /\ MaxCounted' = MaxCounted
      /\ handling' = handling
  BY <1>1, FlagsStay
<1>3. SIGRTMIN \in Signals /\ SIGRTMAX \in Signals
  BY Numbers
<1>4. WhileRunning'
  <2> SUFFICES ASSUME ~parent_ended' PROVE WhileRunning'
    BY DEF WhileRunning
  <2>1. parent \in {"sleep", "loop", "suspend"}
    BY <1>1 DEF IInv, TypeOK, ParentInv, Accounts, parent_ended
  <2>2. AtRest
    BY <1>1, <2>1 DEF IInv, StartInv, Together, Sending
  <2>3. MinEntered = 0 /\ MinCounted = 0 /\ MaxEntered = 0 /\ MaxCounted = 0
    BY <2>2, FlagsNow DEF AtRest, Entered, Counted, IInv
  <2> QED BY <1>1, <1>2, <1>3, <2>2, <2>3 DEF WhileRunning, AtRest
<1>5. SentLast => SentLast'
  BY <1>1, <1>2, <1>3 DEF SentLast, Lasts
<1>6. NoUsr1 => NoUsr1'
  BY <1>1 DEF NoUsr1
<1>7. (LastComesLast => LastComesLast') /\ (AtExit => AtExit')
  BY <1>1, <1>2, <1>3 DEF LastComesLast, AtExit
<1> QED BY <1>1, <1>4, <1>5, <1>6, <1>7 DEF Accounts

LEMMA SendSignalAccounts == ASSUME IInv, IInv', Accounts, SendSignal PROVE Accounts'
<1>1. /\ parent = "loop" /\ sent_to_child < L
      /\ child' = IF child = "start" THEN "killed" ELSE child
      /\ child = "loop" => queued("child", user_signal)
      /\ child # "loop" => pending' = pending
      /\ TYPE # 2 => parent' = "loop" /\ sent_to_child' = sent_to_child + 1
      /\ parent' \in {"suspend", "loop"}
      /\ UNCHANGED <<TYPE, frames, received_by_child, received_by_parent>>
  BY DEF SendSignal, kill_child, waits_for_answer
<1>2. /\ MinEntered' = MinEntered /\ MinCounted' = MinCounted
      /\ MaxEntered' = MaxEntered /\ MaxCounted' = MaxCounted
      /\ handling' = handling
  BY <1>1, FlagsStay
<1>3. SIGRTMIN \in Signals /\ SIGRTMAX \in Signals /\ SIGUSR1 \in Signals
  BY Numbers
<1>4. Once(frames)' /\ (parent' = "interrupt" => child' # "start")
  BY <1>1 DEF Accounts
<1>5. ASSUME TYPE = 3
      PROVE  (SentLast /\ NoUsr1 /\ LastComesLast /\ WhileRunning /\ AtExit)'
  <2>1. /\ pending'["child"][SIGRTMIN] =
             pending["child"][SIGRTMIN] + (IF child = "loop" THEN 1 ELSE 0)
        /\ pending'["parent"][SIGRTMIN] = pending["parent"][SIGRTMIN]
        /\ \A sig \in {SIGUSR1, SIGRTMAX} :
             /\ pending'["child"][sig] = pending["child"][sig]
             /\ pending'["parent"][sig] = pending["parent"][sig]
    <3>1. pending["child"][SIGRTMIN] \in Nat
      BY <1>3, AccountTypes DEF IInv
    <3>2. CASE child = "loop"
      BY <1>1, <1>3, <1>5, <3>1, <3>2, Queued, TheSignals, Numbers DEF IInv
    <3>3. CASE child # "loop"
      BY <1>1, <3>1, <3>3
    <3> QED BY <3>2, <3>3
  <2>2. Lasts = 0 /\ MaxEntered = 0 /\ MaxCounted = 0
    <3>1. /\ MaxEntered \in {0, 1} /\ MaxCounted \in {0, 1}
          /\ pending["child"][SIGRTMAX] \in Nat /\ L \in Nat /\ sent_to_child \in Nat
      BY AccountTypes DEF IInv
    <3>2. Lasts = 0
      BY <1>1, <1>5, <3>1 DEF Accounts, SentLast
    <3> QED BY <3>1, <3>2 DEF Lasts
  <2>3. SentLast'
    BY <1>2, <1>3, <2>1, <2>2 DEF SentLast, Lasts
  <2>4. NoUsr1'
    BY <1>1, <1>5, <2>1 DEF Accounts, NoUsr1
  <2>5. LastComesLast' /\ AtExit'
    BY <1>1, <1>2, <1>3, <1>5, <2>2 DEF Accounts, LastComesLast, AtExit
  <2>6. WhileRunning'
    <3> SUFFICES ASSUME child' = "loop", ~parent_ended' PROVE WhileRunning'
      BY DEF WhileRunning
    <3>1. child = "loop" /\ ~parent_ended
      BY <1>1 DEF parent_ended
    <3>2. WhileRunning
      BY <1>5 DEF Accounts
    <3>3. /\ pending["child"][SIGRTMIN] \in Nat /\ pending["child"][SIGRTMAX] \in Nat
          /\ MinEntered \in {0, 1} /\ MaxEntered \in {0, 1}
          /\ received_by_child \in Nat /\ sent_to_child \in Nat
      BY <1>3, AccountTypes DEF IInv
    <3> QED BY <1>1, <1>2, <1>3, <1>5, <2>1, <3>1, <3>2, <3>3 DEF WhileRunning
  <2> QED BY <2>3, <2>4, <2>5, <2>6
<1> QED BY <1>1, <1>4, <1>5 DEF Accounts

LEMMA SendLastAccounts == ASSUME IInv, IInv', Accounts, SendLast PROVE Accounts'
<1>1. /\ parent = "loop" /\ sent_to_child = L /\ parent' = "waitpid"
      /\ child' = IF child = "start" THEN "killed" ELSE child
      /\ child = "loop" => queued("child", last_signal)
      /\ child # "loop" => pending' = pending
      /\ TYPE = 3 => sent_to_child' = sent_to_child + 1
      /\ UNCHANGED <<TYPE, frames, received_by_child, received_by_parent>>
  BY DEF SendLast, kill_child
<1>2. /\ MinEntered' = MinEntered /\ MinCounted' = MinCounted
      /\ MaxEntered' = MaxEntered /\ MaxCounted' = MaxCounted
      /\ handling' = handling
  BY <1>1, FlagsStay
<1>3. SIGRTMIN \in Signals /\ SIGRTMAX \in Signals /\ SIGUSR1 \in Signals
  BY Numbers
<1>4. Once(frames)' /\ (parent' = "interrupt" => child' # "start")
  BY <1>1 DEF Accounts
<1>5. ASSUME TYPE = 3
      PROVE  (SentLast /\ NoUsr1 /\ LastComesLast /\ WhileRunning /\ AtExit)'
  <2>1. /\ pending'["child"][SIGRTMAX] =
             pending["child"][SIGRTMAX] + (IF child = "loop" THEN 1 ELSE 0)
        /\ \A sig \in {SIGUSR1, SIGRTMIN} :
             /\ pending'["child"][sig] = pending["child"][sig]
             /\ pending'["parent"][sig] = pending["parent"][sig]
    <3>1. pending["child"][SIGRTMAX] \in Nat
      BY <1>3, AccountTypes DEF IInv
    <3>2. CASE child = "loop"
      BY <1>1, <1>3, <1>5, <3>1, <3>2, Queued, TheSignals, Numbers DEF IInv
    <3>3. CASE child # "loop"
      BY <1>1, <3>1, <3>3
    <3> QED BY <3>2, <3>3
  <2>2. /\ pending["child"][SIGRTMAX] = 0
        /\ MaxEntered = 0 /\ MaxCounted = 0
    <3>1. /\ MaxEntered \in {0, 1} /\ MaxCounted \in {0, 1}
          /\ pending["child"][SIGRTMAX] \in Nat /\ L \in Nat /\ sent_to_child \in Nat
      BY AccountTypes DEF IInv
    <3>2. Lasts = 0
      BY <1>1, <1>5, <3>1 DEF Accounts, SentLast
    <3> QED BY <3>1, <3>2 DEF Lasts
  <2>3. SentLast'
    BY <1>1, <1>2, <1>3, <1>5, <2>1, <2>2 DEF SentLast, Lasts
  <2>4. NoUsr1'
    BY <1>1, <1>5, <2>1 DEF Accounts, NoUsr1
  <2>5. LastComesLast' /\ AtExit'
    BY <1>1, <1>2, <1>3, <1>5, <2>2 DEF Accounts, LastComesLast, AtExit
  <2>6. WhileRunning'
    <3> SUFFICES ASSUME child' = "loop" PROVE WhileRunning'
      BY DEF WhileRunning
    <3>1. child = "loop" /\ ~parent_ended
      BY <1>1 DEF parent_ended
    <3>2. WhileRunning
      BY <1>5 DEF Accounts
    <3>3. /\ pending["child"][SIGRTMIN] \in Nat /\ pending["child"][SIGRTMAX] \in Nat
          /\ MinEntered \in {0, 1} /\ MaxEntered \in {0, 1}
          /\ received_by_child \in Nat /\ sent_to_child \in Nat
      BY <1>3, AccountTypes DEF IInv
    <3> QED BY <1>1, <1>2, <1>3, <1>5, <2>1, <3>1, <3>2, <3>3 DEF WhileRunning
  <2> QED BY <2>3, <2>4, <2>5, <2>6
<1> QED BY <1>1, <1>4, <1>5 DEF Accounts

(* An answer moves from the parent's pending signals to its count. *)
LEMMA ParentHandlerAccounts == ASSUME IInv, IInv', Accounts, parent_handler PROVE Accounts'
<1>1. PICK sig \in {SIGUSR1, SIGRTMIN} :
        /\ parent \in {"loop", "suspend", "waitpid", "interrupt"}
        /\ pending["parent"][sig] > 0
        /\ pending' = [pending EXCEPT !["parent"][sig] = pending["parent"][sig] - 1]
        /\ received_by_parent' = received_by_parent + 1
        /\ \/ parent' = parent /\ sent_to_child' = sent_to_child
           \/ parent' = "loop" /\ sig = SIGUSR1
           \/ parent' = "hasty" /\ sent_to_child' = sent_to_child
        /\ UNCHANGED <<TYPE, child, frames, received_by_child>>
  BY DEF parent_handler
<1>2. /\ MinEntered' = MinEntered /\ MinCounted' = MinCounted
      /\ MaxEntered' = MaxEntered /\ MaxCounted' = MaxCounted
      /\ handling' = handling
  BY <1>1, FlagsStay
<1>3. SIGRTMIN \in Signals /\ SIGRTMAX \in Signals /\ SIGUSR1 \in Signals
      /\ SIGUSR1 # SIGRTMIN
  BY Numbers
<1>4. Once(frames)' /\ (parent' = "interrupt" => child' # "start")
  BY <1>1 DEF Accounts
<1>5. ASSUME TYPE = 3
      PROVE  (SentLast /\ NoUsr1 /\ LastComesLast /\ WhileRunning /\ AtExit)'
  <2>1. sig = SIGRTMIN
    BY <1>1, <1>5 DEF Accounts, NoUsr1
  <2>2. /\ pending'["parent"][SIGRTMIN] = pending["parent"][SIGRTMIN] - 1
        /\ pending'["parent"][SIGUSR1] = pending["parent"][SIGUSR1]
        /\ \A s \in Signals : pending'["child"][s] = pending["child"][s]
        /\ sent_to_child' = sent_to_child
    BY <1>1, <1>3, <2>1, Taken DEF IInv
  <2>3. SentLast' /\ NoUsr1' /\ LastComesLast'
    BY <1>1, <1>2, <1>3, <1>5, <2>2 DEF Accounts, SentLast, Lasts, NoUsr1, LastComesLast
  <2>4. /\ pending["parent"][SIGRTMIN] \in Nat /\ received_by_parent \in Nat
        /\ pending["child"][SIGRTMIN] \in Nat
        /\ MinEntered \in {0, 1} /\ MinCounted \in {0, 1} /\ MaxCounted \in {0, 1}
    BY AccountTypes DEF IInv
  <2>5. AtExit'
    BY <1>1, <1>2, <1>3, <1>5, <2>2, <2>4 DEF Accounts, AtExit
  <2>6. WhileRunning'
    <3>1. ~parent_ended' => ~parent_ended
      BY <1>1 DEF parent_ended
    <3>2. WhileRunning
      BY <1>5 DEF Accounts
    <3>3. received_by_parent' = received_by_parent + 1 /\ received_by_child' = received_by_child
          /\ child' = child
      BY <1>1
    <3>4. MinCounted + MaxCounted + (pending["parent"][SIGRTMIN] - 1) + (received_by_parent + 1)
            = MinCounted + MaxCounted + pending["parent"][SIGRTMIN] + received_by_parent
      BY <2>4
    <3> QED BY <1>2, <1>3, <2>2, <3>1, <3>2, <3>3, <3>4 DEF WhileRunning
  <2> QED BY <2>3, <2>5, <2>6
<1> QED BY <1>1, <1>4, <1>5 DEF Accounts

LEMMA MaxFlags ==
  ASSUME TypeOK, NEW i \in 1..Len(frames), frames[i].sig = SIGRTMAX
  PROVE  MaxEntered = 1 \/ MaxCounted = 1
<1>1. frames[i] \in Frames
  BY DEF TypeOK
<1>2. frames[i].counted \in BOOLEAN
  BY <1>1 DEF Frames
<1> QED BY <1>2, FlagsNow DEF Entered, Counted

(* The lowest pending signal goes first: SIGRTMAX only when no SIGRTMIN can. *)
LEMMA DeliverAccounts == ASSUME IInv, IInv', Accounts, Deliver PROVE Accounts'
<1>1. PICK sig \in Signals \ handling :
        /\ child = "loop" /\ pending["child"][sig] > 0
        /\ \A other \in Signals \ handling : pending["child"][other] > 0 => sig <= other
        /\ pending' = [pending EXCEPT !["child"][sig] = pending["child"][sig] - 1]
        /\ frames' = Append(frames, [sig |-> sig, counted |-> FALSE])
        /\ UNCHANGED <<TYPE, parent, child, sent_to_child, received_by_child,
                       received_by_parent>>
  BY DEF Deliver, counts
<1>2. /\ SIGRTMIN \in Signals /\ SIGRTMAX \in Signals /\ SIGUSR1 \in Signals
      /\ SIGRTMIN # SIGRTMAX /\ ~(SIGRTMAX <= SIGRTMIN) /\ SIGUSR1 # SIGRTMIN
      /\ SIGUSR1 # SIGRTMAX
  BY Numbers
<1>3. TypeOK /\ TypeOK' /\ frames \in Seq(Frames) /\ Once(frames)
  BY DEF IInv, TypeOK, Accounts
<1>4. /\ pending'["child"][sig] = pending["child"][sig] - 1
      /\ \A s \in Signals : /\ s # sig => pending'["child"][s] = pending["child"][s]
                            /\ pending'["parent"][s] = pending["parent"][s]
  BY <1>1, <1>3, Taken
<1>5. \A i \in 1..Len(frames) : frames[i].sig # sig
  BY <1>1 DEF handling
<1>6. /\ Once(frames')
      /\ Entered(frames, sig) = 0 /\ Counted(frames, sig) = 0
      /\ Entered(frames', sig) = 1 /\ Counted(frames', sig) = 0
      /\ \A other \in Signals \ {sig} :
           Entered(frames', other) = Entered(frames, other) /\ Counted(frames', other) = Counted(frames, other)
      /\ Len(frames') \in 1..Len(frames') /\ frames'[Len(frames')].sig = sig
      /\ \A i \in 1..Len(frames) : i \in 1..Len(frames') /\ frames'[i] = frames[i]
      /\ \A i \in 1..Len(frames') : frames'[i].sig = sig => i = Len(frames')
      /\ \A i \in 1..Len(frames') : frames'[i].sig # sig =>
           i \in 1..Len(frames) /\ i < Len(frames') /\ frames'[i] = frames[i]
  <2> DEFINE f == [sig |-> sig, counted |-> FALSE]
  <2>1. f \in Frames /\ f.sig = sig /\ f.counted = FALSE
    BY DEF Frames
  <2>2. sig \in Signals /\ frames' = Append(frames, f)
    BY <1>1
  <2>3. frames \in Seq(Frames) /\ Once(frames)
    BY <1>3
  <2> HIDE DEF f
  <2>4. /\ Len(frames') \in 1..Len(frames') /\ frames'[Len(frames')].sig = sig
        /\ \A i \in 1..Len(frames) : i \in 1..Len(frames') /\ frames'[i] = frames[i]
    BY <1>5, <2>1, <2>2, <2>3, HandledPushed
  <2>5. /\ \A i \in 1..Len(frames') : frames'[i].sig = sig => i = Len(frames')
        /\ \A i \in 1..Len(frames') : frames'[i].sig # sig =>
             i \in 1..Len(frames) /\ i < Len(frames') /\ frames'[i] = frames[i]
    BY <1>5, <2>1, <2>2, <2>3, HandledPushed
  <2>6. Once(frames')
    BY <2>3, <2>5 DEF Once
  <2>7. frames'[Len(frames')] = f
    BY <2>1, <2>2, <2>3, Pushed
  <2>8. /\ Entered(frames, sig) = 0 /\ Counted(frames, sig) = 0
        /\ Entered(frames', sig) = 1 /\ Counted(frames', sig) = 0
    BY <1>5, <2>1, <2>4, <2>5, <2>7 DEF Entered, Counted
  <2>9. ASSUME NEW other \in Signals \ {sig}
        PROVE  Entered(frames', other) = Entered(frames, other) /\ Counted(frames', other) = Counted(frames, other)
    BY <2>4, <2>5 DEF Entered, Counted
  <2> QED BY <2>4, <2>5, <2>6, <2>8, <2>9
<1>7. handling \subseteq handling' /\ sig \in handling'
  BY <1>6 DEF handling
<1>8. ASSUME TYPE = 3
      PROVE  (SentLast /\ NoUsr1 /\ LastComesLast /\ WhileRunning /\ AtExit)'
  <2>1. SentLast /\ NoUsr1 /\ LastComesLast /\ WhileRunning /\ AtExit
    BY <1>8 DEF Accounts
  <2>2. sig # SIGUSR1
    BY <1>1, <2>1 DEF NoUsr1
  <2>3. NoUsr1'
    BY <1>2, <1>4, <1>6, <2>1, <2>2 DEF NoUsr1
  <2>4. /\ MinEntered' = (IF sig = SIGRTMIN THEN 1 ELSE MinEntered)
        /\ MinCounted' = MinCounted
        /\ MaxEntered' = (IF sig = SIGRTMAX THEN 1 ELSE MaxEntered)
        /\ MaxCounted' = MaxCounted
        /\ sig = SIGRTMIN => MinEntered = 0
        /\ sig = SIGRTMAX => MaxEntered = 0 /\ MaxCounted = 0
    BY <1>2, <1>3, <1>6, FlagsNow, FlagsNext
  <2>5. /\ pending["child"][SIGRTMIN] \in Nat /\ pending["child"][SIGRTMAX] \in Nat
        /\ pending["parent"][SIGRTMIN] \in Nat
        /\ MinEntered \in {0, 1} /\ MinCounted \in {0, 1}
        /\ MaxEntered \in {0, 1} /\ MaxCounted \in {0, 1}
        /\ sent_to_child \in Nat /\ received_by_child \in Nat /\ received_by_parent \in Nat
    BY <1>3, AccountTypes
  <2>6. /\ pending'["child"][SIGRTMIN] =
             pending["child"][SIGRTMIN] - (IF sig = SIGRTMIN THEN 1 ELSE 0)
        /\ pending'["child"][SIGRTMAX] =
             pending["child"][SIGRTMAX] - (IF sig = SIGRTMAX THEN 1 ELSE 0)
        /\ pending'["parent"][SIGRTMIN] = pending["parent"][SIGRTMIN]
    BY <1>2, <1>4, <2>5
  <2>7. SentLast'
    BY <1>1, <1>2, <2>1, <2>4, <2>5, <2>6 DEF SentLast, Lasts
  <2>8. WhileRunning'
    <3>1. parent_ended' <=> parent_ended
      BY <1>1 DEF parent_ended
    <3> QED BY <1>1, <1>2, <2>1, <2>4, <2>5, <2>6, <3>1 DEF WhileRunning
  <2>9. AtExit'
    BY <1>1, <1>2, <2>1, <2>4, <2>5, <2>6 DEF AtExit
  <2>10. LastComesLast'
    <3>1. CASE sig = SIGRTMIN
      <4>1. \A i \in 1..Len(frames) : frames[i].sig # SIGRTMAX
        BY <1>1, <1>3, <2>1, <3>1, MaxFlags DEF LastComesLast
      <4>2. \A i \in 1..Len(frames') : frames'[i].sig # SIGRTMAX
        BY <1>2, <1>6, <3>1, <4>1
      <4> QED BY <1>7, <3>1, <4>2 DEF LastComesLast, Below
    <3>2. CASE sig = SIGRTMAX
      <4>1. Below(frames')
        BY <1>2, <1>6, <3>2 DEF Below
      <4>2. pending["child"][SIGRTMIN] = 0 \/ SIGRTMIN \in handling
        BY <1>1, <1>2, <2>5, <3>2
      <4> QED BY <1>2, <1>7, <2>6, <3>2, <4>1, <4>2 DEF LastComesLast
    <3>3. CASE sig # SIGRTMIN /\ sig # SIGRTMAX
      <4>1. Below(frames')
        BY <1>6, <2>1, <3>3 DEF LastComesLast, Below
      <4> QED BY <1>2, <1>4, <1>7, <2>1, <2>4, <3>3, <4>1 DEF LastComesLast
    <3> QED BY <3>1, <3>2, <3>3
  <2> QED BY <2>3, <2>7, <2>8, <2>9, <2>10
<1> QED BY <1>1, <1>6, <1>8 DEF Accounts

(* Counting moves a handler's signal from sent to received; the books are  *)
(* closed when SIGRTMAX is counted.                                        *)
LEMMA HandlerCountsAccounts == ASSUME IInv, IInv', Accounts, HandlerCounts PROVE Accounts'
<1> DEFINE n == Len(frames)  sig == frames[n].sig
<1>1. /\ child = "loop" /\ frames # <<>> /\ frames[n].counted # TRUE
      /\ \/ /\ sig \in counted_signals
            /\ received_by_child' = received_by_child + 1
            /\ frames' = [frames EXCEPT ![n].counted = TRUE]
         \/ /\ sig \notin counted_signals
            /\ frames' = Front(frames) /\ received_by_child' = received_by_child
      /\ UNCHANGED <<TYPE, parent, child, pending, sent_to_child, received_by_parent>>
  BY DEF HandlerCounts, Last
<1>2. /\ SIGRTMIN \in Signals /\ SIGRTMAX \in Signals /\ SIGUSR1 \in Signals
      /\ SIGRTMIN # SIGRTMAX
  BY Numbers
<1>3. TypeOK /\ TypeOK' /\ frames \in Seq(Frames) /\ Once(frames)
  BY DEF IInv, TypeOK, Accounts
<1>4. n \in Nat \ {0} /\ n \in 1..n /\ sig \in Signals /\ frames[n].counted = FALSE
  <2>1. n \in Nat \ {0} /\ n \in 1..n
    BY <1>1, <1>3, EmptySeq
  <2>2. frames[n] \in Frames
    BY <1>3, <2>1
  <2>3. sig \in Signals /\ frames[n].counted \in BOOLEAN
    BY <2>2 DEF Frames
  <2> QED BY <1>1, <2>1, <2>3
<1>5. parent_ended' <=> parent_ended
  BY <1>1 DEF parent_ended
<1>6. /\ pending["child"][SIGRTMIN] \in Nat /\ pending["child"][SIGRTMAX] \in Nat
      /\ pending["parent"][SIGRTMIN] \in Nat
      /\ MinEntered \in {0, 1} /\ MinCounted \in {0, 1}
      /\ MaxEntered \in {0, 1} /\ MaxCounted \in {0, 1}
      /\ sent_to_child \in Nat /\ received_by_child \in Nat /\ received_by_parent \in Nat
      /\ L \in Nat
  BY <1>3, AccountTypes
<1>7. CASE sig \in counted_signals
  <2>1. /\ frames' \in Seq(Frames) /\ Len(frames') = n /\ frames'[n].counted = TRUE
        /\ \A i \in 1..n : frames'[i].sig = frames[i].sig
        /\ \A i \in 1..n : i # n => frames'[i] = frames[i]
        /\ received_by_child' = received_by_child + 1
    BY <1>1, <1>3, <1>7, Changed
  <2>2. /\ Once(frames')
        /\ Entered(frames, sig) = 1 /\ Counted(frames, sig) = 0
        /\ Entered(frames', sig) = 0 /\ Counted(frames', sig) = 1
        /\ \A other \in Signals \ {sig} :
             Entered(frames', other) = Entered(frames, other) /\ Counted(frames', other) = Counted(frames, other)
    BY <1>1, <1>3, <1>4, <2>1, HandledCounted
  <2>3. handling' = handling /\ (Below(frames) => Below(frames'))
    BY <2>1 DEF handling, Below
  <2>4. ASSUME TYPE = 3
        PROVE  (SentLast /\ NoUsr1 /\ LastComesLast /\ WhileRunning /\ AtExit)'
    <3>1. SentLast /\ NoUsr1 /\ LastComesLast /\ WhileRunning /\ AtExit
      BY <2>4 DEF Accounts
    <3>2. ~parent_ended /\ sig \in {SIGRTMIN, SIGRTMAX}
      BY <1>7, <2>4 DEF counted_signals
    <3>3. NoUsr1'
      BY <1>1, <2>1, <3>1 DEF NoUsr1
    <3>4. CASE sig = SIGRTMIN
      <4>1. /\ MinEntered = 1 /\ MinCounted = 0 /\ MinEntered' = 0 /\ MinCounted' = 1
            /\ MaxEntered' = MaxEntered /\ MaxCounted' = MaxCounted
        BY <1>2, <1>3, <2>2, <3>4, FlagsNow, FlagsNext
      <4>2. SentLast' /\ LastComesLast'
        BY <1>1, <2>3, <3>1, <4>1 DEF SentLast, Lasts, LastComesLast
      <4>3. WhileRunning'
        <5>1. /\ sent_to_child = pending["child"][SIGRTMIN] + pending["child"][SIGRTMAX]
                   + 1 + MaxEntered + received_by_child
              /\ received_by_child = 0 + MaxCounted + pending["parent"][SIGRTMIN]
                   + received_by_parent
          BY <1>1, <3>1, <3>2, <4>1 DEF WhileRunning
        <5>2. /\ sent_to_child = pending["child"][SIGRTMIN] + pending["child"][SIGRTMAX]
                   + 0 + MaxEntered + (received_by_child + 1)
              /\ received_by_child + 1 = 1 + MaxCounted + pending["parent"][SIGRTMIN]
                   + received_by_parent
          BY <1>6, <5>1
        <5> QED BY <1>1, <2>1, <4>1, <5>2 DEF WhileRunning
      <4>4. AtExit'
        BY <1>1, <1>6, <3>1, <4>1 DEF AtExit
      <4> QED BY <3>3, <4>2, <4>3, <4>4
    <3>5. CASE sig = SIGRTMAX
      <4>1. /\ MaxEntered = 1 /\ MaxCounted = 0 /\ MaxEntered' = 0 /\ MaxCounted' = 1
            /\ MinEntered' = MinEntered /\ MinCounted' = MinCounted
        BY <1>2, <1>3, <2>2, <3>5, FlagsNow, FlagsNext
      <4>2. SentLast' /\ LastComesLast'
        BY <1>1, <1>6, <2>3, <3>1, <4>1 DEF SentLast, Lasts, LastComesLast
      <4>3. WhileRunning'
        <5>1. /\ sent_to_child = pending["child"][SIGRTMIN] + pending["child"][SIGRTMAX]
                   + MinEntered + 1 + received_by_child
              /\ received_by_child = MinCounted + 0 + pending["parent"][SIGRTMIN]
                   + received_by_parent
          BY <1>1, <3>1, <3>2, <4>1 DEF WhileRunning
        <5>2. /\ sent_to_child = pending["child"][SIGRTMIN] + pending["child"][SIGRTMAX]
                   + MinEntered + 0 + (received_by_child + 1)
              /\ received_by_child + 1 = MinCounted + 1 + pending["parent"][SIGRTMIN]
                   + received_by_parent
          BY <1>6, <5>1
        <5> QED BY <1>1, <2>1, <4>1, <5>2 DEF WhileRunning
      <4>4. sent_to_child = L + 1 /\ pending["child"][SIGRTMAX] = 0
        BY <1>6, <3>1, <4>1 DEF SentLast, Lasts
      <4>5. /\ L + 1 = pending["child"][SIGRTMIN] + 0 + MinEntered + 1 + received_by_child
            /\ received_by_child = MinCounted + 0 + pending["parent"][SIGRTMIN]
                                   + received_by_parent
        BY <1>1, <3>1, <3>2, <4>1, <4>4 DEF WhileRunning
      <4>6. L = received_by_parent + pending["parent"][SIGRTMIN] + MinCounted + MinEntered
                + pending["child"][SIGRTMIN]
        BY <1>6, <4>5
      <4>7. AtExit'
        BY <1>1, <4>1, <4>6 DEF AtExit
      <4> QED BY <3>3, <4>2, <4>3, <4>7
    <3> QED BY <3>2, <3>4, <3>5
  <2> QED BY <1>1, <2>2, <2>4 DEF Accounts
<1>8. CASE sig \notin counted_signals
  <2>1. frames' = Front(frames) /\ received_by_child' = received_by_child
    BY <1>1, <1>8
  <2>2. /\ Once(frames')
        /\ Entered(frames, sig) = 1 /\ Counted(frames, sig) = 0
        /\ Entered(frames', sig) = 0 /\ Counted(frames', sig) = 0
        /\ \A other \in Signals \ {sig} :
             Entered(frames', other) = Entered(frames, other) /\ Counted(frames', other) = Counted(frames, other)
        /\ \A i \in 1..Len(frames') : i \in 1..n /\ frames'[i] = frames[i]
        /\ \A i \in 1..n : i # n => i \in 1..Len(frames') /\ frames'[i] = frames[i]
    BY <1>1, <1>3, <1>4, <2>1, HandledPopped, ZenonT(40)
  <2>3. Below(frames) => Below(frames')
    BY <2>2 DEF Below
  <2>4. \A s \in handling : s # sig => s \in handling'
    BY <2>2 DEF handling
  <2>5. ASSUME TYPE = 3
        PROVE  (SentLast /\ NoUsr1 /\ LastComesLast /\ WhileRunning /\ AtExit)'
    <3>1. SentLast /\ NoUsr1 /\ LastComesLast /\ WhileRunning /\ AtExit
      BY <2>5 DEF Accounts
    <3>2. sig \in {SIGRTMIN, SIGRTMAX} => parent_ended
      BY <1>8, <2>5 DEF counted_signals
    <3>3. NoUsr1'
      BY <1>1, <2>2, <3>1 DEF NoUsr1
    <3>4. CASE sig = SIGRTMIN
      <4>1. MaxEntered = 0 /\ MaxCounted = 0
        <5>1. \A i \in 1..n : frames[i].sig # SIGRTMAX
          BY <1>4, <3>1, <3>4 DEF LastComesLast, Below
        <5> QED BY <1>3, <5>1, FlagsNow DEF Entered, Counted
      <4>2. MaxEntered' = 0 /\ MaxCounted' = 0
        BY <1>2, <1>3, <2>2, <3>4, <4>1, FlagsNow, FlagsNext
      <4>3. SentLast'
        BY <1>1, <3>1, <4>1, <4>2 DEF SentLast, Lasts
      <4> QED BY <1>5, <2>3, <3>1, <3>2, <3>3, <3>4, <4>2, <4>3
              DEF LastComesLast, WhileRunning, AtExit
    <3>5. CASE sig = SIGRTMAX
      <4>1. MaxEntered = 1 /\ MaxCounted = 0 /\ MaxEntered' = 0 /\ MaxCounted' = 0
        BY <1>2, <1>3, <2>2, <3>5, FlagsNow, FlagsNext
      <4>2. SentLast'
        BY <1>1, <1>6, <3>1, <4>1 DEF SentLast, Lasts
      <4> QED BY <1>5, <2>3, <3>1, <3>2, <3>3, <3>5, <4>1, <4>2
              DEF LastComesLast, WhileRunning, AtExit
    <3>6. CASE sig # SIGRTMIN /\ sig # SIGRTMAX
      <4>1. /\ MinEntered' = MinEntered /\ MinCounted' = MinCounted
            /\ MaxEntered' = MaxEntered /\ MaxCounted' = MaxCounted
        BY <1>2, <1>3, <2>2, <3>6, FlagsNow, FlagsNext
      <4>2. SentLast' /\ AtExit'
        BY <1>1, <3>1, <4>1 DEF SentLast, Lasts, AtExit
      <4>3. LastComesLast'
        BY <1>1, <2>3, <2>4, <3>1, <3>6, <4>1 DEF LastComesLast
      <4>4. WhileRunning'
        BY <1>1, <1>5, <2>1, <3>1, <4>1 DEF WhileRunning
      <4> QED BY <3>3, <4>2, <4>3, <4>4
    <3> QED BY <3>4, <3>5, <3>6
  <2> QED BY <1>1, <2>2, <2>5 DEF Accounts
<1> QED BY <1>7, <1>8

LEMMA HandlerAnswersAccounts == ASSUME IInv, IInv', Accounts, HandlerAnswers PROVE Accounts'
<1> DEFINE n == Len(frames)  sig == frames[n].sig
<1>1. /\ child = "loop" /\ frames # <<>> /\ frames[n].counted
      /\ \/ /\ sig \in {SIGUSR1, SIGRTMIN}
            /\ IF parent_ended THEN pending' = pending ELSE queued("parent", sig)
            /\ frames' = Front(frames) /\ child' = child
         \/ /\ child' = "exited" /\ UNCHANGED <<pending, frames>>
      /\ UNCHANGED <<TYPE, parent, sent_to_child, received_by_child, received_by_parent>>
  BY DEF HandlerAnswers, Last, counts
<1>2. /\ SIGRTMIN \in Signals /\ SIGRTMAX \in Signals /\ SIGUSR1 \in Signals
      /\ SIGRTMIN # SIGRTMAX /\ SIGRTMIN # SIGUSR1 /\ SIGRTMIN \notin Standard
  BY Numbers
<1>3. TypeOK /\ TypeOK' /\ frames \in Seq(Frames) /\ Once(frames)
  BY DEF IInv, TypeOK, Accounts
<1>4. n \in Nat \ {0} /\ n \in 1..n /\ sig \in Signals /\ frames[n].counted # FALSE
  <2>1. n \in Nat \ {0} /\ n \in 1..n
    BY <1>1, <1>3, EmptySeq
  <2>2. frames[n] \in Frames
    BY <1>3, <2>1
  <2>3. sig \in Signals /\ frames[n].counted \in BOOLEAN
    BY <2>2 DEF Frames
  <2> QED BY <1>1, <2>1, <2>3
<1>5. CASE child' = "exited" /\ UNCHANGED <<pending, frames>>
  BY <1>1, <1>3, <1>5, AccountsStay DEF Accounts
<1>6. CASE /\ sig \in {SIGUSR1, SIGRTMIN}
           /\ IF parent_ended THEN pending' = pending ELSE queued("parent", sig)
           /\ frames' = Front(frames) /\ child' = child
  <2>1. /\ Once(frames')
        /\ Counted(frames, sig) = 1 /\ Entered(frames, sig) = 0
        /\ Entered(frames', sig) = 0 /\ Counted(frames', sig) = 0
        /\ \A other \in Signals \ {sig} :
             Entered(frames', other) = Entered(frames, other) /\ Counted(frames', other) = Counted(frames, other)
        /\ \A i \in 1..Len(frames') : i \in 1..n /\ frames'[i] = frames[i]
    <3>1. frames' = Front(frames)
      BY <1>6
    <3>2. \A i \in 1..Len(frames') : i \in 1..n /\ i # n /\ frames'[i] = frames[i]
      BY <1>3, <1>4, <3>1, Popped
    <3>3. \A i \in 1..n : i # n => i \in 1..Len(frames') /\ frames'[i] = frames[i]
      BY <1>3, <1>4, <3>1, Popped
    <3>4. \A i \in 1..n : frames[i].sig = sig => i = n
      BY <1>3, <1>4 DEF Once
    <3>5. frames[n].counted = TRUE
      <4>1. frames[n] \in Frames
        BY <1>3, <1>4
      <4>2. frames[n].counted \in BOOLEAN
        BY <4>1 DEF Frames
      <4> QED BY <1>4, <4>2
    <3> HIDE DEF n, sig
    <3>6. Len(frames) = n /\ frames[n].sig = sig
      BY DEF n, sig
    <3>7. Once(frames')
      BY <1>3, <3>2, <3>6 DEF Once
    <3>8. Counted(frames, sig) = 1 /\ Entered(frames, sig) = 0
      BY <1>4, <3>4, <3>5, <3>6 DEF Entered, Counted
    <3>9. Entered(frames', sig) = 0 /\ Counted(frames', sig) = 0
      BY <3>2, <3>4 DEF Entered, Counted
    <3>10. ASSUME NEW other \in Signals \ {sig}
           PROVE  Entered(frames', other) = Entered(frames, other) /\ Counted(frames', other) = Counted(frames, other)
      BY <3>2, <3>3, <3>6 DEF Entered, Counted
    <3> QED BY <3>2, <3>7, <3>8, <3>9, <3>10
  <2>2. ASSUME TYPE = 3
        PROVE  (SentLast /\ NoUsr1 /\ LastComesLast /\ WhileRunning /\ AtExit)'
    <3>1. SentLast /\ NoUsr1 /\ LastComesLast /\ WhileRunning /\ AtExit
      BY <2>2 DEF Accounts
    <3>2. sig = SIGRTMIN
      BY <1>4, <1>6, <3>1 DEF NoUsr1
    <3>3. /\ pending'["child"][SIGRTMIN] = pending["child"][SIGRTMIN]
          /\ pending'["child"][SIGRTMAX] = pending["child"][SIGRTMAX]
          /\ pending'["child"][SIGUSR1] = pending["child"][SIGUSR1]
          /\ pending'["parent"][SIGUSR1] = pending["parent"][SIGUSR1]
          /\ ~parent_ended =>
               pending'["parent"][SIGRTMIN] = pending["parent"][SIGRTMIN] + 1
      <4>1. CASE parent_ended
        BY <1>6, <4>1
      <4>2. CASE ~parent_ended
        BY <1>2, <1>3, <1>6, <3>2, <4>2, Queued
      <4> QED BY <4>1, <4>2
    <3>4. MaxEntered = 0 /\ MaxCounted = 0
      <4>1. \A i \in 1..n : frames[i].sig # SIGRTMAX
        BY <1>4, <3>1, <3>2 DEF LastComesLast, Below
      <4> QED BY <1>3, <4>1, FlagsNow DEF Entered, Counted
    <3>5. /\ MinEntered = 0 /\ MinCounted = 1 /\ MinEntered' = 0 /\ MinCounted' = 0
          /\ MaxEntered' = 0 /\ MaxCounted' = 0
      BY <1>2, <1>3, <2>1, <3>2, <3>4, FlagsNow, FlagsNext
    <3>6. SentLast' /\ NoUsr1'
      BY <1>1, <2>1, <3>1, <3>3, <3>4, <3>5 DEF SentLast, Lasts, NoUsr1
    <3>7. LastComesLast' /\ AtExit'
      BY <2>1, <3>1, <3>5 DEF LastComesLast, Below, AtExit
    <3>8. WhileRunning'
      <4>1. parent_ended' <=> parent_ended
        BY <1>1 DEF parent_ended
      <4>2. pending["parent"][SIGRTMIN] \in Nat /\ received_by_parent \in Nat
        BY <1>3, AccountTypes
      <4> QED BY <1>1, <1>6, <3>1, <3>3, <3>4, <3>5, <4>1, <4>2 DEF WhileRunning
    <3> QED BY <3>6, <3>7, <3>8
  <2> QED BY <1>1, <1>6, <2>1, <2>2 DEF Accounts
<1> QED BY <1>1, <1>5, <1>6

LEMMA NextKeepsAccounts == IInv /\ IInv' /\ Accounts /\ [Next]_vars => Accounts'
<1> SUFFICES ASSUME IInv, IInv', Accounts, [Next]_vars PROVE Accounts'
  OBVIOUS
<1>1. CASE SetHandlers
  BY <1>1, SetHandlersAccounts
<1>2. CASE SendSignal
  BY <1>2, SendSignalAccounts
<1>3. CASE SendLast
  BY <1>3, SendLastAccounts
<1>4. CASE WaitChild
  BY <1>4, WaitChildAccounts
<1>5. CASE parent_handler
  BY <1>5, ParentHandlerAccounts
<1>6. CASE ExitHandler
  BY <1>6, ExitHandlerAccounts
<1>7. CASE SetChildHandlers
  BY <1>7, SetChildHandlersAccounts
<1>8. CASE Deliver
  BY <1>8, DeliverAccounts
<1>9. CASE HandlerCounts
  BY <1>9, HandlerCountsAccounts
<1>10. CASE HandlerAnswers
  BY <1>10, HandlerAnswersAccounts
<1>11. CASE ParentInterrupted
  BY <1>11, ParentInterruptedAccounts
<1>12. CASE ChildInterrupted
  BY <1>12, ChildInterruptedAccounts
<1>13. CASE UNCHANGED vars
  BY <1>13, StutterAccounts
<1> QED
  BY <1>1, <1>2, <1>3, <1>4, <1>5, <1>6, <1>7, <1>8, <1>9, <1>10, <1>11, <1>12, <1>13
  DEF Next, ParentStep, ChildStep

-------------------------------------------------------------------------------
(* What holds in every behaviour. *)

(* IInv is an inductive invariant of the two processes. *)
THEOREM Invariance == Spec => []IInv
BY InitEstablishes, NextPreserves, PTL DEF Spec

(* Every variable keeps its type; what is pending never goes below zero.   *)
THEOREM Typing == Spec => []TypeOK
<1>1. IInv => TypeOK
  BY DEF IInv
<1> QED BY Invariance, <1>1, PTL

(* TYPE 2 waits for each answer: whenever the parent is about to send, all *)
(* it sent was counted by the child, answered and counted by the parent,   *)
(* so no standard signal is dropped for being pending already.             *)
THEOREM AnsweredBeforeNext == Spec => []InStep
<1>1. IInv => InStep
  <2> SUFFICES ASSUME IInv, TYPE = 2, Both
               PROVE  received_by_child = sent_to_child /\ received_by_parent = sent_to_child
    BY DEF InStep
  <2>1. Together /\ parent # "suspend"
    BY DEF Both, Together, Sending
  <2> QED BY <2>1, Books
<1> QED BY Invariance, <1>1, PTL

(* TYPE 3 accounts for every signal, also while SIGRTMAX interrupts the    *)
(* handler of SIGRTMIN: whatever was sent is pending, in a handler or      *)
(* counted, and again on the way back; and what has not been sent back     *)
(* when the child ends at SIGRTMAX is the SIGRTMIN whose handler was       *)
(* interrupted and those pending behind it, whatever became of the parent. *)
THEOREM EverySignalCounted == Spec => []SignalsAccounted
<1>1. IInv /\ Accounts => SignalsAccounted
  <2> SUFFICES ASSUME IInv, Accounts, TYPE = 3 PROVE SignalsAccounted
    BY DEF SignalsAccounted
  <2>1. LastComesLast /\ WhileRunning /\ AtExit
    BY DEF Accounts
  <2>2. /\ pending["child"][SIGRTMIN] \in Nat /\ pending["parent"][SIGRTMIN] \in Nat
        /\ MinEntered \in {0, 1} /\ MinCounted \in {0, 1} /\ received_by_parent \in Nat
    BY AccountTypes DEF IInv
  <2>3. SignalsAccounted <=>
          /\ child = "loop" /\ ~parent_ended =>
               /\ sent_to_child = pending["child"][SIGRTMIN] + pending["child"][SIGRTMAX]
                    + MinEntered + MaxEntered + received_by_child
               /\ received_by_child = MinCounted + MaxCounted
                    + pending["parent"][SIGRTMIN] + received_by_parent
          /\ MaxCounted = 1 =>
               /\ L = received_by_parent + pending["parent"][SIGRTMIN]
                    + MinCounted + MinEntered + pending["child"][SIGRTMIN]
               /\ pending["child"][SIGRTMIN] > 0 => SIGRTMIN \in handling
    BY DEF SignalsAccounted, MinEntered, MinCounted, MaxEntered, MaxCounted
  <2> QED BY <2>1, <2>2, <2>3 DEF LastComesLast, WhileRunning, AtExit
<1>2. Init => IInv /\ Accounts
  BY InitEstablishes, InitAccounts
<1>3. IInv /\ Accounts /\ [Next]_vars => IInv' /\ Accounts'
  BY NextPreserves, NextKeepsAccounts
<1> QED BY <1>1, <1>2, <1>3, PTL DEF Spec

(* The guards of ParentStep and of ChildStep, written out. *)
ParentMayStep ==
  \/ parent \in {"sleep", "interrupt"}
  \/ parent = "loop" /\ sent_to_child <= L
  \/ parent = "waitpid" /\ child_ended
  \/ /\ parent \in {"loop", "suspend", "waitpid", "interrupt"}
     /\ \E sig \in {SIGUSR1, SIGRTMIN} : pending["parent"][sig] > 0

ChildMayStep ==
  \/ child = "start"
  \/ child = "loop" /\ (frames # <<>> \/ \E sig \in Signals : pending["child"][sig] > 0)

KnownStop ==
  \/ parent_ended /\ child_ended
  \/ TYPE = 2 /\ parent = "suspend" /\ received_by_parent > sent_to_child
  \/ TYPE = 2 /\ parent = "suspend" /\ child_ended
  \/ parent \in {"hasty", "exit9", "killed"} /\ child = "loop"

(* StuckExplained without ENABLED: when no guard of either process holds,  *)
(* both have ended, or TYPE 2 waits for an answer that came before         *)
(* sigsuspend or for a child that has ended, or the child outlives a       *)
(* parent that did not wait for it.  In waitpid the parent is never left.  *)
THEOREM StopsAreKnown == Spec => [](~ParentMayStep /\ ~ChildMayStep => KnownStop)
<1>1. IInv => (~ParentMayStep /\ ~ChildMayStep => KnownStop)
  <2> SUFFICES ASSUME IInv, ~ParentMayStep, ~ChildMayStep PROVE KnownStop
    OBVIOUS
  <2>1. TypeOK /\ ParentInv
    BY DEF IInv
  <2>2. \/ child_ended
        \/ child = "loop" /\ frames = <<>> /\ \A sig \in Signals : ~(pending["child"][sig] > 0)
    BY <2>1 DEF ChildMayStep, TypeOK, child_ended
  <2>3. CASE parent = "loop"
    BY <2>1, <2>3 DEF ParentMayStep, ParentInv, Sending
  <2>4. CASE parent = "waitpid"
    <3>1. ~child_ended
      BY <2>4 DEF ParentMayStep
    <3>2. \/ pending["child"][last_signal] > 0
          \/ \E i \in 1..Len(frames) : frames[i].sig = last_signal
      BY <2>1, <2>2, <2>4, <3>1 DEF ParentInv
    <3>3. Len(frames) = 0
      BY <2>2, <3>1
    <3> QED BY <2>2, <3>1, <3>2, <3>3, TheSignals
  <2>5. CASE parent = "suspend"
    <3>1. TYPE = 2
      BY <2>1, <2>5 DEF ParentInv
    <3>2. CASE child_ended
      BY <2>5, <3>1, <3>2 DEF KnownStop
    <3>3. CASE ~child_ended
      <4>1. Together /\ frames = <<>> /\ child = "loop"
        BY <2>2, <2>5, <3>3 DEF Together, Sending
      <4>2. /\ pending["child"][user_signal] \in Nat /\ pending["parent"][user_signal] \in Nat
            /\ InHandler(FALSE) = 0 /\ InHandler(TRUE) = 0
        BY <4>1, Books
      <4>3. ~(pending["child"][user_signal] > 0) /\ ~(pending["parent"][user_signal] > 0)
        BY <2>2, <2>5, <3>3, TheSignals DEF ParentMayStep
      <4>4. pending["child"][user_signal] = 0 /\ pending["parent"][user_signal] = 0
        BY <4>2, <4>3
      <4>5. sent_to_child + 1 = 0 + 0 + received_by_child
            /\ received_by_child = 0 + 0 + received_by_parent
        <5>1. /\ Sent = pending["child"][user_signal] + InHandler(FALSE) + received_by_child
              /\ received_by_child =
                   InHandler(TRUE) + pending["parent"][user_signal] + received_by_parent
          BY <3>1, <4>1 DEF IInv, Balance
        <5>2. Sent = sent_to_child + 1
          BY <2>5 DEF Sent
        <5> QED BY <4>2, <4>4, <5>1, <5>2
      <4>6. sent_to_child \in Nat /\ received_by_child \in Nat /\ received_by_parent \in Nat
        BY <2>1, Numbers DEF TypeOK
      <4>7. received_by_parent > sent_to_child
        BY <4>5, <4>6
      <4> QED BY <2>5, <3>1, <4>7 DEF KnownStop
    <3> QED BY <3>2, <3>3
  <2>6. CASE parent \in {"reaped", "failed"}
    BY <2>1, <2>6 DEF ParentInv, KnownStop, parent_ended
  <2>7. CASE parent \in {"hasty", "exit9", "killed"}
    BY <2>2, <2>7 DEF KnownStop, parent_ended
  <2>8. CASE parent \in {"sleep", "interrupt"}
    BY <2>8 DEF ParentMayStep
  <2> QED BY <2>1, <2>3, <2>4, <2>5, <2>6, <2>7, <2>8 DEF TypeOK
<1> QED BY Invariance, <1>1, PTL
===============================================================================
