------------------------------ MODULE Lab4_proof ------------------------------
(***************************************************************************)
(* Proofs about two of lab4's programs.                                    *)
(*                                                                         *)
(* Sigs, for any number Presses of signals.  IInv says where a running     *)
(* date.sh can be: it is the one child_pid names, or, while main believes  *)
(* it is stopped, the one a SIGTSTP handler has forked and not yet         *)
(* assigned.                                                               *)
(*                                                                         *)
(* Interpreters, lab4's and lab3's, for scripts of any lines and length    *)
(* and a buffer of any size.  BatchInv says which lines the stream has     *)
(* read ahead and how many children have been waited for.                  *)
(***************************************************************************)
EXTENDS Interpreters, Sigs, SequenceTheorems, FiniteSetTheorems, TLAPS

-------------------------------------------------------------------------------
(* Sigs: IInv and the types. *)

Both == {SIGINT, SIGTSTP}
Pids == Children \cup {0, Failed}
Frames == [sig : Both, at : {"begin", "forked", "exit"}, pid : Pids]
Processes == [at : {"none", "copy", "execl", "date", "zombie", "reaped"},
              knows : Pids, handlers : BOOLEAN, blocked : BOOLEAN, interrupted : BOOLEAN]

TypeOK ==
  /\ at \in {"fork", "sigaction", "signal", "waitpid", "interrupted"}
  /\ cpid \in Pids /\ cstat_set \in BOOLEAN
  /\ child_pid \in Pids /\ is_stopped \in BOOLEAN
  /\ pending \in SUBSET Both
  /\ frames \in Seq(Frames)
  /\ child \in [Children -> Processes]
  /\ over \in {"no", "3", "default", "exit", "killed"}
  /\ pressed \in 0..Presses /\ alone \in BOOLEAN

(* A handler is not interrupted by its own signal. *)
FramesInv ==
  /\ \A i, j \in 1..Len(frames) : i # j => frames[i].sig # frames[j].sig
  /\ \A i \in 1..Len(frames) :
       /\ frames[i].at = "forked" => frames[i].sig = SIGTSTP
       /\ frames[i].at = "exit" => frames[i].sig = SIGINT

StartInv ==
  at = "fork" => frames = <<>> /\ ~is_stopped /\ \A c \in Children : child[c].at = "none"

(* The child that runs is known to main or to the handler that forked it. *)
DateInv ==
  /\ \A i \in 1..Len(frames) : frames[i].at = "forked" => is_stopped
  /\ \A c \in Children : alive(c) =>
       \/ ~is_stopped /\ c = child_pid
       \/ /\ is_stopped
          /\ \E i \in 1..Len(frames) : frames[i].at = "forked" /\ frames[i].pid = c

(* A SIGINT that main is yet to handle reached the child as well, or was   *)
(* sent to main alone, or came before the fork, which then blocked it.     *)
hears(c) == child[c].interrupted \/ child[c].blocked \/ alone

HearsInv ==
  \A c \in Children : alive(c) =>
    /\ SIGINT \in pending => hears(c)
    /\ \A i \in 1..Len(frames) : frames[i].sig = SIGINT => hears(c)

(* A child forked while a SIGINT handler is interrupted has it blocked. *)
NestInv ==
  \A i, j \in 1..Len(frames) :
    j < i /\ frames[j].sig = SIGINT /\ frames[i].at = "forked" =>
      \A c \in Children : alive(c) /\ c = frames[i].pid => child[c].blocked

PkillInv ==
  \A i \in 1..Len(frames) : frames[i].at = "exit" =>
    \A c \in Children : alive(c) => c # child_pid \/ child[c].blocked

OverInv ==
  /\ over = "killed" => \A c \in Children : ~alive(c)
  /\ SurvivorExplained

IInv ==
  TypeOK /\ FramesInv /\ StartInv /\ DateInv /\ HearsInv /\ NestInv /\ PkillInv /\ OverInv

-------------------------------------------------------------------------------
(* Signals, pids and frames. *)

LEMMA Numbers ==
  /\ Presses \in Nat
  /\ SIGINT # SIGTSTP /\ SIGINT \in Both /\ SIGTSTP \in Both
  /\ Failed \notin Children /\ 0 \notin Children
BY PressesAssumption DEF SIGINT, SIGTSTP, Both, Failed, Children

LEMMA Pushed ==
  ASSUME NEW s \in Seq(Frames), NEW f \in Frames, NEW t, t = Append(s, f)
  PROVE  /\ t \in Seq(Frames) /\ Len(t) = Len(s) + 1
         /\ Len(t) \in 1..Len(t) /\ t[Len(t)] = f
         /\ \A i \in 1..Len(t) : i # Len(t) => i \in 1..Len(s)
         /\ \A i \in 1..Len(s) : i \in 1..Len(t) /\ i # Len(t) /\ t[i] = s[i]
OBVIOUS

LEMMA Popped ==
  ASSUME NEW s \in Seq(Frames), s # <<>>, NEW t, t = Front(s)
  PROVE  /\ Len(s) \in Nat \ {0} /\ Len(s) \in 1..Len(s) /\ s[Len(s)] \in Frames
         /\ t \in Seq(Frames) /\ Len(t) = Len(s) - 1
         /\ \A i \in 1..Len(t) : i \in 1..Len(s) /\ i # Len(s) /\ t[i] = s[i]
<1>1. Len(s) \in Nat \ {0} /\ Len(s) \in 1..Len(s) /\ s[Len(s)] \in Frames
  BY EmptySeq
<1>2. PICK n \in Nat : n = Len(s) - 1
  BY <1>1
<1>3. \A i \in 1..n : i \in 1..Len(s) /\ i # Len(s) /\ s[i] \in Frames
  BY <1>1, <1>2
<1>4. /\ SubSeq(s, 1, n) \in Seq(Frames)
      /\ Len(SubSeq(s, 1, n)) = IF 1 <= n THEN n-1+1 ELSE 0
      /\ \A i \in 1..n-1+1 : SubSeq(s, 1, n)[i] = s[1+i-1]
  BY <1>3, SubSeqProperties
<1>5. n-1+1 = n /\ (IF 1 <= n THEN n-1+1 ELSE 0) = n /\ \A i \in 1..n : 1+i-1 = i
  OBVIOUS
<1>6. t = SubSeq(s, 1, n)
  BY <1>2 DEF Front
<1>7. t \in Seq(Frames) /\ Len(t) = n /\ \A i \in 1..n : t[i] = s[i]
  BY <1>4, <1>5, <1>6
<1> QED BY <1>1, <1>2, <1>3, <1>7

LEMMA Moved ==
  ASSUME TypeOK, frames # <<>>, NEW place \in {"forked", "exit"}, NEW pid \in Pids,
         Goto(place, pid)
  PROVE  /\ Len(frames) \in Nat \ {0} /\ Len(frames) \in 1..Len(frames)
         /\ frames' \in Seq(Frames) /\ Len(frames') = Len(frames)
         /\ frames'[Len(frames)].at = place /\ frames'[Len(frames)].pid = pid
         /\ frames'[Len(frames)].sig = frames[Len(frames)].sig
         /\ \A i \in 1..Len(frames) : i # Len(frames) => frames'[i] = frames[i]
<1>1. frames \in Seq(Frames)
  BY DEF TypeOK
<1>2. Len(frames) \in Nat \ {0} /\ Len(frames) \in 1..Len(frames) /\ DOMAIN frames = 1..Len(frames)
  BY <1>1, EmptySeq
<1>3. frames[Len(frames)] \in Frames
  BY <1>1, <1>2
<1> DEFINE f == [frames[Len(frames)] EXCEPT !.at = place, !.pid = pid]
<1>4. f \in Frames /\ f.at = place /\ f.pid = pid /\ f.sig = frames[Len(frames)].sig
  BY <1>3 DEF Frames
<1>5. frames' = [frames EXCEPT ![Len(frames)] = f]
  <2>1. frames' = [frames EXCEPT ![Len(frames)].at = place, ![Len(frames)].pid = pid]
    BY DEF Goto
  <2> QED BY <1>2, <2>1
<1>6. frames' \in Seq(Frames) /\ Len(frames') = Len(frames)
  BY <1>1, <1>2, <1>4, <1>5
<1>7. frames'[Len(frames)] = f /\ \A i \in 1..Len(frames) : i # Len(frames) => frames'[i] = frames[i]
  BY <1>2, <1>5
<1> QED BY <1>2, <1>4, <1>6, <1>7

(* A child that is alive after the step was so before it, and is the same. *)
Fewer ==
  \A c \in Children :
    /\ alive(c)' => /\ alive(c)
                    /\ child'[c].blocked = child[c].blocked
                    /\ child'[c].interrupted = child[c].interrupted
    /\ child[c].at = "none" => child'[c].at = "none"

LEMMA Same == ASSUME child' = child PROVE Fewer /\ \A c \in Children : alive(c)' <=> alive(c)
BY DEF Fewer, alive

LEMMA Ended ==
  ASSUME TypeOK, NEW c \in Children
  PROVE  /\ ended(c) \in Processes /\ ended(c).at = "zombie"
BY DEF ended, TypeOK, Processes

(* Who is killed is a child that was alive. *)
LEMMA SomeEnd ==
  ASSUME TypeOK, NEW S, \A c \in S : c \in Children /\ alive(c),
         child' = [c \in Children |-> IF c \in S THEN ended(c) ELSE child[c]]
  PROVE  /\ child' \in [Children -> Processes] /\ Fewer
         /\ \A c \in Children : alive(c)' => c \notin S
<1>1. ASSUME NEW c \in Children
      PROVE  /\ child'[c] = IF c \in S THEN ended(c) ELSE child[c]
             /\ child[c] \in Processes /\ ended(c) \in Processes /\ ended(c).at = "zombie"
  BY <1>1, Ended DEF TypeOK
<1>2. child' \in [Children -> Processes]
  BY <1>1
<1>3. ASSUME NEW c \in Children PROVE alive(c)' => alive(c) /\ c \notin S /\ child'[c] = child[c]
  BY <1>1 DEF alive
<1>4. ASSUME NEW c \in Children, child[c].at = "none" PROVE child'[c].at = "none"
  <2>1. c \notin S
    BY <1>4 DEF alive
  <2> QED BY <1>1, <1>4, <2>1
<1> QED BY <1>2, <1>3, <1>4 DEF Fewer

LEMMA Killing ==
  ASSUME TypeOK, NEW pid, Kill(pid)
  PROVE  /\ child' \in [Children -> Processes] /\ Fewer
         /\ \A c \in Children : alive(c)' => c # pid /\ pid \in Children
<1>1. \A c \in killed(pid) : c \in Children /\ alive(c)
  BY DEF killed
<1>2. /\ child' \in [Children -> Processes] /\ Fewer
      /\ \A c \in Children : alive(c)' => c \notin killed(pid)
  BY <1>1, SomeEnd DEF Kill
<1>3. \A c \in Children : alive(c)' => alive(c)
  BY <1>2 DEF Fewer
<1> QED BY <1>2, <1>3 DEF killed

(* What fork may return, and the children after it: the new one is alive,  *)
(* and blocks a SIGINT that main has not yet handled.                      *)
LEMMA Forking ==
  ASSUME TypeOK, NEW pid \in fork_results, NEW start \in {"copy", "execl"},
         NEW handlers \in BOOLEAN, Fork(pid, start, handlers)
  PROVE  /\ pid \in Pids /\ pid # 0
         /\ child' \in [Children -> Processes]
         /\ \A c \in Children : c # pid => child'[c] = child[c] /\ (alive(c)' <=> alive(c))
         /\ \A c \in Children : c = pid => ~alive(c) /\ (child'[c].blocked <=> SIGINT \in masked)
         /\ SIGINT \in pending => SIGINT \in masked
<1>1. pid \in Pids /\ pid # 0
  BY Numbers DEF fork_results, Pids, Failed
<1> DEFINE new == [at |-> start, knows |-> child_pid, handlers |-> handlers,
                   blocked |-> SIGINT \in masked, interrupted |-> FALSE]
<1>2. new \in Processes
  BY DEF TypeOK, Processes
<1>3. ASSUME NEW c \in Children
      PROVE  child'[c] = (IF c # pid THEN child[c] ELSE new) /\ child[c] \in Processes
  BY DEF Fork, TypeOK
<1>4. child' \in [Children -> Processes]
  <2>1. child' = [c \in Children |-> child'[c]]
    BY DEF Fork
  <2>2. \A c \in Children : child'[c] \in Processes
    BY <1>2, <1>3
  <2> QED BY <2>1, <2>2
<1>5. \A c \in Children : c # pid => child'[c] = child[c] /\ (alive(c)' <=> alive(c))
  BY <1>3 DEF alive
<1>6. \A c \in Children : c = pid => ~alive(c) /\ (child'[c].blocked <=> SIGINT \in masked)
  <2>1. new.blocked = (SIGINT \in masked)
    OBVIOUS
  <2> HIDE DEF new
  <2>2. \A c \in Children : c = pid => child'[c].blocked = (SIGINT \in masked)
    BY <1>3, <2>1
  <2>3. \A c \in Children : c = pid => child[c].at = "none"
    BY Numbers DEF fork_results
  <2> QED BY <2>2, <2>3 DEF alive
<1>7. SIGINT \in pending => SIGINT \in masked
  BY DEF Fork, ready
<1> QED BY <1>1, <1>4, <1>5, <1>6, <1>7

-------------------------------------------------------------------------------
(* One lemma per action: it preserves the inductive invariant. *)

LEMMA InitEstablishes == Init => IInv
<1> SUFFICES ASSUME Init PROVE IInv
  OBVIOUS
<1>1. /\ at = "fork" /\ frames = <<>> /\ Len(frames) = 0 /\ pending = {}
      /\ ~is_stopped /\ over = "no" /\ child_pid = 0
      /\ child \in [Children -> Processes]
      /\ \A c \in Children : child[c].at = "none" /\ ~alive(c)
  <2> DEFINE new == [at |-> "none", knows |-> 0, handlers |-> FALSE,
                     blocked |-> FALSE, interrupted |-> FALSE]
  <2>1. new \in Processes /\ new.at = "none"
    BY DEF Processes, Pids
  <2>2. child = [c \in Children |-> new]
    BY DEF Init
  <2> HIDE DEF new
  <2>3. child \in [Children -> Processes] /\ \A c \in Children : child[c].at = "none"
    BY <2>1, <2>2
  <2> QED BY <2>3 DEF Init, alive
<1>2. TypeOK
  <2>1. cpid \in Pids /\ child_pid \in Pids /\ pressed \in 0..Presses
    BY <1>1, Numbers DEF Init, Pids
  <2>2. frames \in Seq(Frames) /\ pending \in SUBSET Both
    BY <1>1
  <2>3. cstat_set \in BOOLEAN /\ is_stopped \in BOOLEAN /\ alone \in BOOLEAN
    BY DEF Init
  <2> QED BY <1>1, <2>1, <2>2, <2>3 DEF TypeOK
<1> QED BY <1>1, <1>2 DEF IInv, FramesInv, StartInv, DateInv, HearsInv, NestInv, PkillInv,
             OverInv, SurvivorExplained

LEMMA NotOver == ASSUME over' = "no" PROVE OverInv'
BY DEF OverInv, SurvivorExplained

LEMMA StillOver ==
  ASSUME IInv, Fewer, over' = over, child_pid' = child_pid, alone' = alone
  PROVE  OverInv'
<1>1. \A c \in Children : /\ alive(c)' => alive(c)
                          /\ survives(c)' => survives(c) /\ child'[c].blocked = child[c].blocked
  BY DEF Fewer, survives
<1> QED BY <1>1 DEF IInv, OverInv, SurvivorExplained

(* Steps that only move main, or end children. *)
LEMMA Steady ==
  ASSUME IInv, Fewer, frames' = frames, pending' = pending, is_stopped' = is_stopped,
         child_pid' = child_pid, alone' = alone, at' = at \/ at' # "fork"
  PROVE  FramesInv' /\ StartInv' /\ DateInv' /\ HearsInv' /\ NestInv' /\ PkillInv'
<1>1. FramesInv'
  BY DEF IInv, FramesInv
<1>2. StartInv'
  BY DEF IInv, StartInv, Fewer
<1>3. DateInv'
  BY DEF IInv, DateInv, Fewer
<1>4. HearsInv'
  BY DEF IInv, HearsInv, Fewer, hears
<1>5. NestInv'
  BY DEF IInv, NestInv, Fewer
<1>6. PkillInv'
  BY DEF IInv, PkillInv, Fewer
<1> QED BY <1>1, <1>2, <1>3, <1>4, <1>5, <1>6

LEMMA FirstForkPreserves == ASSUME IInv, FirstFork PROVE IInv'
<1>1. PICK pid \in fork_results :
        /\ Fork(pid, "execl", FALSE) /\ cpid' = pid /\ child_pid' = pid
  BY DEF FirstFork
<1>2. /\ over = "no" /\ frames = <<>> /\ Len(frames) = 0 /\ at = "fork" /\ at' = "sigaction"
      /\ UNCHANGED <<cstat_set, is_stopped, pending, frames, over, pressed, alone>>
  BY DEF FirstFork, running, users
<1>3. TypeOK
  BY DEF IInv
<1>4. /\ pid \in Pids /\ child' \in [Children -> Processes]
      /\ \A c \in Children : c # pid => (alive(c)' <=> alive(c))
      /\ SIGINT \in pending => SIGINT \in masked
  BY <1>1, <1>3, Forking
<1>5. TypeOK'
  BY <1>1, <1>2, <1>3, <1>4 DEF TypeOK
<1>6. ~is_stopped /\ \A c \in Children : ~alive(c)
  BY <1>2 DEF IInv, StartInv, alive
<1>7. FramesInv' /\ StartInv' /\ NestInv' /\ PkillInv'
  BY <1>2 DEF FramesInv, StartInv, NestInv, PkillInv
<1>8. DateInv'
  BY <1>1, <1>2, <1>4, <1>6 DEF DateInv
<1>9. HearsInv'
  <2>1. SIGINT \notin masked
    BY <1>2 DEF masked
  <2> QED BY <1>2, <1>4, <2>1 DEF HearsInv
<1> QED BY <1>2, <1>5, <1>7, <1>8, <1>9, NotOver DEF IInv

LEMMA SetHandlerPreserves == ASSUME IInv, SetHandler PROVE IInv'
<1>1. /\ at' \in {"signal", "waitpid"}
      /\ UNCHANGED <<cpid, cstat_set, child_pid, is_stopped, pending, frames, child, over,
                     pressed, alone>>
  BY DEF SetHandler, locals, shared, users
<1>2. TypeOK'
  BY <1>1 DEF IInv, TypeOK
<1> QED BY <1>1, <1>2, Same, Steady, StillOver DEF IInv

LEMMA ReapPreserves == ASSUME IInv, Reap PROVE IInv'
<1>1. PICK c \in reapable :
        child[c].at = "zombie" /\ child' = [child EXCEPT ![c].at = "reaped"]
  BY DEF Reap
<1>2. /\ cstat_set' = TRUE
      /\ UNCHANGED <<at, cpid, child_pid, is_stopped, pending, frames, over, pressed, alone>>
  BY DEF Reap, shared, users
<1>3. TypeOK
  BY DEF IInv
<1>4. child' \in [Children -> Processes] /\ Fewer
  <2>1. CASE c \in Children
    <3> DEFINE new == [child[c] EXCEPT !.at = "reaped"]
    <3>1. child[c] \in Processes /\ child \in [Children -> Processes]
      BY <1>3, <2>1 DEF TypeOK
    <3>2. new \in Processes /\ new.at = "reaped"
      BY <3>1 DEF Processes
    <3>3. child' = [child EXCEPT ![c] = new]
      BY <1>1
    <3> HIDE DEF new
    <3>4. /\ child' \in [Children -> Processes] /\ child'[c] = new
          /\ \A d \in Children : d # c => child'[d] = child[d]
      BY <2>1, <3>1, <3>2, <3>3
    <3> QED BY <1>1, <3>2, <3>4 DEF Fewer, alive
  <2>2. CASE c \notin Children
    <3>1. child' = child
      BY <1>1, <1>3, <2>2 DEF TypeOK
    <3> QED BY <1>3, <3>1, Same DEF TypeOK
  <2> QED BY <2>1, <2>2
<1>5. TypeOK'
  BY <1>2, <1>3, <1>4 DEF TypeOK
<1> QED BY <1>2, <1>4, <1>5, Steady, StillOver DEF IInv

LEMMA ReturnThreePreserves == ASSUME IInv, ReturnThree PROVE IInv'
<1>1. /\ over' = "3"
      /\ UNCHANGED <<at, cpid, cstat_set, child_pid, is_stopped, pending, frames, child,
                     pressed, alone>>
  BY DEF ReturnThree, locals, shared, users
<1>2. TypeOK'
  BY <1>1 DEF IInv, TypeOK
<1>3. OverInv'
  BY <1>1 DEF OverInv, SurvivorExplained
<1> QED BY <1>1, <1>2, <1>3, Same, Steady DEF IInv

LEMMA WaitAgainPreserves == ASSUME IInv, WaitAgain PROVE IInv'
<1>1. /\ at' = "waitpid"
      /\ UNCHANGED <<cpid, cstat_set, child_pid, is_stopped, pending, frames, child, over,
                     pressed, alone>>
  BY DEF WaitAgain, locals, shared, users
<1>2. TypeOK'
  BY <1>1 DEF IInv, TypeOK
<1> QED BY <1>1, <1>2, Same, Steady, StillOver DEF IInv

LEMMA PkillExitsPreserves == ASSUME IInv, PkillExits PROVE IInv'
<1> DEFINE n == Len(frames)
<1>1. /\ frames # <<>> /\ frames[n].sig = SIGINT /\ frames[n].at = "exit" /\ over' = "exit"
      /\ UNCHANGED <<at, cpid, cstat_set, child_pid, is_stopped, pending, frames, child,
                     pressed, alone>>
  BY DEF PkillExits, Handling, Last, locals, shared, users
<1>2. TypeOK' /\ n \in 1..n
  BY <1>1, EmptySeq DEF IInv, TypeOK
<1>3. OverInv'
  <2>1. ASSUME NEW c \in Children, survives(c)
        PROVE  child[c].blocked \/ (alone /\ c # child_pid)
    <3>1. alive(c) /\ (~child[c].interrupted \/ child[c].blocked)
      BY <2>1 DEF survives
    <3>2. child[c].interrupted \/ child[c].blocked \/ alone
      <4>1. hears(c)
        BY <1>1, <1>2, <3>1 DEF IInv, HearsInv
      <4> QED BY <4>1 DEF hears
    <3>3. c # child_pid \/ child[c].blocked
      BY <1>1, <1>2, <3>1 DEF IInv, PkillInv
    <3> QED BY <3>1, <3>2, <3>3
  <2>2. \A c \in Children : survives(c)' <=> survives(c)
    BY <1>1, Same DEF survives
  <2> QED BY <1>1, <2>1, <2>2 DEF OverInv, SurvivorExplained
<1> QED BY <1>1, <1>2, <1>3, Same, Steady DEF IInv

LEMMA StutterPreserves == ASSUME IInv, UNCHANGED vars PROVE IInv'
<1>1. UNCHANGED <<at, cpid, cstat_set, child_pid, is_stopped, pending, frames, child, over,
                  pressed, alone>>
  BY DEF vars, locals, shared, users
<1>2. TypeOK'
  BY <1>1 DEF IInv, TypeOK
<1> QED BY <1>1, <1>2, Same, Steady, StillOver DEF IInv

LEMMA DeliverPreserves == ASSUME IInv, Deliver PROVE IInv'
<1>1. PICK sig \in ready :
        /\ pending' = pending \ {sig}
        /\ frames' = IF has_handler(sig)
                     THEN Append(frames, [sig |-> sig, at |-> "begin", pid |-> 0]) ELSE frames
        /\ over' = IF sig = SIGINT /\ ~has_handler(sig) THEN "default" ELSE over
  BY DEF Deliver
<1>2. /\ over = "no"
      /\ UNCHANGED <<at, cpid, cstat_set, child_pid, is_stopped, child, pressed, alone>>
  BY DEF Deliver, locals, shared, users
<1>3. TypeOK /\ frames \in Seq(Frames)
  BY DEF IInv, TypeOK
<1>4. sig \in Both /\ sig \in pending /\ sig \notin masked
  BY <1>3 DEF ready, TypeOK
<1>5. Fewer /\ \A c \in Children : alive(c)' <=> alive(c)
  BY <1>2, Same
<1>6. CASE ~has_handler(sig)
  <2>1. frames' = frames
    BY <1>1, <1>6
  <2>2. TypeOK'
    BY <1>1, <1>2, <1>3, <1>4, <2>1 DEF TypeOK
  <2>3. FramesInv' /\ StartInv' /\ DateInv' /\ NestInv' /\ PkillInv'
    BY <1>2, <1>5, <2>1 DEF IInv, FramesInv, StartInv, DateInv, NestInv, PkillInv, Fewer
  <2>4. HearsInv'
    BY <1>1, <1>2, <1>5, <2>1 DEF IInv, HearsInv, hears
  <2>5. OverInv'
    <3>1. CASE sig = SIGINT
      <4>1. over' = "default"
        BY <1>1, <1>6, <3>1
      <4>2. ASSUME NEW c \in Children, survives(c) PROVE child[c].blocked \/ alone
        <5>1. alive(c) /\ (~child[c].interrupted \/ child[c].blocked)
          BY <4>2 DEF survives
        <5>2. child[c].interrupted \/ child[c].blocked \/ alone
          <6>1. hears(c)
            BY <1>4, <3>1, <5>1 DEF IInv, HearsInv
          <6> QED BY <6>1 DEF hears
        <5> QED BY <5>1, <5>2
      <4>3. \A c \in Children : survives(c)' <=> survives(c)
        BY <1>2, <1>5 DEF survives
      <4> QED BY <1>2, <4>1, <4>2, <4>3 DEF OverInv, SurvivorExplained
    <3>2. CASE sig # SIGINT
      BY <1>1, <1>2, <3>2, NotOver
    <3> QED BY <3>1, <3>2
  <2> QED BY <2>2, <2>3, <2>4, <2>5 DEF IInv
<1>7. CASE has_handler(sig)
  <2> DEFINE f == [sig |-> sig, at |-> "begin", pid |-> 0]  m == Len(frames')
  <2>1. f \in Frames /\ f.sig = sig /\ f.at = "begin"
    BY <1>4 DEF Frames, Pids
  <2>2. frames' = Append(frames, f)
    BY <1>1, <1>7
  <2> HIDE DEF f
  <2>3. /\ frames' \in Seq(Frames) /\ m \in 1..m /\ frames'[m] = f
        /\ Len(frames') = Len(frames) + 1
        /\ \A i \in 1..m : i # m => i \in 1..Len(frames)
        /\ \A i \in 1..Len(frames) : i \in 1..m /\ i # m /\ frames'[i] = frames[i]
    BY <1>3, <2>1, <2>2, Pushed
  <2>4. TypeOK'
    <3>1. over' \in {"no", "3", "default", "exit", "killed"}
      BY <1>1, <1>2
    <3>2. pending' \in SUBSET Both
      BY <1>1, <1>3 DEF TypeOK
    <3> QED BY <1>2, <1>3, <2>3, <3>1, <3>2 DEF TypeOK
  <2>5. FramesInv'
    <3>1. \A i \in 1..Len(frames) : frames[i].sig # sig
      BY <1>4 DEF masked
    <3>2. FramesInv
      BY DEF IInv
    <3>3. \A i \in 1..m : (i = m /\ frames'[i].sig = sig /\ frames'[i].at = "begin")
                          \/ (i # m /\ i \in 1..Len(frames) /\ frames'[i] = frames[i])
      BY <2>1, <2>3
    <3> HIDE DEF m
    <3>4. \A i, j \in 1..m : i # j => frames'[i].sig # frames'[j].sig
      BY <3>1, <3>2, <3>3 DEF FramesInv
    <3>5. \A i \in 1..m : /\ frames'[i].at = "forked" => frames'[i].sig = SIGTSTP
                          /\ frames'[i].at = "exit" => frames'[i].sig = SIGINT
      BY <3>2, <3>3 DEF FramesInv
    <3> QED BY <3>4, <3>5 DEF FramesInv, m
  <2>6. StartInv'
    BY <1>2, <1>7 DEF StartInv, has_handler
  <2>7. DateInv'
    <3>1. DateInv
      BY DEF IInv
    <3>2. \A i \in 1..m : frames'[i].at = "forked" => is_stopped
      BY <2>1, <2>3, <3>1 DEF DateInv
    <3>3. \A c \in Children : alive(c) =>
            \/ ~is_stopped /\ c = child_pid
            \/ /\ is_stopped
               /\ \E i \in 1..m : frames'[i].at = "forked" /\ frames'[i].pid = c
      BY <2>3, <3>1 DEF DateInv
    <3> QED BY <1>2, <1>5, <3>2, <3>3 DEF DateInv
  <2>8. HearsInv'
    <3>1. ASSUME NEW c \in Children, alive(c) PROVE /\ SIGINT \in pending' => hears(c)
                                                    /\ \A i \in 1..m : frames'[i].sig = SIGINT => hears(c)
      <4>1. /\ SIGINT \in pending => hears(c)
            /\ \A i \in 1..Len(frames) : frames[i].sig = SIGINT => hears(c)
        BY <3>1 DEF IInv, HearsInv
      <4> QED BY <1>1, <1>4, <2>1, <2>3, <4>1
    <3>2. \A c \in Children : hears(c)' <=> hears(c)
      BY <1>2 DEF hears
    <3> QED BY <1>5, <3>1, <3>2 DEF HearsInv
  <2>9. NestInv'
    <3>1. ASSUME NEW i \in 1..m, NEW j \in 1..m, j < i, frames'[j].sig = SIGINT,
                 frames'[i].at = "forked", NEW c \in Children, alive(c), c = frames'[i].pid
          PROVE  child[c].blocked
      <4>1. i # m
        BY <2>1, <2>3, <3>1
      <4>2. i \in 1..Len(frames) /\ j \in 1..Len(frames)
        BY <2>3, <3>1, <4>1
      <4> QED BY <2>3, <3>1, <4>2 DEF IInv, NestInv
    <3> QED BY <1>2, <1>5, <3>1 DEF NestInv
  <2>10. PkillInv'
    <3>1. ASSUME NEW i \in 1..m, frames'[i].at = "exit", NEW c \in Children, alive(c)
          PROVE  c # child_pid \/ child[c].blocked
      <4>1. i # m
        BY <2>1, <2>3, <3>1
      <4> QED BY <2>3, <3>1, <4>1 DEF IInv, PkillInv
    <3> QED BY <1>2, <1>5, <3>1 DEF PkillInv
  <2>11. OverInv'
    BY <1>1, <1>2, <1>7, NotOver
  <2> QED BY <2>4, <2>5, <2>6, <2>7, <2>8, <2>9, <2>10, <2>11 DEF IInv
<1> QED BY <1>6, <1>7

(* The handler at work is the last frame, and no other has its signal. *)
LEMMA AtWork ==
  ASSUME IInv, NEW sig \in Both, NEW place, Handling(sig, place)
  PROVE  /\ over = "no" /\ frames # <<>> /\ frames \in Seq(Frames)
         /\ Len(frames) \in Nat \ {0} /\ Len(frames) \in 1..Len(frames)
         /\ frames[Len(frames)].sig = sig /\ frames[Len(frames)].at = place
         /\ frames[Len(frames)].pid \in Pids
         /\ \A i \in 1..Len(frames) : i # Len(frames) => i < Len(frames) /\ frames[i].sig # sig
<1>1. /\ over = "no" /\ frames # <<>>
      /\ frames[Len(frames)].sig = sig /\ frames[Len(frames)].at = place
  BY DEF Handling, Last
<1>2. frames \in Seq(Frames) /\ FramesInv
  BY DEF IInv, TypeOK
<1>3. Len(frames) \in Nat \ {0} /\ Len(frames) \in 1..Len(frames)
  BY <1>1, <1>2, EmptySeq
<1>4. frames[Len(frames)].pid \in Pids
  <2>1. frames[Len(frames)] \in Frames
    BY <1>2, <1>3
  <2> QED BY <2>1 DEF Frames
<1> QED BY <1>1, <1>2, <1>3, <1>4 DEF FramesInv

(* The handler that returns: the frames before its own remain. *)
LEMMA Returning ==
  ASSUME IInv, frames # <<>>, Return
  PROVE  /\ at' = at \/ at' = "interrupted"
         /\ frames' \in Seq(Frames) /\ FramesInv'
         /\ \A i \in 1..Len(frames') : i \in 1..Len(frames) /\ i # Len(frames)
                                       /\ frames'[i] = frames[i]
<1>1. at' = at \/ at' = "interrupted"
  BY DEF Return
<1>2. frames \in Seq(Frames) /\ frames' = Front(frames)
  BY DEF IInv, TypeOK, Return
<1>3. /\ frames' \in Seq(Frames)
      /\ \A i \in 1..Len(frames') : i \in 1..Len(frames) /\ i # Len(frames)
                                    /\ frames'[i] = frames[i]
  BY <1>2, Popped
<1>4. FramesInv'
  BY <1>3 DEF IInv, FramesInv
<1> QED BY <1>1, <1>3, <1>4

LEMMA StopPreserves == ASSUME IInv, Stop PROVE IInv'
<1> DEFINE n == Len(frames)
<1>1. /\ Handling(SIGTSTP, "begin") /\ ~is_stopped /\ Kill(child_pid)
      /\ is_stopped' = TRUE /\ Return
      /\ UNCHANGED <<cpid, cstat_set, child_pid, pending, over, pressed, alone>>
  BY DEF Stop, locals, users
<1>2. /\ over = "no" /\ frames # <<>>
  BY <1>1, AtWork, Numbers
<1>3. TypeOK
  BY DEF IInv
<1>4. /\ child' \in [Children -> Processes] /\ Fewer
      /\ \A c \in Children : alive(c)' => c # child_pid
  BY <1>1, <1>3, Killing
<1>5. /\ at' = at \/ at' = "interrupted"
      /\ frames' \in Seq(Frames) /\ FramesInv'
      /\ \A i \in 1..Len(frames') : i \in 1..n /\ i # n /\ frames'[i] = frames[i]
  BY <1>1, <1>2, Returning
<1>6. TypeOK'
  BY <1>1, <1>3, <1>4, <1>5 DEF TypeOK
<1>7. \A c \in Children : ~alive(c)'
  <2>1. \A c \in Children : alive(c) => c = child_pid
    BY <1>1 DEF IInv, DateInv
  <2> QED BY <1>4, <2>1 DEF Fewer
<1>8. StartInv'
  BY <1>2, <1>5 DEF IInv, StartInv
<1>9. DateInv' /\ HearsInv' /\ NestInv' /\ PkillInv'
  BY <1>1, <1>7 DEF DateInv, HearsInv, NestInv, PkillInv
<1> QED BY <1>1, <1>2, <1>5, <1>6, <1>8, <1>9, NotOver DEF IInv

(* The child forked is the only one alive, and this handler's. *)
LEMMA ResumePreserves == ASSUME IInv, Resume PROVE IInv'
<1> DEFINE n == Len(frames)
<1>1. PICK pid \in fork_results : Fork(pid, "copy", TRUE) /\ Goto("forked", pid)
  BY DEF Resume
<1>2. /\ Handling(SIGTSTP, "begin") /\ is_stopped
      /\ UNCHANGED <<at, cpid, cstat_set, child_pid, is_stopped, pending, over, pressed, alone>>
  BY DEF Resume, locals, shared, users
<1>3. TypeOK
  BY DEF IInv
<1>4. /\ over = "no" /\ frames # <<>> /\ n \in Nat \ {0} /\ n \in 1..n
      /\ frames[n].sig = SIGTSTP /\ frames[n].at = "begin"
      /\ \A i \in 1..n : i # n => i < n /\ frames[i].sig # SIGTSTP
  BY <1>2, AtWork, Numbers
<1>5. /\ pid \in Pids
      /\ child' \in [Children -> Processes]
      /\ \A c \in Children : c # pid => child'[c] = child[c] /\ (alive(c)' <=> alive(c))
      /\ \A c \in Children : c = pid => (child'[c].blocked <=> SIGINT \in masked)
      /\ SIGINT \in pending => SIGINT \in masked
  BY <1>1, <1>3, Forking
<1>6. /\ frames' \in Seq(Frames) /\ Len(frames') = n
      /\ frames'[n].at = "forked" /\ frames'[n].pid = pid /\ frames'[n].sig = SIGTSTP
      /\ \A i \in 1..n : i # n => frames'[i] = frames[i]
  BY <1>1, <1>3, <1>4, <1>5, Moved
<1>7. TypeOK'
  BY <1>2, <1>3, <1>5, <1>6 DEF TypeOK
<1>8. \A c \in Children : ~alive(c)
  <2>1. \A i \in 1..n : frames[i].at # "forked"
    BY <1>4 DEF IInv, FramesInv
  <2> QED BY <1>2, <2>1 DEF IInv, DateInv
<1>9. \A c \in Children : alive(c)' => c = pid
  BY <1>5, <1>8
<1>10. /\ SIGINT \in masked <=> \E i \in 1..n : frames[i].sig = SIGINT
       /\ \A i \in 1..n : frames'[i].sig = frames[i].sig
  BY <1>4, <1>6 DEF masked
<1>11. FramesInv'
  BY <1>6, <1>10, Numbers DEF IInv, FramesInv
<1>12. StartInv'
  BY <1>2, <1>4 DEF IInv, StartInv
<1>13. DateInv'
  BY <1>2, <1>4, <1>6, <1>9 DEF DateInv
<1>14. HearsInv'
  <2>1. ASSUME NEW c \in Children, alive(c)', SIGINT \in masked PROVE hears(c)'
    BY <1>5, <1>9, <2>1 DEF hears
  <2> QED BY <1>2, <1>5, <1>6, <1>10, <2>1 DEF HearsInv
<1>15. NestInv'
  <2>1. ASSUME NEW c \in Children, alive(c)', NEW j \in 1..n, frames'[j].sig = SIGINT
        PROVE  child'[c].blocked
    BY <1>5, <1>9, <1>10, <2>1
  <2> QED BY <1>6, <2>1 DEF NestInv
<1>16. PkillInv'
  <2>1. ASSUME NEW c \in Children, alive(c)', NEW j \in 1..n, frames'[j].at = "exit"
        PROVE  child'[c].blocked
    <3>1. j # n /\ frames[j].sig = SIGINT
      BY <1>6, <2>1 DEF IInv, FramesInv
    <3> QED BY <1>5, <1>9, <1>10, <2>1, <3>1
  <2> QED BY <1>6, <2>1 DEF PkillInv
<1> QED BY <1>2, <1>4, <1>7, <1>11, <1>12, <1>13, <1>14, <1>15, <1>16, NotOver DEF IInv

LEMMA AssignPreserves == ASSUME IInv, Assign PROVE IInv'
<1> DEFINE n == Len(frames)  pid == frames[n].pid
<1>1. /\ Handling(SIGTSTP, "forked") /\ child_pid' = pid /\ is_stopped' = FALSE /\ Return
      /\ UNCHANGED <<cpid, cstat_set, pending, child, over, pressed, alone>>
  BY DEF Assign, stopped_after_fork, Last, locals, users
<1>2. TypeOK
  BY DEF IInv
<1>3. /\ over = "no" /\ frames # <<>> /\ n \in Nat \ {0} /\ n \in 1..n /\ pid \in Pids
      /\ frames[n].sig = SIGTSTP /\ frames[n].at = "forked"
      /\ \A i \in 1..n : i # n => i < n /\ frames[i].sig # SIGTSTP
  BY <1>1, AtWork, Numbers
<1>4. /\ at' = at \/ at' = "interrupted"
      /\ frames' \in Seq(Frames) /\ FramesInv'
      /\ \A i \in 1..Len(frames') : i \in 1..n /\ i # n /\ frames'[i] = frames[i]
  BY <1>1, <1>3, Returning
<1>5. TypeOK'
  BY <1>1, <1>2, <1>3, <1>4 DEF TypeOK
<1>6. \A i \in 1..n : i # n => frames[i].at # "forked"
  BY <1>3 DEF IInv, FramesInv
<1>7. /\ is_stopped
      /\ \A c \in Children : alive(c) => c = pid
  <2>1. is_stopped
    BY <1>3 DEF IInv, DateInv
  <2> QED BY <1>6, <2>1 DEF IInv, DateInv
<1>8. \A c \in Children : alive(c)' <=> alive(c)
  BY <1>1, Same
<1>9. StartInv'
  BY <1>3, <1>4 DEF IInv, StartInv
<1>10. DateInv'
  BY <1>1, <1>4, <1>6, <1>7, <1>8 DEF DateInv
<1>11. HearsInv'
  BY <1>1, <1>4, <1>8 DEF IInv, HearsInv, hears
<1>12. NestInv'
  BY <1>4, <1>6 DEF NestInv
<1>13. PkillInv'
  <2>1. ASSUME NEW i \in 1..Len(frames'), frames'[i].at = "exit", NEW c \in Children, alive(c)
        PROVE  child[c].blocked
    <3>1. i \in 1..n /\ i < n /\ frames[i].sig = SIGINT
      BY <1>3, <1>4, <2>1 DEF IInv, FramesInv
    <3> QED BY <1>3, <1>7, <2>1, <3>1 DEF IInv, NestInv
  <2> QED BY <1>1, <1>8, <2>1 DEF PkillInv
<1> QED BY <1>1, <1>3, <1>4, <1>5, <1>9, <1>10, <1>11, <1>12, <1>13, NotOver DEF IInv

LEMMA PkillKillsPreserves == ASSUME IInv, PkillKills PROVE IInv'
<1> DEFINE n == Len(frames)
<1>1. /\ Handling(SIGINT, "begin") /\ Kill(child_pid) /\ Goto("exit", 0)
      /\ UNCHANGED <<at, cpid, cstat_set, child_pid, is_stopped, pending, over, pressed, alone>>
  BY DEF PkillKills, locals, shared, users
<1>2. TypeOK
  BY DEF IInv
<1>3. /\ over = "no" /\ frames # <<>> /\ n \in Nat \ {0} /\ n \in 1..n
      /\ frames[n].sig = SIGINT /\ frames[n].at = "begin"
      /\ \A i \in 1..n : i # n => frames[i].sig # SIGINT
  BY <1>1, AtWork, Numbers
<1>4. /\ child' \in [Children -> Processes] /\ Fewer
      /\ \A c \in Children : alive(c)' => c # child_pid
  BY <1>1, <1>2, Killing
<1>5. /\ frames' \in Seq(Frames) /\ Len(frames') = n
      /\ frames'[n].at = "exit" /\ frames'[n].sig = SIGINT
      /\ \A i \in 1..n : i # n => frames'[i] = frames[i]
  BY <1>1, <1>2, <1>3, Moved DEF Pids
<1>6. TypeOK'
  BY <1>1, <1>2, <1>4, <1>5 DEF TypeOK
<1>7. /\ \A i \in 1..n : frames'[i].sig = frames[i].sig
      /\ \A i \in 1..n : frames'[i].at = "forked" <=> frames[i].at = "forked"
      /\ \A i \in 1..n : frames[i].at = "forked" => frames'[i] = frames[i]
  BY <1>3, <1>5
<1>8. FramesInv'
  BY <1>5, <1>7 DEF IInv, FramesInv
<1>9. StartInv'
  BY <1>1, <1>3 DEF IInv, StartInv
<1>10. DateInv'
  BY <1>1, <1>4, <1>5, <1>7 DEF IInv, DateInv, Fewer
<1>11. HearsInv'
  BY <1>1, <1>4, <1>5, <1>7 DEF IInv, HearsInv, Fewer, hears
<1>12. NestInv'
  BY <1>4, <1>5, <1>7 DEF IInv, NestInv, Fewer
<1>13. PkillInv'
  BY <1>1, <1>4 DEF PkillInv
<1> QED BY <1>1, <1>3, <1>6, <1>8, <1>9, <1>10, <1>11, <1>12, <1>13, NotOver DEF IInv

LEMMA ChildStepPreserves == ASSUME IInv, NEW c \in Children, ChildStep(c) PROVE IInv'
<1>1. /\ \/ /\ child[c].at = "copy"
            /\ child' = [child EXCEPT ![c].at = "execl", ![c].knows = 0]
         \/ /\ child[c].at = "execl"
            /\ \E place \in {"date", "zombie"} : child' = [child EXCEPT ![c].at = place]
      /\ UNCHANGED <<at, cpid, cstat_set, child_pid, is_stopped, pending, frames, over,
                     pressed, alone>>
  BY DEF ChildStep, locals, shared, users
<1>2. TypeOK /\ child \in [Children -> Processes] /\ child[c] \in Processes
  BY DEF IInv, TypeOK
<1>3. PICK new \in Processes :
        /\ child' = [child EXCEPT ![c] = new] /\ new.at # "none"
        /\ new.blocked = child[c].blocked /\ new.interrupted = child[c].interrupted
  <2>1. CASE child' = [child EXCEPT ![c].at = "execl", ![c].knows = 0]
    <3> DEFINE new == [child[c] EXCEPT !.at = "execl", !.knows = 0]
    <3>1. /\ new \in Processes /\ new.at # "none"
          /\ new.blocked = child[c].blocked /\ new.interrupted = child[c].interrupted
      BY <1>2 DEF Processes, Pids
    <3>2. child' = [child EXCEPT ![c] = new]
      BY <1>2, <2>1
    <3> QED BY <3>1, <3>2
  <2>2. ASSUME NEW place \in {"date", "zombie"}, child' = [child EXCEPT ![c].at = place]
        PROVE  \E new \in Processes :
                 /\ child' = [child EXCEPT ![c] = new] /\ new.at # "none"
                 /\ new.blocked = child[c].blocked /\ new.interrupted = child[c].interrupted
    <3> DEFINE new == [child[c] EXCEPT !.at = place]
    <3>1. /\ new \in Processes /\ new.at # "none"
          /\ new.blocked = child[c].blocked /\ new.interrupted = child[c].interrupted
      BY <1>2, <2>2 DEF Processes
    <3>2. child' = [child EXCEPT ![c] = new]
      BY <1>2, <2>2
    <3> QED BY <3>1, <3>2
  <2> QED BY <1>1, <2>1, <2>2
<1>4. /\ child' \in [Children -> Processes] /\ child'[c] = new
      /\ \A d \in Children : d # c => child'[d] = child[d]
  BY <1>2, <1>3
<1>5. alive(c) /\ child[c].at # "none"
  BY <1>1 DEF alive
<1>6. Fewer
  BY <1>3, <1>4, <1>5 DEF Fewer, alive
<1>7. TypeOK'
  BY <1>1, <1>2, <1>4 DEF TypeOK
<1> QED BY <1>1, <1>6, <1>7, Steady, StillOver DEF IInv

(* A copy of main that knows no child takes everybody with it. *)
LEMMA ChildInterruptedPreserves ==
  ASSUME IInv, NEW c \in Children, ChildInterrupted(c)
  PROVE  IInv'
<1> DEFINE target == IF child[c].handlers /\ child[c].at # "date" THEN child[c].knows ELSE c
           S == killed(target) \cup {c}
<1>1. /\ alive(c)
      /\ child' = [d \in Children |-> IF d \in S THEN ended(d) ELSE child[d]]
      /\ over' = IF over = "no" /\ target \notin Children THEN "killed" ELSE over
      /\ UNCHANGED <<at, cpid, cstat_set, child_pid, is_stopped, pending, frames, pressed, alone>>
  BY DEF ChildInterrupted, locals, shared, users
<1>2. TypeOK
  BY DEF IInv
<1>3. \A d \in S : d \in Children /\ alive(d)
  BY <1>1 DEF killed
<1>4. /\ child' \in [Children -> Processes] /\ Fewer
      /\ \A d \in Children : alive(d)' => d \notin S
  <2> HIDE DEF S
  <2> QED BY <1>1, <1>2, <1>3, SomeEnd
<1>5. TypeOK'
  <2> HIDE DEF target
  <2>1. over' \in {"no", "3", "default", "exit", "killed"}
    BY <1>1, <1>2 DEF TypeOK
  <2> QED BY <1>1, <1>2, <1>4, <2>1 DEF TypeOK
<1>6. OverInv'
  <2>1. CASE over = "no" /\ target \notin Children
    <3>1. \A d \in Children : ~alive(d)'
      BY <1>4, <2>1 DEF killed, Fewer
    <3> QED BY <3>1 DEF OverInv, SurvivorExplained, survives
  <2>2. CASE ~(over = "no" /\ target \notin Children)
    <3> HIDE DEF target
    <3>1. over' = over
      BY <1>1, <2>2
    <3> QED BY <1>1, <1>4, <3>1, StillOver
  <2> QED BY <2>1, <2>2
<1> QED BY <1>1, <1>4, <1>5, <1>6, Steady DEF IInv

LEMMA PressPreserves ==
  ASSUME IInv, NEW sig \in {SIGINT, SIGTSTP}, Press(sig)
  PROVE  IInv'
<1>1. /\ over = "no" /\ pressed < Presses /\ pressed' = pressed + 1
      /\ pending' = pending \cup {sig}
      /\ \/ /\ child' = [c \in Children |-> IF alive(c) /\ sig = SIGINT
                           THEN [child[c] EXCEPT !.interrupted = TRUE] ELSE child[c]]
            /\ alone' = alone
         \/ alone' = TRUE /\ child' = child
      /\ UNCHANGED <<at, cpid, cstat_set, child_pid, is_stopped, frames, over>>
  BY DEF Press, locals, shared
<1>2. TypeOK /\ child \in [Children -> Processes]
  BY DEF IInv, TypeOK
<1>3. ASSUME NEW c \in Children
      PROVE  /\ child'[c] \in Processes /\ child'[c].at = child[c].at
             /\ child'[c].blocked = child[c].blocked
             /\ child[c].interrupted => child'[c].interrupted
             /\ alive(c) /\ sig = SIGINT => child'[c].interrupted \/ alone'
             /\ alone => alone'
  <2> DEFINE new == [child[c] EXCEPT !.interrupted = TRUE]
  <2>1. child[c] \in Processes
    BY <1>2
  <2>2. /\ new \in Processes /\ new.at = child[c].at /\ new.blocked = child[c].blocked
        /\ new.interrupted
    BY <2>1 DEF Processes
  <2> HIDE DEF new
  <2>3. CASE alone' = TRUE /\ child' = child
    BY <2>1, <2>3
  <2>4. CASE /\ child' = [d \in Children |-> IF alive(d) /\ sig = SIGINT
                           THEN [child[d] EXCEPT !.interrupted = TRUE] ELSE child[d]]
             /\ alone' = alone
    <3>1. child'[c] = IF alive(c) /\ sig = SIGINT THEN new ELSE child[c]
      BY <2>4 DEF new
    <3> QED BY <2>1, <2>2, <2>4, <3>1
  <2> QED BY <1>1, <2>3, <2>4
<1>4. child' \in [Children -> Processes]
  <2>1. DOMAIN child' = Children /\ child' = [c \in Children |-> child'[c]]
    BY <1>1, <1>2
  <2> QED BY <1>3, <2>1
<1>5. TypeOK'
  <2>1. pressed' \in 0..Presses
    BY <1>1, <1>2, Numbers DEF TypeOK
  <2>2. pending' \in SUBSET Both
    BY <1>1, <1>2, Numbers DEF TypeOK
  <2>3. alone' \in BOOLEAN
    BY <1>1, <1>2 DEF TypeOK
  <2> QED BY <1>1, <1>2, <1>4, <2>1, <2>2, <2>3 DEF TypeOK
<1>6. \A c \in Children : alive(c)' <=> alive(c)
  BY <1>3 DEF alive
<1>7. FramesInv' /\ StartInv'
  BY <1>1, <1>3 DEF IInv, FramesInv, StartInv
<1>8. DateInv'
  BY <1>1, <1>6 DEF IInv, DateInv
<1>9. HearsInv'
  <2>1. \A c \in Children : hears(c) => hears(c)'
    BY <1>3 DEF hears
  <2>2. \A c \in Children : alive(c) /\ sig = SIGINT => hears(c)'
    BY <1>3 DEF hears
  <2> QED BY <1>1, <1>6, <2>1, <2>2 DEF IInv, HearsInv
<1>10. NestInv' /\ PkillInv'
  BY <1>1, <1>3, <1>6 DEF IInv, NestInv, PkillInv
<1> QED BY <1>1, <1>5, <1>7, <1>8, <1>9, <1>10, NotOver DEF IInv

LEMMA NextPreserves == IInv /\ [Next]_vars => IInv'
<1> SUFFICES ASSUME IInv, [Next]_vars PROVE IInv'
  OBVIOUS
<1>1. CASE FirstFork
  BY <1>1, FirstForkPreserves
<1>2. CASE SetHandler
  BY <1>2, SetHandlerPreserves
<1>3. CASE Reap
  BY <1>3, ReapPreserves
<1>4. CASE ReturnThree
  BY <1>4, ReturnThreePreserves
<1>5. CASE WaitAgain
  BY <1>5, WaitAgainPreserves
<1>6. CASE Deliver
  BY <1>6, DeliverPreserves
<1>7. CASE Stop
  BY <1>7, StopPreserves
<1>8. CASE Resume
  BY <1>8, ResumePreserves
<1>9. CASE Assign
  BY <1>9, AssignPreserves
<1>10. CASE PkillKills
  BY <1>10, PkillKillsPreserves
<1>11. CASE PkillExits
  BY <1>11, PkillExitsPreserves
<1>12. ASSUME NEW c \in Children, ChildStep(c) PROVE IInv'
  BY <1>12, ChildStepPreserves
<1>13. ASSUME NEW c \in Children, ChildInterrupted(c) PROVE IInv'
  BY <1>13, ChildInterruptedPreserves
<1>14. ASSUME NEW sig \in {SIGINT, SIGTSTP}, Press(sig) PROVE IInv'
  BY <1>14, PressPreserves
<1>15. CASE UNCHANGED vars
  BY <1>15, StutterPreserves
<1> QED
  BY <1>1, <1>2, <1>3, <1>4, <1>5, <1>6, <1>7, <1>8, <1>9, <1>10, <1>11, <1>12, <1>13,
     <1>14, <1>15 DEF Next, MainStep

-------------------------------------------------------------------------------
(* What holds in every behaviour. *)

(* IInv is an inductive invariant of main, its children and the users. *)
THEOREM Invariance == Spec => []IInv
BY InitEstablishes, NextPreserves, PTL DEF Spec

(* Every variable keeps its type. *)
THEOREM Typing == Spec => []TypeOK
<1>1. IInv => TypeOK
  BY DEF IInv
<1> QED BY Invariance, <1>1, PTL

(* However many Ctrl-C and Ctrl-Z interrupt one another, there is never a  *)
(* second date.sh, and none that main, back from its handlers, believes to *)
(* be stopped.                                                             *)
THEOREM NeverTwoDates == Spec => []OneDate
<1>1. IInv => OneDate
  <2> SUFFICES ASSUME IInv PROVE OneDate
    OBVIOUS
  <2> DEFINE dates == {c \in Children : alive(c)}
  <2>1. FramesInv /\ DateInv
    BY DEF IInv
  <2>2. \A c, d \in dates : c = d
    <3>1. CASE is_stopped
      <4>1. ASSUME NEW c \in dates, NEW d \in dates PROVE c = d
        <5>1. PICK i \in 1..Len(frames) : frames[i].at = "forked" /\ frames[i].pid = c
          BY <2>1, <3>1, <4>1 DEF DateInv
        <5>2. PICK j \in 1..Len(frames) : frames[j].at = "forked" /\ frames[j].pid = d
          BY <2>1, <3>1, <4>1 DEF DateInv
        <5>3. i = j
          BY <2>1, <5>1, <5>2 DEF FramesInv
        <5> QED BY <5>1, <5>2, <5>3
      <4> QED BY <4>1
    <3>2. CASE ~is_stopped
      BY <2>1, <3>2 DEF DateInv
    <3> QED BY <3>1, <3>2
  <2>3. Cardinality(dates) <= 1
    <3>1. CASE dates = {}
      BY <3>1, FS_EmptySet
    <3>2. CASE dates # {}
      <4>1. PICK c : c \in dates
        BY <3>2
      <4>2. dates = {c}
        BY <2>2, <4>1
      <4> QED BY <4>2, FS_Singleton
    <3> QED BY <3>1, <3>2
  <2>4. running /\ is_stopped => dates = {}
    <3> SUFFICES ASSUME running, is_stopped PROVE dates = {}
      OBVIOUS
    <3>1. Len(frames) = 0
      BY DEF running
    <3> QED BY <2>1, <3>1 DEF DateInv
  <2> QED BY <2>3, <2>4 DEF OneDate
<1> QED BY Invariance, <1>1, PTL

(* A date.sh that outlives main was left by the test of cstat, was forked  *)
(* while a SIGINT handler was interrupted, or never got the signal, which  *)
(* was sent to main alone and killed main or another child.                *)
THEOREM Survivors == Spec => []SurvivorExplained
<1>1. IInv => SurvivorExplained
  BY DEF IInv, OverInv
<1> QED BY Invariance, <1>1, PTL

-------------------------------------------------------------------------------
(* Interpreters: what each process of a line can be, and the variables' types. *)
Idle == \A p \in DOMAIN process : process[p] \in {"none", "reaped"}
Reaped == {p \in DOMAIN process : process[p] = "reaped"}

BatchTypeOK ==
  /\ extended \in BOOLEAN /\ fclose_seeks \in BOOLEAN
  /\ script \in Seq(Lines) /\ Len(script) \in 1..MaxLines
  /\ ~extended => \A n \in 1..Len(script) : Len(script[n]) = 1
  /\ offset \in Nat /\ buffered \in Seq(Nat) /\ line \in Nat
  /\ pc \in {"open", "getline", "pipe", "fork", "wait", "ended"}
  /\ process \in [1..Len(programs) ->
                    {"none", "setup", "running", "exited", "failed", "reaped"}]
  /\ waits \in Nat /\ code \in -1..4 /\ sought \in BOOLEAN

(* The buffer holds the lines that follow, and the offset is behind them   *)
(* unless a child has moved it back.                                       *)
StreamInv ==
  /\ \A k \in 1..Len(buffered) : buffered[k] = line + k
  /\ offset <= line + Len(buffered) /\ line + Len(buffered) <= Len(script)
  /\ ~sought => offset = line + Len(buffered)

(* A line begins with no process of another, and as many are reaped as     *)
(* wait has been called, unless there were no more to wait for.            *)
ProcessesInv ==
  /\ pc \in {"open", "getline"} => Idle
  /\ pc \in {"pipe", "fork"} => waits = 0 /\ Reaped = {}
  /\ pc \in {"pipe", "fork"} /\ (pc = "pipe" \/ ~extended) =>
       \A p \in DOMAIN process : process[p] = "none"
  /\ pc \in {"pipe", "fork", "wait"} => line > 0
  /\ pc = "wait" => waits <= totalProgs /\ (Idle \/ waits = Cardinality(Reaped))

(* Exit status 0 is that of the end of the script; in lab3 a child moves   *)
(* the offset only when its program, and with it the interpreter, fails.   *)
EndInv ==
  /\ code = 0 => pc = "ended" /\ Idle
  /\ ~extended /\ sought =>
       \/ pc = "wait" /\ process[1] = "failed"
       \/ pc = "ended" /\ code # 0

BatchInv == BatchTypeOK /\ StreamInv /\ ProcessesInv /\ EndInv

-------------------------------------------------------------------------------
(* Interpreters: lines, processes and the parent's steps. *)

LEMMA Scripting ==
  ASSUME BatchTypeOK
  PROVE  /\ MaxLines \in Nat /\ BufferLines \in Nat \ {0}
         /\ \A n \in 1..Len(script) : /\ script[n] \in Seq(Kinds) /\ Len(script[n]) \in Nat \ {0}
                                      /\ script[n][1] # "none"
<1>1. \A n \in 1..Len(script) : script[n] \in Lines
  BY DEF BatchTypeOK
<1> QED BY <1>1, ConstantsAssumption

LEMMA LineTyped ==
  ASSUME BatchTypeOK, StreamInv
  PROVE  /\ line \in 0..Len(script) /\ Len(script) \in Nat /\ Len(buffered) \in Nat
         /\ Len(programs) \in Nat /\ DOMAIN process = 1..Len(programs)
         /\ line > 0 => programs = script[line] /\ Len(programs) > 0 /\ programs[1] # "none"
         /\ ~extended /\ line > 0 => DOMAIN process = {1}
<1>1. line \in 0..Len(script) /\ Len(script) \in Nat /\ Len(buffered) \in Nat
  BY DEF BatchTypeOK, StreamInv
<1>2. CASE line = 0
  <2>1. Len(programs) = 0
    BY <1>2 DEF programs
  <2> QED BY <1>1, <1>2, <2>1 DEF BatchTypeOK
<1>3. CASE line > 0
  <2>1. line \in 1..Len(script) /\ programs = script[line]
    BY <1>1, <1>3 DEF programs
  <2>2. Len(programs) \in Nat \ {0} /\ programs[1] # "none"
    BY <2>1, Scripting
  <2>3. ~extended => Len(programs) = 1
    BY <2>1 DEF BatchTypeOK
  <2>4. DOMAIN process = 1..Len(programs)
    BY DEF BatchTypeOK
  <2>5. ~extended => DOMAIN process = {1}
    <3>1. 1..1 = {1}
      OBVIOUS
    <3> QED BY <2>3, <2>4, <3>1
  <2>6. Len(programs) \in Nat /\ Len(programs) > 0
    BY <2>2
  <2> QED BY <1>1, <2>1, <2>2, <2>4, <2>5, <2>6
<1> QED BY <1>1, <1>2, <1>3

(* The parent's steps that leave the line and its stream alone. *)
SameLine == UNCHANGED <<fixed, stream>>

LEMMA SameLineKeeps ==
  ASSUME BatchInv, SameLine, sought' = sought,
         pc' \in {"getline", "pipe", "fork", "wait", "ended"},
         process' \in [1..Len(programs) ->
                         {"none", "setup", "running", "exited", "failed", "reaped"}],
         waits' \in Nat, code' \in -1..4
  PROVE  BatchTypeOK' /\ StreamInv'
<1>1. BatchTypeOK /\ StreamInv
  BY DEF BatchInv
<1>2. programs' = programs
  BY DEF SameLine, fixed, stream, programs
<1>3. BatchTypeOK'
  BY <1>1, <1>2 DEF SameLine, fixed, stream, BatchTypeOK
<1>4. StreamInv'
  BY <1>1 DEF SameLine, fixed, stream, StreamInv
<1> QED BY <1>3, <1>4

LEMMA ReapedCounted ==
  ASSUME BatchInv
  PROVE  /\ IsFiniteSet(Reaped) /\ Cardinality(Reaped) \in 0..Len(programs)
         /\ Cardinality(Reaped) = Len(programs) => Idle
<1>1. DOMAIN process = 1..Len(programs) /\ Len(programs) \in Nat
  BY LineTyped DEF BatchInv
<1>2. IsFiniteSet(DOMAIN process) /\ Cardinality(DOMAIN process) = Len(programs)
  BY <1>1, FS_Interval
<1>3. Reaped \subseteq DOMAIN process
  BY DEF Reaped
<1>4. /\ IsFiniteSet(Reaped) /\ Cardinality(Reaped) <= Len(programs)
      /\ Cardinality(Reaped) = Len(programs) => Reaped = DOMAIN process
  BY <1>2, <1>3, FS_Subset
<1>5. Cardinality(Reaped) \in Nat
  BY <1>4, FS_CardinalityType
<1>6. Reaped = DOMAIN process => Idle
  BY DEF Reaped, Idle
<1> QED BY <1>1, <1>4, <1>5, <1>6

-------------------------------------------------------------------------------
(* Interpreters: one lemma for each step. *)

LEMMA BatchInitEstablishes == ASSUME BatchInit PROVE BatchInv
<1>1. PICK m \in 1..MaxLines : script \in [1..m -> Lines]
  BY DEF BatchInit, Scripts
<1>2. m \in Nat \ {0} /\ MaxLines \in Nat
  BY <1>1, ConstantsAssumption
<1>3. script \in Seq(Lines) /\ Len(script) = m /\ DOMAIN script = 1..m
  BY <1>1, <1>2
<1>4. ~extended => \A n \in 1..Len(script) : Len(script[n]) = 1
  BY <1>3 DEF BatchInit
<1>5. /\ buffered = <<>> /\ buffered \in Seq(Nat) /\ Len(buffered) = 0
      /\ process = <<>> /\ Len(programs) = 0 /\ DOMAIN process = 1..0
  BY DEF BatchInit, programs
<1>6. process \in [1..Len(programs) ->
                    {"none", "setup", "running", "exited", "failed", "reaped"}]
  BY <1>5
<1>7. BatchTypeOK
  <2>1. Len(script) \in 1..MaxLines
    BY <1>1, <1>3
  <2>2. /\ extended \in BOOLEAN /\ fclose_seeks \in BOOLEAN /\ offset = 0 /\ line = 0
        /\ pc = "open" /\ waits = 0 /\ code = -1 /\ sought = FALSE
    BY DEF BatchInit
  <2>3. offset \in Nat /\ line \in Nat /\ waits \in Nat /\ code \in -1..4
    BY <2>2, SMT
  <2>4. sought \in BOOLEAN
    BY <2>2
  <2> QED BY <1>3, <1>4, <1>5, <1>6, <2>1, <2>2, <2>3, <2>4 DEF BatchTypeOK
<1>8. StreamInv
  BY <1>2, <1>3, <1>5 DEF BatchInit, StreamInv
<1>9. ProcessesInv /\ EndInv
  BY <1>5 DEF BatchInit, ProcessesInv, EndInv, Idle
<1> QED BY <1>7, <1>8, <1>9 DEF BatchInv

LEMMA OpenKeeps == ASSUME BatchInv, Open PROVE BatchInv'
<1>1. BatchTypeOK' /\ StreamInv'
  BY SameLineKeeps DEF Open, SameLine, MainReturns, BatchInv, BatchTypeOK
<1>2. Idle /\ code # 0 /\ process' = process /\ code' \in {code, 1, 2} /\ pc' \in {"getline", "ended"}
  BY DEF Open, MainReturns, BatchInv, ProcessesInv, EndInv
<1>3. ~(~extended /\ sought)
  BY DEF Open, BatchInv, EndInv
<1>4. ProcessesInv' /\ EndInv'
  BY <1>2, <1>3 DEF Open, fixed, ProcessesInv, EndInv, Idle
<1> QED BY <1>1, <1>4 DEF BatchInv

(* What getline finds ahead: the lines that follow, unless the offset has  *)
(* been moved, and none only at the end of the script.                     *)
Ahead ==
  LET left == Len(script) - offset
      size == IF left < BufferLines THEN left ELSE BufferLines IN
  IF buffered # <<>> THEN buffered ELSE [n \in 1..size |-> offset + n]

LEMMA AheadFollows ==
  ASSUME BatchInv, NEW end,
         end = IF buffered # <<>> THEN offset ELSE offset + Len(Ahead)
  PROVE  /\ Ahead \in Seq(Nat) /\ Len(Ahead) \in Nat /\ end \in Nat
         /\ Ahead = <<>> => line = Len(script) /\ end = offset
         /\ Ahead # <<>> =>
              /\ Ahead[1] \in 1..Len(script)
              /\ \A k \in 1..Len(Ahead) : Ahead[k] = Ahead[1] - 1 + k
              /\ Ahead[1] - 1 + Len(Ahead) <= Len(script)
              /\ end <= Ahead[1] - 1 + Len(Ahead)
              /\ ~sought => Ahead[1] = line + 1 /\ end = line + Len(Ahead)
<1>1. BatchTypeOK /\ StreamInv
  BY DEF BatchInv
<1>2. /\ offset \in Nat /\ buffered \in Seq(Nat) /\ line \in Nat /\ Len(script) \in Nat
      /\ Len(buffered) \in Nat /\ BufferLines \in Nat \ {0}
  BY <1>1, Scripting DEF BatchTypeOK
<1>3. CASE buffered # <<>>
  <2>1. Ahead = buffered /\ end = offset /\ Len(buffered) > 0
    BY <1>2, <1>3 DEF Ahead
  <2>2. buffered[1] = line + 1
    BY <1>1, <1>2, <2>1 DEF StreamInv
  <2> QED BY <1>1, <1>2, <1>3, <2>1, <2>2 DEF StreamInv
<1>4. CASE buffered = <<>>
  <2>1. Len(buffered) = 0
    BY <1>4
  <2>2. offset <= line /\ line <= Len(script) /\ (~sought => offset = line)
    BY <1>1, <1>2, <2>1 DEF StreamInv
  <2> DEFINE left == Len(script) - offset
             size == IF left < BufferLines THEN left ELSE BufferLines
  <2>3. left \in Nat /\ size \in Nat /\ size <= left /\ (size = 0 => left = 0)
    BY <1>2, <2>2
  <2>4. Ahead = [n \in 1..size |-> offset + n]
    BY <1>4 DEF Ahead
  <2> HIDE DEF size
  <2>5. Ahead \in Seq(Nat) /\ Len(Ahead) = size /\ \A k \in 1..size : Ahead[k] = offset + k
    BY <1>2, <2>3, <2>4
  <2>6. end = offset + size
    BY <1>4, <2>5
  <2>7. CASE size = 0
    <3>1. Ahead = <<>> /\ line = Len(script) /\ end = offset
      BY <1>2, <2>2, <2>3, <2>5, <2>6, <2>7
    <3> QED BY <1>2, <2>5, <2>6, <2>7, <3>1
  <2>8. CASE size > 0
    <3>1. Ahead # <<>> /\ Ahead[1] = offset + 1
      BY <2>3, <2>5, <2>8
    <3>2. offset + size <= Len(script)
      BY <1>2, <2>3
    <3> QED BY <1>2, <2>2, <2>3, <2>5, <2>6, <2>8, <3>1, <3>2
  <2> QED BY <2>3, <2>7, <2>8
<1> QED BY <1>3, <1>4

LEMMA GetlineSteps ==
  ASSUME getline
  PROVE  /\ pc = "getline"
         /\ offset' = IF buffered # <<>> THEN offset ELSE offset + Len(Ahead)
         /\ \/ /\ Ahead # <<>>
               /\ line' = Head(Ahead) /\ buffered' = Tail(Ahead)
               /\ process' = [p \in 1..Len(script[line']) |-> "none"]
               /\ waits' = 0 /\ pc' = (IF extended THEN "pipe" ELSE "fork")
               /\ UNCHANGED code
            \/ /\ Ahead = <<>>
               /\ pc' = "ended" /\ code' = 0
               /\ UNCHANGED <<line, buffered, process, waits>>
         /\ UNCHANGED <<fixed, sought>>
BY DEF getline, Ahead, MainReturns

LEMMA GetlineKeeps == ASSUME BatchInv, getline PROVE BatchInv'
<1>1. BatchTypeOK /\ StreamInv /\ ProcessesInv /\ EndInv
  BY DEF BatchInv
<1>2. /\ Ahead \in Seq(Nat) /\ Len(Ahead) \in Nat /\ offset' \in Nat
      /\ Ahead = <<>> => line = Len(script) /\ offset' = offset
      /\ Ahead # <<>> =>
           /\ Ahead[1] \in 1..Len(script)
           /\ \A k \in 1..Len(Ahead) : Ahead[k] = Ahead[1] - 1 + k
           /\ Ahead[1] - 1 + Len(Ahead) <= Len(script)
           /\ offset' <= Ahead[1] - 1 + Len(Ahead)
           /\ ~sought => Ahead[1] = line + 1 /\ offset' = line + Len(Ahead)
  BY GetlineSteps, AheadFollows
<1>3. /\ pc = "getline" /\ Idle /\ code # 0 /\ ~(~extended /\ sought)
      /\ UNCHANGED <<extended, fclose_seeks, script, sought>>
  BY <1>1, GetlineSteps DEF ProcessesInv, EndInv, fixed
<1>4. CASE Ahead = <<>>
  <2>1. /\ UNCHANGED <<line, buffered, process, waits, offset>>
        /\ pc' = "ended" /\ code' = 0
    BY <1>2, <1>4, GetlineSteps
  <2>2. programs' = programs
    BY <1>3, <2>1 DEF programs
  <2>3. BatchTypeOK'
    BY <1>1, <1>3, <2>1, <2>2 DEF BatchTypeOK
  <2>4. StreamInv'
    BY <1>1, <1>3, <2>1 DEF StreamInv
  <2>5. ProcessesInv' /\ EndInv'
    BY <1>3, <2>1 DEF ProcessesInv, EndInv, Idle
  <2> QED BY <2>3, <2>4, <2>5 DEF BatchInv
<1>5. CASE Ahead # <<>>
  <2>1. /\ line' = Ahead[1] /\ buffered' = Tail(Ahead)
        /\ process' = [p \in 1..Len(script[line']) |-> "none"]
        /\ waits' = 0 /\ pc' = (IF extended THEN "pipe" ELSE "fork") /\ code' = code
    BY <1>2, <1>5, GetlineSteps
  <2>2. /\ buffered' \in Seq(Nat) /\ Len(buffered') = Len(Ahead) - 1
        /\ \A k \in 1..Len(buffered') : buffered'[k] = Ahead[k + 1] /\ k + 1 \in 1..Len(Ahead)
    BY <1>2, <1>5, <2>1
  <2>3. line' \in 1..Len(script) /\ programs' = script[line']
    BY <1>2, <1>3, <1>5, <2>1 DEF programs
  <2>4. Len(programs') \in Nat
    BY <1>1, <2>3, Scripting
  <2>5. BatchTypeOK'
    BY <1>1, <1>2, <1>3, <2>1, <2>2, <2>3, <2>4 DEF BatchTypeOK
  <2>6. StreamInv'
    <3>1. Len(script) \in Nat /\ line \in Nat /\ Ahead[1] \in Nat
      BY <1>1, <1>2, <1>5 DEF BatchTypeOK
    <3>2. ASSUME NEW k \in 1..Len(buffered') PROVE buffered'[k] = line' + k
      <4>1. k \in Nat /\ k + 1 \in 1..Len(Ahead) /\ buffered'[k] = Ahead[k + 1]
        BY <2>2
      <4>2. Ahead[k + 1] = Ahead[1] - 1 + (k + 1)
        BY <1>2, <1>5, <4>1
      <4> QED BY <2>1, <3>1, <4>1, <4>2
    <3> QED BY <1>2, <1>3, <1>5, <2>1, <2>2, <3>1, <3>2 DEF StreamInv
  <2>7. ProcessesInv' /\ EndInv'
    BY <1>3, <2>1, <2>3 DEF ProcessesInv, EndInv, Reaped
  <2> QED BY <2>5, <2>6, <2>7 DEF BatchInv
<1> QED BY <1>4, <1>5

LEMMA PipeKeeps == ASSUME BatchInv, pipe PROVE BatchInv'
<1>1. BatchTypeOK' /\ StreamInv'
  BY SameLineKeeps DEF pipe, SameLine, MainReturns, BatchInv, BatchTypeOK
<1>2. line > 0
  BY DEF pipe, BatchInv, ProcessesInv
<1>3. ProcessesInv' /\ EndInv'
  BY <1>2 DEF pipe, MainReturns, fixed, stream, BatchInv, ProcessesInv, EndInv, Reaped
<1> QED BY <1>1, <1>3 DEF BatchInv

LEMMA ForkKeeps == ASSUME BatchInv, fork PROVE BatchInv'
<1>1. process' \in [1..Len(programs) ->
                      {"none", "setup", "running", "exited", "failed", "reaped"}]
  BY DEF fork, BatchInv, BatchTypeOK
<1>2. BatchTypeOK' /\ StreamInv'
  BY <1>1, SameLineKeeps DEF fork, SameLine, BatchInv, BatchTypeOK
<1>3. Reaped' = {} /\ Cardinality(Reaped') = 0 /\ waits' = 0
  <2>1. waits' = 0 /\ Reaped = {}
    BY DEF fork, BatchInv, ProcessesInv
  <2>2. Reaped' = {}
    BY <2>1 DEF fork, Reaped
  <2> QED BY <2>1, <2>2, FS_EmptySet
<1>4. code # 0 /\ code' = code /\ extended' = extended /\ ~(~extended /\ sought)
  BY DEF fork, fixed, BatchInv, EndInv
<1>5. line' > 0 /\ totalProgs' \in Nat
  <2>1. line > 0 /\ Len(programs) \in Nat
    BY LineTyped DEF fork, BatchInv, ProcessesInv
  <2> QED BY <2>1 DEF fork, fixed, stream, totalProgs, programs
<1>6. ProcessesInv' /\ EndInv'
  BY <1>3, <1>4, <1>5 DEF fork, ProcessesInv, EndInv
<1> QED BY <1>2, <1>6 DEF BatchInv

LEMMA ForkFailsKeeps == ASSUME BatchInv, ForkFails PROVE BatchInv'
<1>1. BatchTypeOK' /\ StreamInv'
  BY SameLineKeeps DEF ForkFails, SameLine, MainReturns, BatchInv, BatchTypeOK
<1>2. /\ code # 0 /\ process' = process /\ ~(~extended /\ sought)
      /\ ~extended => Idle
      /\ pc' = "ended" \/ (pc' = "getline" /\ ~extended)
      /\ code' # 0
  BY DEF ForkFails, MainReturns, BatchInv, ProcessesInv, EndInv, Idle
<1>3. ProcessesInv' /\ EndInv'
  BY <1>2 DEF ForkFails, fixed, ProcessesInv, EndInv, Idle
<1> QED BY <1>1, <1>3 DEF BatchInv

LEMMA ClosePipesKeeps == ASSUME BatchInv, ClosePipes PROVE BatchInv'
<1>1. BatchTypeOK' /\ StreamInv'
  BY SameLineKeeps DEF ClosePipes, SameLine, BatchInv, BatchTypeOK
<1>2. Reaped' = {} /\ Cardinality(Reaped') = 0 /\ waits' = 0
  <2>1. waits' = 0 /\ Reaped' = {}
    BY DEF ClosePipes, BatchInv, ProcessesInv, Reaped
  <2> QED BY <2>1, FS_EmptySet
<1>3. code # 0 /\ ~(~extended /\ sought)
  BY DEF ClosePipes, BatchInv, EndInv
<1>4. line' > 0 /\ totalProgs' \in Nat
  <2>1. line > 0 /\ Len(programs) \in Nat
    BY LineTyped DEF ClosePipes, BatchInv, ProcessesInv
  <2> QED BY <2>1 DEF ClosePipes, fixed, stream, totalProgs, programs
<1>5. ProcessesInv' /\ EndInv'
  BY <1>2, <1>3, <1>4 DEF ClosePipes, fixed, ProcessesInv, EndInv
<1> QED BY <1>1, <1>5 DEF BatchInv

LEMMA WaitKeeps == ASSUME BatchInv, wait PROVE BatchInv'
<1>1. BatchTypeOK /\ ProcessesInv /\ EndInv /\ DOMAIN process = 1..Len(programs)
  BY LineTyped DEF BatchInv
<1>2. /\ pc = "wait" /\ waits < totalProgs /\ waits' = waits + 1 /\ waits \in Nat
      /\ totalProgs \in Nat /\ line > 0 /\ code # 0 /\ totalProgs' = totalProgs
      /\ UNCHANGED <<extended, sought, line>>
  BY <1>1, LineTyped DEF wait, fixed, stream, totalProgs, programs, BatchTypeOK, ProcessesInv,
                         EndInv, BatchInv
<1>3. CASE (\A p \in DOMAIN process : process[p] \in {"none", "reaped"})
           /\ UNCHANGED <<process, pc, code>>
  <2>1. BatchTypeOK' /\ StreamInv'
    BY <1>1, <1>2, <1>3, SameLineKeeps DEF wait, SameLine, BatchTypeOK
  <2>2. Idle' /\ pc' = "wait" /\ waits' <= totalProgs'
    BY <1>2, <1>3 DEF Idle
  <2>3. ProcessesInv' /\ EndInv'
    BY <1>1, <1>2, <1>3, <2>2 DEF ProcessesInv, EndInv
  <2> QED BY <2>1, <2>3 DEF BatchInv
<1>4. ASSUME NEW p \in DOMAIN process, Dead(p),
             process' = [process EXCEPT ![p] = IF line_failed(p) THEN @ ELSE "reaped"],
             IF line_failed(p) THEN MainReturns(3) ELSE UNCHANGED <<pc, code>>
      PROVE  BatchInv'
  <2>1. process' \in [1..Len(programs) ->
                        {"none", "setup", "running", "exited", "failed", "reaped"}]
    BY <1>1, <1>4 DEF BatchTypeOK
  <2>2. BatchTypeOK' /\ StreamInv'
    BY <1>1, <1>2, <1>4, <2>1, SameLineKeeps
       DEF wait, SameLine, MainReturns, BatchTypeOK
  <2>3. CASE line_failed(p)
    <3>1. pc' = "ended" /\ code' = 3
      BY <1>4, <2>3 DEF MainReturns
    <3>2. ProcessesInv' /\ EndInv'
      BY <3>1 DEF ProcessesInv, EndInv
    <3> QED BY <2>2, <3>2 DEF BatchInv
  <2>4. CASE ~line_failed(p)
    <3>1. pc' = "wait" /\ code' = code /\ process' = [process EXCEPT ![p] = "reaped"]
      BY <1>2, <1>4, <2>4
    <3>2. ~Idle /\ p \notin Reaped
      BY <1>4 DEF Idle, Dead, Reaped
    <3>3. Reaped' = Reaped \cup {p}
      BY <1>1, <1>4, <3>1 DEF Reaped
    <3>4. Cardinality(Reaped') = Cardinality(Reaped) + 1
      BY <3>2, <3>3, ReapedCounted, FS_AddElement
    <3>5. waits = Cardinality(Reaped)
      BY <1>1, <1>2, <3>2 DEF ProcessesInv
    <3>6. ~(~extended /\ sought)
      <4>1. ~extended => p = 1
        BY <1>2, <1>4, LineTyped DEF BatchInv
      <4> QED BY <1>1, <1>2, <2>4, <4>1 DEF EndInv, line_failed
    <3>7. ProcessesInv' /\ EndInv'
      BY <1>2, <3>1, <3>4, <3>5, <3>6 DEF ProcessesInv, EndInv
    <3> QED BY <2>2, <3>7 DEF BatchInv
  <2> QED BY <2>3, <2>4
<1> QED BY <1>3, <1>4 DEF wait

LEMMA AllWaitedKeeps == ASSUME BatchInv, AllWaited PROVE BatchInv'
<1>1. BatchTypeOK' /\ StreamInv'
  BY SameLineKeeps DEF AllWaited, SameLine, BatchInv, BatchTypeOK
<1>2. Idle
  BY ReapedCounted DEF AllWaited, totalProgs, BatchInv, ProcessesInv
<1>3. code # 0 /\ ~(~extended /\ sought)
  <2>1. line > 0 /\ code # 0
    BY DEF AllWaited, BatchInv, ProcessesInv, EndInv
  <2>2. ~extended => 1 \in DOMAIN process
    BY <2>1, LineTyped DEF BatchInv
  <2> QED BY <1>2, <2>1, <2>2 DEF AllWaited, BatchInv, EndInv, Idle
<1>4. ProcessesInv' /\ EndInv'
  BY <1>2, <1>3 DEF AllWaited, fixed, ProcessesInv, EndInv, Idle
<1> QED BY <1>1, <1>4 DEF BatchInv

(* A child that is neither reaped nor waiting to be: its parent is not      *)
(* about to read a line and has not come to the end of the script.          *)
LEMMA ChildActs ==
  ASSUME BatchInv, NEW p \in DOMAIN process, process[p] \in {"setup", "running"},
         NEW s \in {"running", "exited", "failed"},
         process' = [process EXCEPT ![p] = s],
         UNCHANGED <<fixed, buffered, line, pc, waits, code>>
  PROVE  /\ process' \in [1..Len(programs) ->
                            {"none", "setup", "running", "exited", "failed", "reaped"}]
         /\ programs' = programs
         /\ ProcessesInv' /\ code # 0 /\ (~extended => pc \in {"wait", "ended"} /\ p = 1)
         /\ ~(~extended /\ sought) \/ pc = "ended"
<1>1. BatchTypeOK /\ ProcessesInv /\ EndInv /\ DOMAIN process = 1..Len(programs)
  BY LineTyped DEF BatchInv
<1>2. process' \in [1..Len(programs) ->
                      {"none", "setup", "running", "exited", "failed", "reaped"}]
  BY <1>1 DEF BatchTypeOK
<1>3. programs' = programs /\ totalProgs' = totalProgs
  BY DEF fixed, programs, totalProgs
<1>4. ~Idle /\ code # 0 /\ pc \in {"fork", "wait", "ended"}
  BY <1>1 DEF Idle, ProcessesInv, EndInv, BatchTypeOK
<1>5. Reaped' = Reaped
  BY <1>1 DEF Reaped
<1>6. ~extended => pc \in {"wait", "ended"}
  BY <1>1, <1>4 DEF ProcessesInv
<1>7. ~extended => p = 1
  <2>1. line > 0
    BY <1>1, LineTyped DEF BatchInv, programs
  <2> QED BY <2>1, LineTyped DEF BatchInv
<1>8. ProcessesInv'
  BY <1>1, <1>3, <1>4, <1>5, <1>6 DEF fixed, ProcessesInv
<1>9. ~(~extended /\ sought) \/ pc = "ended"
  BY <1>1, <1>7 DEF EndInv
<1> QED BY <1>2, <1>3, <1>4, <1>6, <1>7, <1>8, <1>9

LEMMA ChildRunsKeeps ==
  ASSUME BatchInv, NEW p \in DOMAIN process, execvp(p) \/ ProgramEnds(p)
  PROVE  BatchInv'
<1>1. PICK s \in {"running", "exited", "failed"} : process' = [process EXCEPT ![p] = s]
  BY DEF execvp, ProgramEnds
<1>2. /\ process[p] \in {"setup", "running"}
      /\ UNCHANGED <<fixed, stream, pc, waits, code, sought>>
  BY DEF execvp, ProgramEnds
<1>3. /\ process' \in [1..Len(programs) ->
                         {"none", "setup", "running", "exited", "failed", "reaped"}]
      /\ programs' = programs
      /\ ProcessesInv' /\ code # 0
      /\ ~(~extended /\ sought) \/ pc = "ended"
  BY <1>1, <1>2, ChildActs DEF stream
<1>4. BatchTypeOK'
  BY <1>2, <1>3 DEF fixed, stream, BatchInv, BatchTypeOK
<1>5. StreamInv'
  BY <1>2 DEF fixed, stream, BatchInv, StreamInv
<1>6. EndInv'
  BY <1>2, <1>3 DEF fixed, EndInv
<1> QED BY <1>3, <1>4, <1>5, <1>6 DEF BatchInv

LEMMA ExecFailsKeeps ==
  ASSUME BatchInv, NEW p \in DOMAIN process, ExecFails(p)
  PROVE  BatchInv'
<1>1. /\ process[p] \in {"setup", "running"} /\ process' = [process EXCEPT ![p] = "failed"]
      /\ UNCHANGED <<fixed, buffered, line, pc, waits, code>>
  BY DEF ExecFails
<1>2. /\ process' \in [1..Len(programs) ->
                         {"none", "setup", "running", "exited", "failed", "reaped"}]
      /\ programs' = programs
      /\ ProcessesInv' /\ code # 0 /\ (~extended => pc \in {"wait", "ended"} /\ p = 1)
      /\ ~(~extended /\ sought) \/ pc = "ended"
  BY <1>1, ChildActs
<1>3. /\ offset' \in Nat /\ offset' <= offset /\ sought' \in BOOLEAN
      /\ ~sought' => ~sought /\ offset' = offset
  <2> DEFINE unread == Len(buffered)
             moves == fclose_seeks /\ unread \in 1..offset
  <2>1. /\ offset \in Nat /\ unread \in Nat /\ fclose_seeks \in BOOLEAN /\ sought \in BOOLEAN
    BY DEF BatchInv, BatchTypeOK
  <2>2. /\ offset' = IF moves THEN offset - unread ELSE offset
        /\ sought' = (sought \/ moves)
    BY DEF ExecFails
  <2>3. moves \in BOOLEAN /\ (moves => unread <= offset)
    BY <2>1
  <2> HIDE DEF moves
  <2>4. offset' \in Nat /\ offset' <= offset /\ (~moves => offset' = offset)
    BY <2>1, <2>2, <2>3
  <2>5. sought' \in BOOLEAN /\ (~sought' => ~sought /\ ~moves)
    BY <2>1, <2>2, <2>3
  <2> QED BY <2>4, <2>5
<1>4. BatchTypeOK'
  BY <1>1, <1>2, <1>3 DEF fixed, BatchInv, BatchTypeOK
<1>5. StreamInv'
  <2>1. offset \in Nat /\ line \in Nat /\ Len(buffered) \in Nat /\ Len(script) \in Nat
    BY DEF BatchInv, BatchTypeOK
  <2> QED BY <1>1, <1>3, <2>1 DEF fixed, BatchInv, StreamInv
<1>6. EndInv'
  <2>1. process'[p] = "failed"
    BY <1>1
  <2> QED BY <1>1, <1>2, <2>1 DEF fixed, EndInv
<1> QED BY <1>2, <1>4, <1>5, <1>6 DEF BatchInv

LEMMA BatchNextPreserves == BatchInv /\ [BatchNext]_batchVars => BatchInv'
<1> SUFFICES ASSUME BatchInv, [BatchNext]_batchVars PROVE BatchInv'
  OBVIOUS
<1>1. CASE UNCHANGED batchVars
  BY <1>1 DEF batchVars, fixed, stream, BatchInv, BatchTypeOK, StreamInv, ProcessesInv, EndInv,
              Idle, Reaped, programs, totalProgs
<1>2. CASE ParentStep
  BY <1>2, OpenKeeps, GetlineKeeps, PipeKeeps, ForkKeeps, ForkFailsKeeps, ClosePipesKeeps,
     WaitKeeps, AllWaitedKeeps DEF ParentStep
<1>3. ASSUME NEW p, ProcessStep(p) PROVE BatchInv'
  BY <1>3, ChildRunsKeeps, ExecFailsKeeps DEF ProcessStep
<1> QED BY <1>1, <1>2, <1>3 DEF BatchNext

(* BatchInv is an invariant of both interpreters, for scripts of any lines  *)
(* and length and a buffer of any size.                                     *)
THEOREM BatchInvariance == BatchSpec => []BatchInv
<1>1. BatchInit => BatchInv
  BY BatchInitEstablishes
<1> QED BY <1>1, BatchNextPreserves, PTL DEF BatchSpec

(* Lines are read by getline only, and exit status 0 is given there.        *)
LEMMA OnlyGetline ==
  ASSUME BatchInv, [BatchNext]_batchVars, line' # line \/ code' = 0
  PROVE  getline \/ (code = 0 /\ UNCHANGED batchVars)
<1>1. CASE UNCHANGED batchVars
  BY <1>1 DEF batchVars, stream
<1>2. CASE ParentStep
  <2>1. code = 0 => pc = "ended"
    BY DEF BatchInv, EndInv
  <2> QED BY <1>2, <2>1 DEF ParentStep, Open, pipe, fork, ForkFails, ClosePipes, wait, AllWaited,
                      MainReturns, stream
<1>3. ASSUME NEW p, ProcessStep(p) PROVE FALSE
  <2>1. UNCHANGED <<line, code>> /\ p \in DOMAIN process /\ process[p] \in {"setup", "running"}
    BY <1>3 DEF ProcessStep, execvp, ExecFails, ProgramEnds, stream
  <2> QED BY <2>1 DEF BatchInv, EndInv, Idle
<1> QED BY <1>1, <1>2, <1>3 DEF BatchNext

(* Lines run in order and once, and exit status 0 means that the last one   *)
(* ran, unless a child of lab4's interpreter moved the script's offset      *)
(* (cmd_interpreter_extd.c, cmd_interpreter.c).                             *)
THEOREM LinesInOrder == BatchSpec => InOrder
<1> DEFINE A == /\ line' # line => line' = line + 1 \/ (extended /\ sought)
                /\ line' # line /\ ~extended => "failed" \notin Range(process)
                /\ code' = 0 => line = Len(script)
<1>1. BatchInv /\ [BatchNext]_batchVars => [A]_batchVars
  <2> SUFFICES ASSUME BatchInv, [BatchNext]_batchVars, line' # line \/ code' = 0,
                      ~UNCHANGED batchVars
               PROVE  A
    OBVIOUS
  <2>1. getline
    BY OnlyGetline
  <2>2. pc = "getline" /\ code # 0 /\ Idle /\ ~(~extended /\ sought) /\ extended \in BOOLEAN
    BY <2>1 DEF getline, BatchInv, BatchTypeOK, ProcessesInv, EndInv
  <2>3. "failed" \notin Range(process)
    BY <2>2 DEF Idle, Range
  <2>4. /\ Ahead \in Seq(Nat)
        /\ Ahead = <<>> => line = Len(script)
        /\ Ahead # <<>> /\ ~sought => Ahead[1] = line + 1
    BY <2>1, GetlineSteps, AheadFollows
  <2>5. CASE Ahead = <<>>
    <3>1. line' = line
      BY <2>1, <2>5, GetlineSteps
    <3> QED BY <2>4, <2>5, <3>1
  <2>6. CASE Ahead # <<>>
    <3>1. line' = Ahead[1] /\ code' = code
      BY <2>1, <2>4, <2>6, GetlineSteps
    <3> QED BY <2>2, <2>3, <2>4, <2>6, <3>1
  <2> QED BY <2>5, <2>6
<1> QED BY <1>1, BatchInvariance, PTL DEF BatchSpec, InOrder

(* Nothing of an earlier line is left when a line begins or the interpreter *)
(* ends well: wait was called often enough.                                 *)
THEOREM OneLineRuns == BatchSpec => OneLineAtATime
<1> DEFINE A == line' # line \/ code' = 0 =>
                  \A p \in DOMAIN process : process[p] \in {"none", "reaped"}
<1>1. BatchInv /\ [BatchNext]_batchVars => [A]_batchVars
  <2> SUFFICES ASSUME BatchInv, [BatchNext]_batchVars, line' # line \/ code' = 0 PROVE Idle
    BY DEF Idle
  <2>1. getline => Idle
    BY DEF getline, BatchInv, ProcessesInv
  <2>2. code = 0 => Idle
    BY DEF BatchInv, EndInv
  <2> QED BY <2>1, <2>2, OnlyGetline
<1> QED BY <1>1, BatchInvariance, PTL DEF BatchSpec, OneLineAtATime
===============================================================================
