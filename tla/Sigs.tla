--------------------------------- MODULE Sigs ---------------------------------
(***************************************************************************)
(* lab4_signals_and_pipes/sigint_sigtstp: main runs date.sh in a child,    *)
(* SIGTSTP kills the child or starts another one, SIGINT kills it and ends *)
(* main.                                                                   *)
(*                                                                         *)
(* Ctrl-C and Ctrl-Z reach main and its children; a signal may also be     *)
(* sent to main alone.  A handler blocks its own signal only, so each of   *)
(* the two can interrupt the other.  A child is forked with the signals    *)
(* blocked that main has blocked, which exec keeps, and with its handlers, *)
(* which exec resets; fork lets pending signals go first.  A process that  *)
(* SIGTSTP stops by default is alive and taken to be continued.            *)
(***************************************************************************)
EXTENDS Integers, Sequences, SequencesExt, FiniteSets

CONSTANT Presses          \* bound: signals sent by users

ASSUME PressesAssumption == Presses \in Nat

SIGINT == "SIGINT"
SIGTSTP == "SIGTSTP"
Failed == -1               \* what fork returns when it fails
Children == 1..Presses + 1 \* pids, in the order of the forks

VARIABLES
  at,                     \* where main is
  cpid, cstat_set,        \* locals of main: the first child, and whether cstat has a value
  child_pid, is_stopped,
  pending, frames,        \* main's pending signals; its handlers, the running one last
  child,                  \* what each child is and knows
  over,                   \* how main ended, "no" while it runs
  pressed, alone          \* signals sent; whether one was sent to main alone

locals == <<cpid, cstat_set>>
shared == <<child_pid, is_stopped>>
users == <<pressed, alone>>
vars == <<at, locals, shared, pending, frames, child, over, users>>

masked == {frames[i].sig : i \in 1..Len(frames)}
ready == pending \ masked

alive(c) == child[c].at \in {"copy", "execl", "date"}
ended(c) == [child[c] EXCEPT !.at = "zombie"]

(* kill(pid, SIGKILL): 0 is the whole group, -1 everybody else. *)
killed(pid) ==
  IF pid \in Children THEN {pid} \cap {c \in Children : alive(c)}
                      ELSE {c \in Children : alive(c)}

Kill(pid) ==
  child' = [c \in Children |-> IF c \in killed(pid) THEN ended(c) ELSE child[c]]

(* What fork may return, and the child that is a copy of main then. *)
fork_results ==
  {c \in Children : child[c].at = "none" /\ \A d \in 1..c - 1 : child[d].at # "none"}
  \cup {Failed}

Fork(pid, start, has_handlers) ==
  /\ ready = {}
  /\ child' = [c \in Children |-> IF c # pid THEN child[c] ELSE
       [at |-> start, knows |-> child_pid, handlers |-> has_handlers,
        blocked |-> SIGINT \in masked, interrupted |-> FALSE]]

-------------------------------------------------------------------------------
(* main *)

running == over = "no" /\ frames = <<>>

FirstFork ==
  /\ running /\ at = "fork"
  /\ \E pid \in fork_results :
       Fork(pid, "execl", FALSE) /\ cpid' = pid /\ child_pid' = pid
  /\ at' = "sigaction"
  /\ UNCHANGED <<cstat_set, is_stopped, pending, frames, over, users>>

SetHandler ==
  /\ running
  /\ \/ at = "sigaction" /\ at' = "signal"
     \/ at = "signal" /\ at' = "waitpid"
  /\ UNCHANGED <<locals, shared, pending, frames, child, over, users>>

reapable == IF cpid = Failed THEN Children ELSE {cpid}

Reap ==
  /\ running /\ at = "waitpid"
  /\ \E c \in reapable :
       /\ child[c].at = "zombie"
       /\ child' = [child EXCEPT ![c].at = "reaped"]
  /\ cstat_set' = TRUE
  /\ UNCHANGED <<at, cpid, shared, pending, frames, over, users>>

(* waitpid fails, interrupted or for want of children, and the test of     *)
(* cstat reads a variable without a value, which may be -1.                *)
ReturnThree ==
  /\ running /\ ~cstat_set
  /\ \/ at = "interrupted"
     \/ at = "waitpid" /\ \A c \in Children : child[c].at \in {"none", "reaped"}
  /\ over' = "3"
  /\ UNCHANGED <<at, locals, shared, pending, frames, child, users>>

WaitAgain ==
  /\ running /\ at = "interrupted"
  /\ at' = "waitpid"
  /\ UNCHANGED <<locals, shared, pending, frames, child, over, users>>

-------------------------------------------------------------------------------
(* the handlers *)

has_handler(sig) ==
  IF sig = SIGINT THEN at \in {"waitpid", "interrupted"}
                  ELSE at \in {"signal", "waitpid", "interrupted"}

Deliver ==
  /\ over = "no"
  /\ \E sig \in ready :
       /\ pending' = pending \ {sig}
       /\ frames' = IF has_handler(sig) THEN Append(frames, [sig |-> sig, at |-> "begin", pid |-> 0])
                                        ELSE frames
       /\ over' = IF sig = SIGINT /\ ~has_handler(sig) THEN "default" ELSE over
  /\ UNCHANGED <<at, locals, shared, child, users>>

Handling(sig, place) ==
  over = "no" /\ frames # <<>> /\ Last(frames).sig = sig /\ Last(frames).at = place
Goto(place, pid) ==
  frames' = [frames EXCEPT ![Len(frames)].at = place, ![Len(frames)].pid = pid]

(* A handler that returns may have ended a waitpid. *)
Return ==
  /\ frames' = Front(frames)
  /\ at' \in {at} \cup (IF Len(frames) = 1 /\ at = "waitpid" THEN {"interrupted"} ELSE {})

Stop ==
  /\ Handling(SIGTSTP, "begin") /\ ~is_stopped
  /\ Kill(child_pid)
  /\ is_stopped' = TRUE
  /\ Return
  /\ UNCHANGED <<locals, child_pid, pending, over, users>>

(* What fork returned is in the frame until it is assigned. *)
Resume ==
  /\ Handling(SIGTSTP, "begin") /\ is_stopped
  /\ \E pid \in fork_results : Fork(pid, "copy", TRUE) /\ Goto("forked", pid)
  /\ UNCHANGED <<at, locals, shared, pending, over, users>>

(* mutant: the flag is not cleared *)
stopped_after_fork_still == is_stopped

stopped_after_fork == FALSE

Assign ==
  /\ Handling(SIGTSTP, "forked")
  /\ child_pid' = Last(frames).pid
  /\ is_stopped' = stopped_after_fork
  /\ Return
  /\ UNCHANGED <<locals, pending, child, over, users>>

PkillKills ==
  /\ Handling(SIGINT, "begin")
  /\ Kill(child_pid)
  /\ Goto("exit", 0)
  /\ UNCHANGED <<at, locals, shared, pending, over, users>>

PkillExits ==
  /\ Handling(SIGINT, "exit")
  /\ over' = "exit"
  /\ UNCHANGED <<at, locals, shared, pending, frames, child, users>>

-------------------------------------------------------------------------------
(* the children and the users *)

ChildStep(c) ==
  /\ \/ /\ child[c].at = "copy"
        /\ child' = [child EXCEPT ![c].at = "execl", ![c].knows = 0]
     \/ /\ child[c].at = "execl"
        /\ \E place \in {"date", "zombie"} : child' = [child EXCEPT ![c].at = place]
  /\ UNCHANGED <<at, locals, shared, pending, frames, over, users>>

(* SIGINT: date.sh ends, a copy of main that has its handlers runs pkill,  *)
(* which kills main as well if child_pid is 0 or -1.                       *)
ChildInterrupted(c) ==
  LET runs_pkill == child[c].handlers /\ child[c].at # "date"
      target == IF runs_pkill THEN child[c].knows ELSE c IN
  /\ alive(c) /\ child[c].interrupted /\ ~child[c].blocked
  /\ child' = [d \in Children |-> IF d \in killed(target) \cup {c} THEN ended(d) ELSE child[d]]
  /\ over' = IF over = "no" /\ target \notin Children THEN "killed" ELSE over
  /\ UNCHANGED <<at, locals, shared, pending, frames, users>>

Press(sig) ==
  /\ over = "no" /\ pressed < Presses
  /\ pressed' = pressed + 1
  /\ pending' = pending \cup {sig}
  /\ \/ /\ child' = [c \in Children |-> IF alive(c) /\ sig = SIGINT
                       THEN [child[c] EXCEPT !.interrupted = TRUE] ELSE child[c]]
        /\ UNCHANGED alone
     \/ alone' = TRUE /\ UNCHANGED child
  /\ UNCHANGED <<at, locals, shared, frames, over>>

-------------------------------------------------------------------------------
Init ==
  /\ at = "fork" /\ cpid = 0 /\ cstat_set = FALSE
  /\ child_pid = 0 /\ is_stopped = FALSE
  /\ pending = {} /\ frames = <<>>
  /\ child = [c \in Children |-> [at |-> "none", knows |-> 0, handlers |-> FALSE,
                                  blocked |-> FALSE, interrupted |-> FALSE]]
  /\ over = "no" /\ pressed = 0 /\ alone = FALSE

MainStep ==
  \/ FirstFork \/ SetHandler \/ Reap \/ ReturnThree \/ WaitAgain
  \/ Deliver \/ Stop \/ Resume \/ Assign \/ PkillKills \/ PkillExits

Next ==
  \/ MainStep
  \/ \E c \in Children : ChildStep(c) \/ ChildInterrupted(c)
  \/ \E sig \in {SIGINT, SIGTSTP} : Press(sig)

Spec == Init /\ [][Next]_vars

-------------------------------------------------------------------------------
(* Correctness *)

(* Whatever interrupts the handlers, at most one date.sh runs or is about  *)
(* to, and none while main, outside its handlers, believes it is stopped.  *)
OneDate ==
  LET dates == {c \in Children : alive(c)} IN
  /\ Cardinality(dates) <= 1
  /\ running /\ is_stopped => dates = {}

(* Whom no SIGINT on its way will end. *)
survives(c) == alive(c) /\ ~(child[c].interrupted /\ ~child[c].blocked)

(* The program is to pass its SIGINT on: when pkill ends main, the date.sh  *)
(* there is has been killed, or ends with a SIGINT of its own.  The code    *)
(* breaks this: pkill kills the child_pid it finds, which is the one before *)
(* when it interrupts stop_resume between the fork and the assignment.      *)
SignalsPassedOn == over = "exit" => \A c \in Children : ~survives(c)

(* There is no other way to lose it, however main ends: a date.sh outlives *)
(* main only if main was misled by cstat, if it was forked while pkill was *)
(* interrupted and so has SIGINT blocked, or if the signal went to main    *)
(* alone, before its handlers were set or between the fork and the         *)
(* assignment of child_pid.                                                *)
SurvivorExplained ==
  \A c \in Children : over # "no" /\ survives(c) =>
    \/ over = "3"
    \/ child[c].blocked
    \/ alone /\ (over = "default" \/ c # child_pid)
===============================================================================
