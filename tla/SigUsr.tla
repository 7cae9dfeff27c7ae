-------------------------------- MODULE SigUsr --------------------------------
(***************************************************************************)
(* lab4_signals_and_pipes/sigusr: a parent sends its child L signals and   *)
(* one last signal, the child sends every one of the L back and ends at    *)
(* the last.  TYPE 1 sends SIGUSR1 without waiting, TYPE 2 waits in        *)
(* sigsuspend for each answer, TYPE 3 uses real-time signals.              *)
(*                                                                         *)
(* A standard signal that is pending already is not queued again, a        *)
(* real-time signal is.  A process takes the pending signal of the lowest  *)
(* number that is not being handled; as sa_mask is empty, a handler can be *)
(* interrupted, even before its first statement, by any other signal.  No  *)
(* handler asks for SA_RESTART, so a signal ends a waitpid with EINTR.     *)
(*                                                                         *)
(* Nothing is assumed about how long a second of sleep is: the parent may  *)
(* send before the child has set its handlers.                             *)
(***************************************************************************)
EXTENDS Integers, Sequences, SequencesExt, FiniteSets

CONSTANT L          \* number of signals, the first argument

ASSUME LAssumption == L \in Nat \ {0}

SIGUSR1 == 10
SIGUSR2 == 12
SIGRTMIN == 34
SIGRTMAX == 64
Signals == {SIGUSR1, SIGUSR2, SIGRTMIN, SIGRTMAX}
Standard == {SIGUSR1, SIGUSR2}

VARIABLES
  TYPE,                 \* the second argument
  parent, child,        \* where the processes are
  pending,              \* signals pending for each process, with multiplicity
  frames,               \* the child's handlers, the running one last
  sent_to_child, received_by_child, received_by_parent,
  interrupted           \* history: a user pressed Ctrl-C

counts == <<sent_to_child, received_by_child, received_by_parent>>
vars == <<TYPE, parent, child, pending, frames, counts, interrupted>>

(* "reaped": waitpid told of the child's exit; "failed": of its death by a *)
(* signal; "hasty": waitpid was interrupted and status still is 0;         *)
(* "exit9": left from the SIGINT handler; "killed": by a default action.   *)
parent_ended == parent \in {"reaped", "failed", "hasty", "exit9", "killed"}
child_ended == child \in {"exited", "killed"}

user_signal == IF TYPE = 3 THEN SIGRTMIN ELSE SIGUSR1

(* mutant: one last signal for all types *)
last_signal_usr2 == SIGUSR2

last_signal == IF TYPE = 3 THEN SIGRTMAX ELSE SIGUSR2

(* kill *)
queued(p, sig) ==
  pending' = [pending EXCEPT ![p][sig] = IF sig \in Standard THEN 1 ELSE @ + 1]

kill_child(sig) ==
  /\ child' = IF child = "start" THEN "killed" ELSE child
  /\ IF child = "loop" THEN queued("child", sig) ELSE UNCHANGED pending

-------------------------------------------------------------------------------
(* parent_process *)

SetHandlers ==
  /\ parent = "sleep"
  /\ parent' = "loop"
  /\ UNCHANGED <<TYPE, child, pending, frames, counts, interrupted>>

(* mutant: the answer is never waited for *)
waits_for_answer_not == FALSE

waits_for_answer == TYPE = 2

(* In TYPE 2 the counter moves when sigsuspend returns. *)
SendSignal ==
  /\ parent = "loop" /\ sent_to_child < L
  /\ kill_child(user_signal)
  /\ IF waits_for_answer
     THEN parent' = "suspend" /\ UNCHANGED sent_to_child
     ELSE sent_to_child' = sent_to_child + 1 /\ UNCHANGED parent
  /\ UNCHANGED <<TYPE, frames, received_by_child, received_by_parent, interrupted>>

SendLast ==
  /\ parent = "loop" /\ sent_to_child = L
  /\ kill_child(last_signal)
  /\ parent' = "waitpid"
  /\ sent_to_child' = IF TYPE = 3 THEN sent_to_child + 1 ELSE sent_to_child
  /\ UNCHANGED <<TYPE, frames, received_by_child, received_by_parent, interrupted>>

WaitChild ==
  /\ parent = "waitpid" /\ child_ended
  /\ parent' = IF child = "exited" THEN "reaped" ELSE "failed"
  /\ UNCHANGED <<TYPE, child, pending, frames, counts, interrupted>>

(* parent_handler: the signal comes before sigsuspend or waitpid is called *)
(* or ends the call.  Whoever counts, the parent goes on as after          *)
(* sigsuspend, or with the status 0 that looks like a child's exit(0).     *)
parent_handler ==
  \E sig \in {SIGUSR1, SIGRTMIN} :
    /\ parent \in {"loop", "suspend", "waitpid", "interrupt"}
    /\ pending["parent"][sig] > 0
    /\ pending' = [pending EXCEPT !["parent"][sig] = @ - 1]
    /\ received_by_parent' = received_by_parent + 1
    /\ \/ UNCHANGED <<parent, sent_to_child>>
       \/ /\ parent = "suspend" /\ sig = SIGUSR1
          /\ parent' = "loop"
          /\ sent_to_child' = sent_to_child + 1
       \/ parent = "waitpid" /\ parent' = "hasty" /\ UNCHANGED sent_to_child
    /\ UNCHANGED <<TYPE, child, frames, received_by_child, interrupted>>

(* SIGINT: its handler, once set, ends the child with SIGUSR2 and exits. *)
ParentInterrupted ==
  /\ ~parent_ended /\ parent # "interrupt"
  /\ \/ /\ parent = "sleep" /\ parent' = "killed"
        /\ UNCHANGED <<child, pending>>
     \/ /\ parent # "sleep" /\ parent' = "interrupt"
        /\ kill_child(SIGUSR2)
  /\ interrupted' = TRUE
  /\ UNCHANGED <<TYPE, frames, counts>>

ExitHandler ==
  /\ parent = "interrupt"
  /\ parent' = "exit9"
  /\ UNCHANGED <<TYPE, child, pending, frames, counts, interrupted>>

-------------------------------------------------------------------------------
(* child_process *)

SetChildHandlers ==
  /\ child = "start"
  /\ child' = "loop"
  /\ UNCHANGED <<TYPE, parent, pending, frames, counts, interrupted>>

handling == {frames[i].sig : i \in 1..Len(frames)}

Deliver ==
  LET ready == {sig \in Signals \ handling : pending["child"][sig] > 0} IN
  /\ child = "loop"
  /\ \E sig \in ready :
       /\ \A other \in ready : sig <= other
       /\ pending' = [pending EXCEPT !["child"][sig] = @ - 1]
       /\ frames' = Append(frames, [sig |-> sig, counted |-> FALSE])
  /\ UNCHANGED <<TYPE, parent, child, counts, interrupted>>

(* mutant: signals are counted whoever the parent is *)
counted_signals_orphaned ==
  IF TYPE = 3 THEN {SIGRTMIN, SIGRTMAX} ELSE {SIGUSR1, SIGUSR2}

(* The signals of the other types are ignored, and so are all signals once *)
(* the parent has ended: getppid is another process then.                  *)
counted_signals ==
  CASE parent_ended -> {}
    [] ~parent_ended /\ TYPE = 3 -> {SIGRTMIN, SIGRTMAX}
    [] ~parent_ended /\ TYPE # 3 -> {SIGUSR1, SIGUSR2}

HandlerCounts ==
  /\ child = "loop" /\ frames # <<>> /\ ~Last(frames).counted
  /\ \/ /\ Last(frames).sig \in counted_signals
        /\ received_by_child' = received_by_child + 1
        /\ frames' = [frames EXCEPT ![Len(frames)].counted = TRUE]
     \/ /\ Last(frames).sig \notin counted_signals
        /\ frames' = Front(frames)
        /\ UNCHANGED received_by_child
  /\ UNCHANGED <<TYPE, parent, child, pending, sent_to_child, received_by_parent,
                 interrupted>>

(* The rest of child_handler: send back, or exit. *)
HandlerAnswers ==
  /\ child = "loop" /\ frames # <<>> /\ Last(frames).counted
  /\ \/ /\ Last(frames).sig \in {SIGUSR1, SIGRTMIN}
        /\ IF parent_ended THEN UNCHANGED pending ELSE queued("parent", Last(frames).sig)
        /\ frames' = Front(frames)
        /\ UNCHANGED child
     \/ /\ Last(frames).sig \in {SIGUSR2, SIGRTMAX}
        /\ child' = "exited"
        /\ UNCHANGED <<pending, frames>>
  /\ UNCHANGED <<TYPE, parent, counts, interrupted>>

ChildInterrupted ==
  /\ ~child_ended
  /\ child' = IF child = "start" THEN "killed" ELSE "exited"
  /\ interrupted' = TRUE
  /\ UNCHANGED <<TYPE, parent, pending, frames, counts>>

-------------------------------------------------------------------------------
Init ==
  /\ TYPE \in 1..3
  /\ parent = "sleep" /\ child = "start"
  /\ pending = [p \in {"parent", "child"} |-> [sig \in Signals |-> 0]]
  /\ frames = <<>>
  /\ sent_to_child = 0 /\ received_by_child = 0 /\ received_by_parent = 0
  /\ interrupted = FALSE

ParentStep ==
  SetHandlers \/ SendSignal \/ SendLast \/ WaitChild \/ parent_handler \/ ExitHandler

ChildStep == SetChildHandlers \/ Deliver \/ HandlerCounts \/ HandlerAnswers

Next == ParentStep \/ ChildStep \/ ParentInterrupted \/ ChildInterrupted

Spec == Init /\ [][Next]_vars

(* Both processes keep running; nobody need press Ctrl-C. *)
FairSpec == Spec /\ WF_vars(ParentStep) /\ WF_vars(ChildStep)

-------------------------------------------------------------------------------
(* Correctness *)

Both == parent = "loop" /\ child = "loop"

(* In TYPE 2 the processes go in step: when the parent is about to send,    *)
(* every signal it sent was counted by the child and answered, so none of  *)
(* the standard signals that do not queue is lost.                         *)
InStep ==
  TYPE = 2 /\ Both =>
    /\ received_by_child = sent_to_child
    /\ received_by_parent = sent_to_child

in_handler(sig, counted) ==
  IF [sig |-> sig, counted |-> counted] \in ToSet(frames) THEN 1 ELSE 0

(* In TYPE 3 every signal is accounted for, the last one and the handlers   *)
(* it interrupts included: as long as neither process has ended, each one  *)
(* sent is pending, in a handler or counted, and each one counted is in    *)
(* its handler, on its way back or received.  When the child ends at       *)
(* SIGRTMAX, the only signals that it has not sent back are the SIGRTMIN   *)
(* whose handler SIGRTMAX interrupted and those pending behind it.         *)
SignalsAccounted ==
  TYPE = 3 =>
    /\ child = "loop" /\ ~parent_ended =>
         /\ sent_to_child = pending["child"][SIGRTMIN] + pending["child"][SIGRTMAX]
              + in_handler(SIGRTMIN, FALSE) + in_handler(SIGRTMAX, FALSE)
              + received_by_child
         /\ received_by_child = in_handler(SIGRTMIN, TRUE) + in_handler(SIGRTMAX, TRUE)
              + pending["parent"][SIGRTMIN] + received_by_parent
    /\ in_handler(SIGRTMAX, TRUE) = 1 =>
         /\ L = received_by_parent + pending["parent"][SIGRTMIN]
              + in_handler(SIGRTMIN, TRUE) + in_handler(SIGRTMIN, FALSE)
              + pending["child"][SIGRTMIN]
         /\ pending["child"][SIGRTMIN] > 0 => SIGRTMIN \in handling

(* Nothing goes on for ever but what is known to: when neither process can  *)
(* take a step both have ended, or the parent of TYPE 2 is in sigsuspend   *)
(* for an answer that came before the call, or the child outlives a parent *)
(* that left without having waited for it, and ignores all signals.        *)
Stuck == ~ENABLED ParentStep /\ ~ENABLED ChildStep
StuckExplained ==
  Stuck =>
    \/ parent_ended /\ child_ended
    \/ TYPE = 2 /\ parent = "suspend" /\ received_by_parent > sent_to_child
    \/ TYPE = 2 /\ parent = "suspend" /\ child_ended
    \/ parent \in {"hasty", "exit9", "killed"} /\ child = "loop"

(* README.md:39 says of the subprocess: "after receiving SIGUSR2 terminate  *)
(* itself", which it should when nobody interrupts the parent.             *)
TerminatesAfterSIGUSR2 ==
  pending["child"][SIGUSR2] > 0 ~> child_ended \/ interrupted
===============================================================================
