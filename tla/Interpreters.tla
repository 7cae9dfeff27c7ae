----------------------------- MODULE Interpreters -----------------------------
(***************************************************************************)
(* The batch job interpreters of lab3 (one program on a line) and of lab4  *)
(* (extended: programs of a line are joined by pipes).  The parent reads a *)
(* line of the script, forks a process for every program and waits for     *)
(* them before it reads the next one.                                      *)
(*                                                                         *)
(* The parent and its children share the script's file offset; each has a  *)
(* copy of the stream's buffer.  Where the C library's fclose does so, a   *)
(* child that could not execute its program moves the shared offset back   *)
(* by what its copy of the buffer had left.                                *)
(*                                                                         *)
(* A line is given by its programs' kinds.  Its tokens fit the arrays, it  *)
(* is not blank and ends in a newline; dup2 and wait do not fail.          *)
(***************************************************************************)
EXTENDS Integers, Sequences, FiniteSets, Functions

CONSTANTS
  Lines,            \* pipelines that scripts are made of
  MaxLines,         \* bound: lines of a script
  BufferLines,      \* lines that fill a stream's buffer
  MAX_PROGS_PIPED

(* "ends", "fails": by itself, with a zero or another status; "missing": it *)
(* cannot be executed; "filter": ends with its input or its reader;        *)
(* "writes": ends when nobody reads any more; "none": nothing between bars. *)
Kinds == {"ends", "fails", "missing", "filter", "writes", "none"}

ASSUME ConstantsAssumption ==
  /\ \A l \in Lines : l \in Seq(Kinds) /\ Len(l) \in 1..MAX_PROGS_PIPED /\ l[1] # "none"
  /\ MaxLines \in Nat \ {0} /\ BufferLines \in Nat \ {0}

VARIABLES
  extended,         \* lab4's interpreter
  fclose_seeks,     \* a property of the C library
  script,
  offset,           \* the shared file offset
  buffered,         \* lines read ahead by the parent
  line,             \* the line being run, 0 before the first
  pc,
  process,          \* the processes of this line
  waits,            \* calls of wait for this line
  code,             \* exit status of the interpreter, -1 before
  sought            \* history: a child moved the offset

fixed == <<extended, fclose_seeks, script>>
stream == <<offset, buffered, line>>
batchVars == <<fixed, stream, pc, process, waits, code, sought>>

programs == IF line = 0 THEN <<>> ELSE script[line]
currp == Cardinality({p \in DOMAIN process : process[p] # "none"}) + 1
forks_left == currp <= Len(programs) /\ programs[currp] # "none"

(* mutant: one less, the number of bars *)
totalProgs_bars == Len(programs) - 1

totalProgs == Len(programs)

MainReturns(status) == pc' = "ended" /\ code' = status

-------------------------------------------------------------------------------
(* The parent *)

Open ==
  /\ pc = "open"
  /\ \/ pc' = "getline" /\ UNCHANGED code
     \/ MainReturns(1)
     \/ MainReturns(2)
  /\ UNCHANGED <<fixed, stream, process, waits, sought>>

(* The stream reads a bufferful when it has no line left. *)
getline ==
  LET left == Len(script) - offset
      size == IF left < BufferLines THEN left ELSE BufferLines
      ahead == IF buffered # <<>> THEN buffered ELSE [n \in 1..size |-> offset + n] IN
  /\ pc = "getline"
  /\ offset' = IF buffered # <<>> THEN offset ELSE offset + Len(ahead)
  /\ \/ /\ ahead # <<>>
        /\ line' = Head(ahead) /\ buffered' = Tail(ahead)
        /\ process' = [p \in 1..Len(script[line']) |-> "none"]
        /\ waits' = 0
        /\ pc' = IF extended THEN "pipe" ELSE "fork"
        /\ UNCHANGED code
     \/ /\ ahead = <<>>
        /\ MainReturns(0)
        /\ UNCHANGED <<line, buffered, process, waits>>
  /\ UNCHANGED <<fixed, sought>>

pipe ==
  /\ pc = "pipe"
  /\ \/ pc' = "fork" /\ UNCHANGED code
     \/ MainReturns(3)
  /\ UNCHANGED <<fixed, stream, process, waits, sought>>

fork ==
  /\ pc = "fork" /\ forks_left
  /\ process' = [process EXCEPT ![currp] = "setup"]
  /\ pc' = IF extended THEN "fork" ELSE "wait"
  /\ UNCHANGED <<fixed, stream, waits, code, sought>>

(* lab3 takes -1 for the child's pid and waits for any child, has none, and *)
(* tests the status it has not got.                                        *)
ForkFails ==
  /\ pc = "fork" /\ forks_left
  /\ \/ extended /\ MainReturns(4)
     \/ ~extended /\ MainReturns(3)
     \/ ~extended /\ pc' = "getline" /\ UNCHANGED code
  /\ UNCHANGED <<fixed, stream, process, waits, sought>>

ClosePipes ==
  /\ pc = "fork" /\ ~forks_left
  /\ pc' = "wait"
  /\ UNCHANGED <<fixed, stream, process, waits, code, sought>>

Dead(p) == process[p] \in {"exited", "failed"}

(* mutant: the status of the child is not looked at *)
line_failed_never(p) == FALSE

line_failed(p) == ~extended /\ process[p] = "failed"

wait ==
  /\ pc = "wait"
  /\ waits < totalProgs /\ waits' = waits + 1
  /\ \/ \E p \in DOMAIN process :
          /\ Dead(p)
          /\ process' = [process EXCEPT ![p] = IF line_failed(p) THEN @ ELSE "reaped"]
          /\ IF line_failed(p) THEN MainReturns(3) ELSE UNCHANGED <<pc, code>>
     \/ /\ \A p \in DOMAIN process : process[p] \in {"none", "reaped"}
        /\ UNCHANGED <<process, pc, code>>
  /\ UNCHANGED <<fixed, stream, sought>>

AllWaited ==
  /\ pc = "wait" /\ waits = totalProgs
  /\ pc' = "getline"
  /\ UNCHANGED <<fixed, stream, process, waits, code, sought>>

-------------------------------------------------------------------------------
(* The children *)

execvp(p) ==
  /\ process[p] = "setup" /\ programs[p] # "missing"
  /\ process' = [process EXCEPT ![p] = "running"]
  /\ UNCHANGED <<fixed, stream, pc, waits, code, sought>>

(* A child leaves main, closing its copy of the stream.  A seek to before  *)
(* the start of the file fails.                                            *)
ExecFails(p) ==
  LET unread == Len(buffered)
      moves == fclose_seeks /\ unread \in 1..offset IN
  /\ process[p] = "setup" /\ programs[p] = "missing"
  /\ process' = [process EXCEPT ![p] = "failed"]
  /\ offset' = IF moves THEN offset - unread ELSE offset
  /\ sought' = (sought \/ moves)
  /\ UNCHANGED <<fixed, buffered, line, pc, waits, code>>

(* mutant: the parent closes the pipes after it has waited *)
holds_pipes_longer == pc \in {"fork", "wait"} \/ "setup" \in Range(process)

(* Somebody besides the two programs it joins has the ends of every pipe. *)
holds_pipes == pc = "fork" \/ "setup" \in Range(process)

(* The ends of the pipes to and from program p are closed, if there are such. *)
no_writer(p) == p > 1 /\ ~holds_pipes /\ process[p - 1] # "running"
no_reader(p) ==
  /\ p < Len(programs) /\ programs[p + 1] # "none"
  /\ ~holds_pipes /\ process[p + 1] # "running"

ProgramEnds(p) ==
  /\ process[p] = "running"
  /\ CASE programs[p] \in {"ends", "fails"} -> TRUE
       [] programs[p] = "filter" -> no_writer(p) \/ no_reader(p)
       [] programs[p] = "writes" -> no_reader(p)
  /\ process' = [process EXCEPT ![p] = IF programs[p] = "fails" THEN "failed" ELSE "exited"]
  /\ UNCHANGED <<fixed, stream, pc, waits, code, sought>>

-------------------------------------------------------------------------------
Scripts == UNION {[1..n -> Lines] : n \in 1..MaxLines}

BatchInit ==
  /\ extended \in BOOLEAN /\ fclose_seeks \in BOOLEAN
  /\ script \in {s \in Scripts : extended \/ \A n \in DOMAIN s : Len(s[n]) = 1}
  /\ offset = 0 /\ buffered = <<>> /\ line = 0
  /\ pc = "open" /\ process = <<>> /\ waits = 0
  /\ code = -1 /\ sought = FALSE

ParentStep ==
  \/ Open \/ getline \/ pipe \/ fork \/ ForkFails \/ ClosePipes \/ wait \/ AllWaited

ProcessStep(p) == p \in DOMAIN process /\ (execvp(p) \/ ExecFails(p) \/ ProgramEnds(p))

BatchNext == ParentStep \/ \E p \in 1..MAX_PROGS_PIPED : ProcessStep(p)

BatchSpec == BatchInit /\ [][BatchNext]_batchVars

(* The parent and every child keep running. *)
FairBatchSpec ==
  /\ BatchSpec
  /\ WF_batchVars(ParentStep)
  /\ \A p \in 1..MAX_PROGS_PIPED : WF_batchVars(ProcessStep(p))

-------------------------------------------------------------------------------
(* Correctness *)

(* The lines run in order, each of them once, and exit status 0 means that *)
(* the last one did, as long as no child of lab4's interpreter has moved   *)
(* the offset of the script; in lab3, where it can move too, none runs     *)
(* after one that failed, and this alone keeps the order.                  *)
InOrder ==
  [][/\ line' # line => line' = line + 1 \/ (extended /\ sought)
     /\ line' # line /\ ~extended => "failed" \notin Range(process)
     /\ code' = 0 => line = Len(script)]_batchVars

(* No program of an earlier line is still there when a line begins, or when *)
(* the interpreter ends well: wait is called often enough, also with empty *)
(* programs between the bars and with programs that could not be executed. *)
OneLineAtATime ==
  [][line' # line \/ code' = 0 =>
       \A p \in DOMAIN process : process[p] \in {"none", "reaped"}]_batchVars

(* Every line comes to an end, whichever programs it joins, and even when   *)
(* the interpreter gives up in the middle of it: nobody keeps an end of a  *)
(* pipe open that a program waits for.  This is for lines in which the     *)
(* first program needs no input and the last one ends by itself.           *)
EveryLineEnds ==
  pc = "fork" ~> /\ pc \in {"getline", "ended"}
                 /\ Range(process) \cap {"setup", "running"} = {}
===============================================================================
