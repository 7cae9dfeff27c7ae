------------------------------ MODULE PosixServer ------------------------------
(***************************************************************************)
(* The request server of lab5_message_queues (POSIX variant) and its       *)
(* clients.  The server reads one bounded queue, "/server"; each client    *)
(* creates a queue of its own, registers, and then sends one request at a  *)
(* time and waits for its answer.  END makes the server stop when its      *)
(* queue is empty.  Both programs clean up in an atexit handler, which     *)
(* also runs when SIGINT arrives: the server sends SIGINT to the clients   *)
(* it knows, a client sends QUIT if it has a session.                      *)
(*                                                                         *)
(* A queue whose name is unlinked lives on for those who have it open, so  *)
(* a client can fill the queue of a server that is gone.  Messages have    *)
(* equal priorities: the queues are first-in first-out.                    *)
(***************************************************************************)
EXTENDS Integers, Sequences, FiniteSets

CONSTANTS
  Clients,         \* the client processes
  Server,          \* the server process
  NoClient,        \* pid 0: an unused entry of clients_data
  MAX_CLIENTS,     \* length of clients_data
  MAX_MSGS,        \* capacity of every queue
  Lines,           \* bound: requests a client's standard input holds
  Interruptible    \* the processes a user may send SIGINT to

ASSUME ConstantsAssumption ==
  /\ Server \notin Clients /\ NoClient \notin Clients
  /\ MAX_CLIENTS \in Nat \ {0} /\ MAX_MSGS \in Nat \ {0}
  /\ Lines \in Nat
  /\ Interruptible \subseteq Clients \cup {Server}

VARIABLES
  active, clients_data, client_count,        \* the server's globals
  server_pc,       \* where the server is
  msg,             \* the message in the server's hands, NoMessage between two
  killed,          \* loop counter of the server's close_queue
  server_queue,    \* messages in "/server"
  server_linked,   \* "/server" exists
  client_pc,       \* where each client is
  session_num,     \* of each client
  queue,           \* answers in each client's queue
  linked,          \* clients whose queue's name exists
  lines,           \* requests each client may still read
  sigint,          \* clients with a SIGINT of the server pending
  in_handler       \* processes that call exit from sigint_handler

server_vars == <<active, clients_data, client_count, server_pc, msg, killed,
                 server_linked>>
client_vars == <<client_pc, session_num, linked, lines>>
vars == <<server_vars, server_queue, client_vars, queue, sigint, in_handler>>

Types == {"REGISTER", "MIRROR", "TIME", "END", "QUIT"}
RequestTypes == {"REGISTER", "MIRROR", "TIME"}     \* those that are answered
Places == 0..MAX_CLIENTS-1

(* mutant: a client does not wait for its session number *)
after_hasty == [REGISTER |-> "prompt", MIRROR |-> "mirrored", TIME |-> "told",
                END |-> "prompt", QUIT |-> "unlink"]

(* Where a client goes when a message of each type is sent. *)
after == [REGISTER |-> "session", MIRROR |-> "mirrored", TIME |-> "told",
          END |-> "prompt", QUIT |-> "unlink"]
Waiting == {"session", "mirrored", "told"}
Ended == {"gone", "cut"}     \* cut: by a second exit, cleaning up unfinished

(* session stands for the content of the answer to a REGISTER. *)
Message(type, sender, session) ==
  [type |-> type, sender |-> sender, session |-> session]
NoMessage == Message("END", NoClient, 0)

Messages == [type: Types, sender: Clients, session: -1..MAX_CLIENTS-1]

registered == {clients_data[i] : i \in 0..client_count-1}

-------------------------------------------------------------------------------
(* client.c *)

(* mutant: the private queue is created only after the registration *)
create_priv_queue_late(c) == linked

create_priv_queue(c) == IF server_linked THEN linked \cup {c} ELSE linked

(* main: the public queue is opened, then the private one is created. *)
Open(c) ==
  /\ client_pc[c] = "start"
  /\ client_pc' = [client_pc EXCEPT ![c] = IF server_linked THEN "REGISTER" ELSE "gone"]
  /\ linked' = create_priv_queue(c)
  /\ UNCHANGED <<server_vars, server_queue, session_num, queue, lines, sigint, in_handler>>

(* The mq_send of register_client and of the request functions; it blocks  *)
(* while the queue is full.                                                *)
Send(c) ==
  /\ client_pc[c] \in Types
  /\ Len(server_queue) < MAX_MSGS
  /\ server_queue' = Append(server_queue, Message(client_pc[c], c, 0))
  /\ client_pc' = [client_pc EXCEPT ![c] = after[client_pc[c]]]
  /\ UNCHANGED <<server_vars, session_num, linked, queue, lines, sigint, in_handler>>

(* mutant: session 0 is taken for no session *)
close_queue_positive(number) == IF number > 0 THEN "QUIT" ELSE "unlink"

(* close_queue, registered with atexit: where it begins. *)
close_queue(number) == IF number >= 0 THEN "QUIT" ELSE "unlink"

ReceiveSession(c) ==
  /\ client_pc[c] = "session" /\ queue[c] # <<>>
  /\ LET number == Head(queue[c]).session IN
     /\ session_num' = [session_num EXCEPT ![c] = number]
     /\ client_pc' = [client_pc EXCEPT ![c] =
                        IF number < 0 THEN close_queue(number) ELSE "prompt"]
  /\ queue' = [queue EXCEPT ![c] = Tail(@)]
  /\ UNCHANGED <<server_vars, server_queue, linked, lines, sigint, in_handler>>

ReceiveAnswer(c) ==
  /\ client_pc[c] \in {"mirrored", "told"} /\ queue[c] # <<>>
  /\ queue' = [queue EXCEPT ![c] = Tail(@)]
  /\ client_pc' = [client_pc EXCEPT ![c] = "prompt"]
  /\ UNCHANGED <<server_vars, server_queue, session_num, linked, lines, sigint, in_handler>>

(* The loop of main: "quit" calls exit, which begins with the QUIT request. *)
ReadRequest(c) ==
  /\ client_pc[c] = "prompt" /\ lines[c] > 0
  /\ lines' = [lines EXCEPT ![c] = @ - 1]
  /\ \E type \in Types \ {"REGISTER"} : client_pc' = [client_pc EXCEPT ![c] = type]
  /\ UNCHANGED <<server_vars, server_queue, session_num, linked, queue, sigint, in_handler>>

(* The rest of close_queue. *)
Unlink(c) ==
  /\ client_pc[c] = "unlink"
  /\ linked' = linked \ {c}
  /\ client_pc' = [client_pc EXCEPT ![c] = "gone"]
  /\ UNCHANGED <<server_vars, server_queue, session_num, queue, lines, sigint, in_handler>>

(* sigint_handler: exit runs close_queue.  SIGINT is blocked while its     *)
(* handler runs; one that arrives during an exit called from main makes    *)
(* the handler call exit again, which skips what is left of close_queue.   *)
client_sigint_handler(c) ==
  /\ client_pc[c] \notin Ended /\ c \notin in_handler
  /\ client_pc' = [client_pc EXCEPT ![c] =
       CASE @ = "start" -> "gone"
         [] @ \in {"QUIT", "unlink"} -> "cut"
         [] OTHER -> close_queue(session_num[c])]
  /\ in_handler' = in_handler \cup {c}
  /\ UNCHANGED <<server_vars, server_queue, session_num, linked, queue, lines>>

Delivered(c) ==
  /\ c \in sigint
  /\ client_sigint_handler(c)
  /\ sigint' = sigint \ {c}

Interrupted(c) ==
  /\ c \in Interruptible
  /\ client_sigint_handler(c)
  /\ UNCHANGED sigint

-------------------------------------------------------------------------------
(* server.c *)

Start ==
  /\ server_pc = "start"
  /\ server_pc' = "loop"
  /\ server_linked' = TRUE
  /\ UNCHANGED <<active, clients_data, client_count, msg, killed,
                 server_queue, client_vars, queue, sigint, in_handler>>

back_to_loop == server_pc' = "loop" /\ msg' = NoMessage

(* main's loop: one message is taken, or the queue is found empty. *)
Receive ==
  /\ server_pc = "loop" /\ server_queue # <<>>
  /\ msg' = Head(server_queue)
  /\ server_queue' = Tail(server_queue)
  /\ server_pc' = "handle"
  /\ UNCHANGED <<active, clients_data, client_count, killed, server_linked,
                 client_vars, queue, sigint, in_handler>>

(* mutant: END stops the server at once *)
nothing_queued_ignored == TRUE

nothing_queued == server_queue = <<>>

Drained ==
  /\ server_pc = "loop" /\ active = 0 /\ nothing_queued
  /\ server_pc' = "closing"
  /\ UNCHANGED <<active, clients_data, client_count, msg, killed,
                 server_linked, server_queue, client_vars, queue, sigint, in_handler>>

(* mutant: one client too few *)
table_full_soon == client_count >= MAX_CLIENTS - 1

table_full == client_count > MAX_CLIENTS - 1

(* mutant: the number answered is one too small *)
session_given_low == client_count - 1

session_given == client_count

(* A client whose queue mq_open does not find makes the server exit. *)
handle_register ==
  /\ msg.type = "REGISTER"
  /\ \/ /\ msg.sender \notin linked
        /\ server_pc' = "closing"
        /\ UNCHANGED <<clients_data, client_count, msg>>
     \/ /\ msg.sender \in linked /\ server_pc' = "reply"
        /\ IF table_full
           THEN /\ msg' = Message("REGISTER", msg.sender, -1)
                /\ UNCHANGED <<clients_data, client_count>>
           ELSE /\ clients_data' = [clients_data EXCEPT ![client_count] = msg.sender]
                /\ client_count' = client_count + 1
                /\ msg' = Message("REGISTER", msg.sender, session_given)
  /\ UNCHANGED active

(* handle_mirror and handle_time: get_qid looks the sender up. *)
handle_question ==
  /\ msg.type \in {"MIRROR", "TIME"}
  /\ IF msg.sender \in registered
     THEN server_pc' = "reply" /\ UNCHANGED msg
     ELSE back_to_loop
  /\ UNCHANGED <<active, clients_data, client_count>>

handle_end ==
  /\ msg.type = "END"
  /\ active' = 0
  /\ back_to_loop
  /\ UNCHANGED <<clients_data, client_count>>

(* The entries behind the one removed move up; the last one stays where it *)
(* was, beyond client_count.                                               *)
remove(i) ==
  /\ clients_data' = [j \in Places |->
                        IF i <= j /\ j < client_count - 1 THEN clients_data[j+1]
                                                          ELSE clients_data[j]]
  /\ client_count' = client_count - 1

(* mutant: the last entry is removed, whoever quits *)
first_is_last(c) == client_count - 1

first(c) == CHOOSE i \in 0..client_count-1 :
              /\ clients_data[i] = c
              /\ \A j \in 0..i-1 : clients_data[j] # c

handle_quit ==
  /\ msg.type = "QUIT"
  /\ IF msg.sender \in registered
     THEN remove(first(msg.sender))
     ELSE UNCHANGED <<clients_data, client_count>>
  /\ back_to_loop
  /\ UNCHANGED active

dispatch_request ==
  /\ server_pc = "handle"
  /\ handle_register \/ handle_question \/ handle_end \/ handle_quit
  /\ UNCHANGED <<killed, server_linked, server_queue, client_vars, queue, sigint,
                 in_handler>>

(* The mq_send at the end of a handler. *)
Reply ==
  /\ server_pc = "reply"
  /\ Len(queue[msg.sender]) < MAX_MSGS
  /\ queue' = [queue EXCEPT ![msg.sender] = Append(@, msg)]
  /\ back_to_loop
  /\ UNCHANGED <<active, clients_data, client_count, killed, server_linked,
                 server_queue, client_vars, sigint, in_handler>>

(* close_queue, registered with atexit: kill, one client after the other. *)
Kill ==
  /\ server_pc = "closing" /\ killed < client_count
  /\ killed' = killed + 1
  /\ sigint' = IF client_pc[clients_data[killed]] \in Ended THEN sigint
               ELSE sigint \cup {clients_data[killed]}
  /\ UNCHANGED <<active, clients_data, client_count, server_pc, msg, server_linked,
                 server_queue, client_vars, queue, in_handler>>

(* mutant: the last client is not sent a signal *)
all_signalled_but_one == killed >= client_count - 1

all_signalled == killed = client_count

CloseQueue ==
  /\ server_pc = "closing" /\ all_signalled
  /\ server_linked' = FALSE
  /\ server_pc' = "gone"
  /\ UNCHANGED <<active, clients_data, client_count, msg, killed,
                 server_queue, client_vars, queue, sigint, in_handler>>

server_sigint_handler ==
  /\ Server \in Interruptible
  /\ server_pc \notin Ended /\ Server \notin in_handler
  /\ active' = 0
  /\ server_pc' = CASE server_pc = "start" -> "gone"
                    [] server_pc = "closing" -> "cut"
                    [] OTHER -> "closing"
  /\ in_handler' = in_handler \cup {Server}
  /\ UNCHANGED <<clients_data, client_count, msg, killed, server_linked,
                 server_queue, client_vars, queue, sigint>>

-------------------------------------------------------------------------------
Init ==
  /\ active = 1
  /\ clients_data = [i \in Places |-> NoClient] /\ client_count = 0
  /\ server_pc = "start"
  /\ msg = NoMessage
  /\ killed = 0
  /\ server_queue = <<>> /\ server_linked = FALSE
  /\ client_pc = [c \in Clients |-> "start"]
  /\ session_num = [c \in Clients |-> -2]
  /\ queue = [c \in Clients |-> <<>>]
  /\ linked = {}
  /\ lines = [c \in Clients |-> Lines]
  /\ sigint = {} /\ in_handler = {}

ClientStep(c) ==
  Send(c) \/ ReceiveSession(c) \/ ReceiveAnswer(c) \/ Unlink(c) \/ Delivered(c)

ServerStep ==
  Start \/ Receive \/ Drained \/ dispatch_request \/ Reply \/ Kill \/ CloseQueue

Next ==
  \/ \E c \in Clients : ClientStep(c) \/ Open(c) \/ ReadRequest(c) \/ Interrupted(c)
  \/ ServerStep
  \/ server_sigint_handler

Spec == Init /\ [][Next]_vars

(* Processes keep running and a sender that waits for room on a queue that *)
(* is read again and again gets it (blocked senders are served in order).  *)
(* Nobody need start a client, type a request or press Ctrl-C.             *)
FairSpec ==
  /\ Spec
  /\ WF_vars(ServerStep)
  /\ \A c \in Clients :
       /\ SF_vars(Send(c))
       /\ WF_vars(ReceiveSession(c) \/ ReceiveAnswer(c) \/ Unlink(c))
       /\ WF_vars(Delivered(c))

-------------------------------------------------------------------------------
(* Type correctness of the server's and the clients' state. *)
TypeOK ==
  /\ active \in {0, 1}
  /\ clients_data \in [Places -> Clients \cup {NoClient}]
  /\ client_count \in 0..MAX_CLIENTS /\ killed \in 0..client_count
  /\ server_pc \in {"start", "loop", "handle", "reply", "closing"} \cup Ended
  /\ msg \in Messages \cup {NoMessage}
  /\ server_queue \in Seq(Messages)
  /\ Len(server_queue) <= MAX_MSGS
  /\ server_linked \in BOOLEAN
  /\ client_pc \in [Clients -> {"start", "prompt"} \cup Types \cup Waiting
                               \cup {"unlink"} \cup Ended]
  /\ session_num \in [Clients -> -2..MAX_CLIENTS-1]
  /\ queue \in [Clients -> Seq(Messages)]
  /\ \A c \in Clients : Len(queue[c]) <= MAX_MSGS
  /\ linked \subseteq Clients /\ sigint \subseteq Clients
  /\ lines \in [Clients -> 0..Lines]
  /\ in_handler \subseteq Clients \cup {Server}

pending(c, types) == {i \in 1..Len(server_queue) : /\ server_queue[i].sender = c
                                                 /\ server_queue[i].type \in types}
in_hand(c, types, place) ==
  server_pc = place /\ msg.sender = c /\ msg.type \in types
Closed == server_pc \in {"closing"} \cup Ended

(* The mq_send of an answer never blocks the server, although nothing in   *)
(* the server looks at the room in a client's queue: whatever signals      *)
(* interrupt the client, its queue is empty when it is answered.           *)
RepliesNeverBlock == server_pc = "reply" => queue[msg.sender] = <<>>

(* A client that waits for the answer to a MIRROR or TIME request is in    *)
(* the table while the server runs, so create_msg finds it and the request *)
(* is not silently dropped: no QUIT, whoever sent it, removes its entry.   *)
WaitersAreRegistered ==
  \A c \in Clients : client_pc[c] \in {"mirrored", "told"} => c \in registered

(* The session number a client was given is an upper bound of its place in *)
(* the table: handle_quit only ever moves clients down, past the right     *)
(* entry, and no pid is in the table twice.                                *)
PlacesOnlyShrink ==
  /\ \A i, j \in 0..client_count-1 :
       clients_data[i] = clients_data[j] => i = j
  /\ \A i \in 0..client_count-1 :
       session_num[clients_data[i]] >= 0 => i <= session_num[clients_data[i]]

(* An entry for a process that has ended is left in the table of a running *)
(* server only if the process was cut off in its clean-up by a second      *)
(* exit, or was interrupted before it learned its session number; every    *)
(* other client's QUIT is still on its way.                                *)
LeftoversExplained ==
  \A c \in registered :
    client_pc[c] = "gone" /\ ~Closed =>
      \/ session_num[c] = -2
      \/ pending(c, {"QUIT"}) # {}
      \/ in_hand(c, {"QUIT"}, "handle")

(* When the server has cleaned up, a client waits for an answer that will  *)
(* never come only if it was never registered: every registered one was    *)
(* sent a SIGINT, even if it registered with the last message.             *)
OrphansAreUnregistered ==
  server_pc = "gone" =>
    \A c \in Clients : client_pc[c] \in Waiting /\ queue[c] = <<>> /\ c \notin sigint =>
      client_pc[c] = "session" /\ c \notin registered

(* The server takes an error exit (a client's queue that cannot be opened) *)
(* only for the REGISTER of a client that was interrupted; otherwise it    *)
(* closes after an END or its own SIGINT, so clients that come, quit or    *)
(* are refused do not stop it.                                             *)
ErrorExitsExplained ==
  Closed /\ Server \notin in_handler =>
    IF msg = NoMessage THEN active = 0
    ELSE msg.type = "REGISTER" /\ msg.sender \in in_handler

(* Seen from outside the server is the abstract request service.           *)
asks(c) ==
  LET inQueue == pending(c, RequestTypes) IN
  IF inQueue # {} THEN server_queue[CHOOSE i \in inQueue : TRUE].type
  ELSE IF in_hand(c, RequestTypes, "handle") THEN msg.type
  ELSE "none"

answered(m) == IF m.type # "REGISTER" THEN m.type
               ELSE IF m.session < 0 THEN "REFUSED" ELSE "ADMITTED"

gets(c) ==
  IF queue[c] # <<>> THEN answered(Head(queue[c]))
  ELSE IF in_hand(c, RequestTypes, "reply") THEN answered(msg)
  ELSE "none"

Service == INSTANCE RequestService WITH
  open <- ~Closed,
  members <- registered,
  question <- [c \in Clients |-> asks(c)],
  answer <- [c \in Clients |-> gets(c)]

(* Every question gets at most one answer, its own; only members are       *)
(* answered, nobody is refused while there is a free place, and a member   *)
(* leaves after all it asked has been handled.                             *)
ImplementsService == Service!Spec

(* A user's SIGINT hit the server, or a client before the server began to  *)
(* send the SIGINTs of its own clean-up.                                   *)
user_interrupted == Server \in in_handler \/ (in_handler # {} /\ ~Closed)

(* A request sent before an END is handled gets its answer into the        *)
(* client's queue, whatever is sent meanwhile, unless a user interrupts    *)
(* somebody first: the server drains its queue before it goes, and the     *)
(* SIGINTs it sends itself come after the last answer.                     *)
RequestsBeforeEndAnswered ==
  \A c \in Clients :
    client_pc[c] \in Waiting /\ active = 1 /\ ~Closed ~>
      queue[c] # <<>> \/ user_interrupted

blocked(c) == client_pc[c] \in Types /\ Len(server_queue) = MAX_MSGS

(* The clients end with the server: each one it knew is gone, or sits in   *)
(* the mq_send of its exit handler because the queue that nobody reads any *)
(* more has filled up.                                                     *)
ClientsEndWithServer ==
  \A c \in Clients :
    server_pc = "gone" /\ c \in registered ~> client_pc[c] \in Ended \/ blocked(c)
===============================================================================
