------------------------------ MODULE SysvServer ------------------------------
(***************************************************************************)
(* The request server of lab5_message_queues (System V variant) and its    *)
(* clients.  What differs from the POSIX variant: there is no QUIT, so the *)
(* table of clients only grows; a removed queue is gone for everybody, and *)
(* the calls that wait for it or use it later fail; the server ends        *)
(* without a word to its clients.                                          *)
(*                                                                         *)
(* The keys that ftok makes of the low eight bits of a pid are taken to    *)
(* differ from each other and from that of the server.                     *)
(***************************************************************************)
EXTENDS Integers, Sequences, FiniteSets

CONSTANTS
  Clients,         \* the client processes
  Server,          \* the server process
  NoClient,        \* pid 0: an unused entry of clients_data
  MAX_CLIENTS,     \* length of clients_data
  MAX_MSGS,        \* messages that fit into a queue of the kernel's size
  Lines,           \* bound: requests a client's standard input holds
  Interruptible    \* the processes a user may send SIGINT to

ASSUME ConstantsAssumption ==
  /\ Server \notin Clients /\ NoClient \notin Clients
  /\ MAX_CLIENTS \in Nat \ {0} /\ MAX_MSGS \in Nat \ {0}
  /\ Lines \in Nat
  /\ Interruptible \subseteq Clients \cup {Server}

VARIABLES
  active, clients_data, client_count,        \* the server's globals
  server_pc,       \* where the server is
  msg,             \* the message in the server's hands, NoMessage between two
  server_queue,    \* messages in the public queue
  server_exists,   \* the public queue exists
  client_pc,       \* where each client is
  session_num,     \* of each client
  queue,           \* answers in each client's queue
  exists,          \* clients whose queue exists
  lines,           \* requests each client may still read
  in_handler,      \* processes that call exit from sigint_handler
  lost             \* history: senders of what the server removed unanswered

server_vars == <<active, clients_data, client_count, server_pc, msg, server_exists>>
client_vars == <<client_pc, session_num, lines>>
vars == <<server_vars, server_queue, client_vars, queue, exists, in_handler, lost>>

RequestTypes == {"REGISTER", "MIRROR", "TIME"}     \* those that are answered
Types == RequestTypes \cup {"END"}
Places == 0..MAX_CLIENTS-1

(* mutant: a client does not wait for its session number *)
after_hasty == [REGISTER |-> "prompt", MIRROR |-> "mirrored", TIME |-> "told",
                END |-> "prompt"]

(* Where a client goes when a message of each type is sent. *)
after == [REGISTER |-> "session", MIRROR |-> "mirrored", TIME |-> "told",
          END |-> "prompt"]
Waiting == {"session", "mirrored", "told"}
Ended == {"gone", "cut"}     \* cut: by a second exit, cleaning up unfinished

(* session stands for the content of the answer to a REGISTER. *)
Message(type, sender, session) ==
  [type |-> type, sender |-> sender, session |-> session]
NoMessage == Message("END", NoClient, 0)

(* mutant: the last place is not searched *)
registered_one_less == {clients_data[i] : i \in 0..MAX_CLIENTS-2} \ {NoClient}

(* get_qid searches the whole table; unused entries match no pid. *)
registered == {clients_data[i] : i \in Places} \ {NoClient}

-------------------------------------------------------------------------------
(* client.c *)

(* main: the public queue is looked up, then the private one is created. *)
Open(c) ==
  /\ client_pc[c] = "start"
  /\ client_pc' = [client_pc EXCEPT ![c] = IF server_exists THEN "REGISTER" ELSE "gone"]
  /\ exists' = IF server_exists THEN exists \cup {c} ELSE exists
  /\ UNCHANGED <<server_vars, server_queue, session_num, queue, lines, in_handler, lost>>

(* The msgsnd of register_client and of the request functions; it blocks   *)
(* while the queue is full and fails when it is or gets removed.           *)
Send(c) ==
  /\ client_pc[c] \in Types
  /\ \/ /\ server_exists /\ Len(server_queue) < MAX_MSGS
        /\ server_queue' = Append(server_queue, Message(client_pc[c], c, 0))
        /\ client_pc' = [client_pc EXCEPT ![c] = after[client_pc[c]]]
     \/ /\ ~server_exists
        /\ client_pc' = [client_pc EXCEPT ![c] = "exit"]
        /\ UNCHANGED server_queue
  /\ UNCHANGED <<server_vars, session_num, queue, exists, lines, in_handler, lost>>

ReceiveSession(c) ==
  /\ client_pc[c] = "session" /\ queue[c] # <<>>
  /\ LET number == Head(queue[c]).session IN
     /\ session_num' = [session_num EXCEPT ![c] = number]
     /\ client_pc' = [client_pc EXCEPT ![c] = IF number < 0 THEN "exit" ELSE "prompt"]
  /\ queue' = [queue EXCEPT ![c] = Tail(@)]
  /\ UNCHANGED <<server_vars, server_queue, exists, lines, in_handler, lost>>

ReceiveAnswer(c) ==
  /\ client_pc[c] \in {"mirrored", "told"} /\ queue[c] # <<>>
  /\ queue' = [queue EXCEPT ![c] = Tail(@)]
  /\ client_pc' = [client_pc EXCEPT ![c] = "prompt"]
  /\ UNCHANGED <<server_vars, server_queue, session_num, exists, lines, in_handler, lost>>

(* The loop of main: "quit" calls exit. *)
ReadRequest(c) ==
  /\ client_pc[c] = "prompt" /\ lines[c] > 0
  /\ lines' = [lines EXCEPT ![c] = @ - 1]
  /\ \E place \in {"MIRROR", "TIME", "END", "exit"} :
       client_pc' = [client_pc EXCEPT ![c] = place]
  /\ UNCHANGED <<server_vars, server_queue, session_num, queue, exists, in_handler, lost>>

(* close_queue, registered with atexit: the private queue is removed, with *)
(* the answers in it.                                                      *)
client_close_queue(c) ==
  /\ client_pc[c] = "exit"
  /\ exists' = exists \ {c}
  /\ queue' = [queue EXCEPT ![c] = <<>>]
  /\ client_pc' = [client_pc EXCEPT ![c] = "gone"]
  /\ UNCHANGED <<server_vars, server_queue, session_num, lines, in_handler, lost>>

(* sigint_handler: exit runs close_queue.  SIGINT is blocked while its     *)
(* handler runs; one that arrives during an exit called from main makes    *)
(* the handler call exit again, which skips close_queue.                   *)
client_sigint_handler(c) ==
  /\ c \in Interruptible
  /\ client_pc[c] \notin Ended /\ c \notin in_handler
  /\ client_pc' = [client_pc EXCEPT ![c] =
       CASE @ = "start" -> "gone" [] @ = "exit" -> "cut" [] OTHER -> "exit"]
  /\ in_handler' = in_handler \cup {c}
  /\ UNCHANGED <<server_vars, server_queue, session_num, queue, exists, lines, lost>>

-------------------------------------------------------------------------------
(* server.c *)

Start ==
  /\ server_pc = "start"
  /\ server_pc' = "loop"
  /\ server_exists' = TRUE
  /\ UNCHANGED <<active, clients_data, client_count, msg, server_queue, client_vars,
                 queue, exists, in_handler, lost>>

back_to_loop == server_pc' = "loop" /\ msg' = NoMessage

(* main's loop: one message is taken, or the queue is found empty. *)
Receive ==
  /\ server_pc = "loop" /\ server_queue # <<>>
  /\ msg' = Head(server_queue)
  /\ server_queue' = Tail(server_queue)
  /\ server_pc' = "handle"
  /\ UNCHANGED <<active, clients_data, client_count, server_exists, client_vars,
                 queue, exists, in_handler, lost>>

(* mutant: END stops the server at once *)
nothing_queued_ignored == TRUE

nothing_queued == server_queue = <<>>

Drained ==
  /\ server_pc = "loop" /\ active = 0 /\ nothing_queued
  /\ server_pc' = "closing"
  /\ UNCHANGED <<active, clients_data, client_count, msg, server_exists,
                 server_queue, client_vars, queue, exists, in_handler, lost>>

(* mutant: one client too few *)
table_full_soon == client_count >= MAX_CLIENTS - 1

table_full == client_count > MAX_CLIENTS - 1

(* A client whose queue msgget does not find makes the server exit. *)
handle_register ==
  /\ msg.type = "REGISTER"
  /\ \/ /\ msg.sender \notin exists
        /\ server_pc' = "closing"
        /\ UNCHANGED <<clients_data, client_count, msg>>
     \/ /\ msg.sender \in exists /\ server_pc' = "reply"
        /\ IF table_full
           THEN /\ msg' = Message("REGISTER", msg.sender, -1)
                /\ UNCHANGED <<clients_data, client_count>>
           ELSE /\ clients_data' = [clients_data EXCEPT ![client_count] = msg.sender]
                /\ client_count' = client_count + 1
                /\ msg' = Message("REGISTER", msg.sender, client_count)
  /\ UNCHANGED active

(* handle_mirror and handle_time: get_qid looks the sender up. *)
handle_question ==
  /\ msg.type \in {"MIRROR", "TIME"}
  /\ IF msg.sender \in registered
     THEN server_pc' = "reply" /\ UNCHANGED msg
     ELSE back_to_loop
  /\ UNCHANGED <<active, clients_data, client_count>>

handle_end ==
  /\ msg.type = "END"
  /\ active' = 0
  /\ back_to_loop
  /\ UNCHANGED <<clients_data, client_count>>

dispatch_requests ==
  /\ server_pc = "handle"
  /\ handle_register \/ handle_question \/ handle_end
  /\ UNCHANGED <<server_exists, server_queue, client_vars, queue, exists, in_handler, lost>>

(* The msgsnd at the end of a handler: a client that has removed its queue *)
(* makes it fail, and the server exits.                                    *)
Reply ==
  /\ server_pc = "reply"
  /\ \/ /\ msg.sender \in exists /\ Len(queue[msg.sender]) < MAX_MSGS
        /\ queue' = [queue EXCEPT ![msg.sender] = Append(@, msg)]
        /\ back_to_loop
     \/ /\ msg.sender \notin exists
        /\ server_pc' = "closing"
        /\ UNCHANGED <<queue, msg>>
  /\ UNCHANGED <<active, clients_data, client_count, server_exists, server_queue,
                 client_vars, exists, in_handler, lost>>

senders == {server_queue[i].sender : i \in 1..Len(server_queue)}

(* close_queue, registered with atexit. *)
CloseQueue ==
  /\ server_pc = "closing"
  /\ server_exists' = FALSE
  /\ lost' = senders
  /\ server_queue' = <<>>
  /\ server_pc' = "gone"
  /\ UNCHANGED <<active, clients_data, client_count, msg, client_vars, queue, exists,
                 in_handler>>

server_sigint_handler ==
  /\ Server \in Interruptible
  /\ server_pc \notin Ended /\ Server \notin in_handler
  /\ server_pc' = CASE server_pc = "start" -> "gone"
                    [] server_pc = "closing" -> "cut"
                    [] OTHER -> "closing"
  /\ in_handler' = in_handler \cup {Server}
  /\ UNCHANGED <<active, clients_data, client_count, msg, server_exists, server_queue,
                 client_vars, queue, exists, lost>>

-------------------------------------------------------------------------------
Init ==
  /\ active = 1
  /\ clients_data = [i \in Places |-> NoClient] /\ client_count = 0
  /\ server_pc = "start"
  /\ msg = NoMessage
  /\ server_queue = <<>> /\ server_exists = FALSE
  /\ client_pc = [c \in Clients |-> "start"]
  /\ session_num = [c \in Clients |-> -2]
  /\ queue = [c \in Clients |-> <<>>]
  /\ exists = {}
  /\ lines = [c \in Clients |-> Lines]
  /\ in_handler = {} /\ lost = {}

ClientStep(c) ==
  Send(c) \/ ReceiveSession(c) \/ ReceiveAnswer(c) \/ client_close_queue(c)

ServerStep ==
  Start \/ Receive \/ Drained \/ dispatch_requests \/ Reply \/ CloseQueue

Next ==
  \/ \E c \in Clients :
       ClientStep(c) \/ Open(c) \/ ReadRequest(c) \/ client_sigint_handler(c)
  \/ ServerStep
  \/ server_sigint_handler

Spec == Init /\ [][Next]_vars

(* Processes keep running and a sender that waits for room on a queue that *)
(* is read again and again gets it.  Nobody need start a client, type a    *)
(* request or press Ctrl-C.                                                *)
FairSpec ==
  /\ Spec
  /\ WF_vars(ServerStep)
  /\ \A c \in Clients :
       /\ SF_vars(Send(c))
       /\ WF_vars(ReceiveSession(c) \/ ReceiveAnswer(c) \/ client_close_queue(c))

-------------------------------------------------------------------------------
pending(c) == {i \in 1..Len(server_queue) : /\ server_queue[i].sender = c
                                           /\ server_queue[i].type \in RequestTypes}
in_hand(c, place) ==
  server_pc = place /\ msg.sender = c /\ msg.type \in RequestTypes
Closed == server_pc \in {"closing"} \cup Ended

(* The server is stopped by a client only if that client was interrupted   *)
(* while its request was on its way: a client that quits, is refused or    *)
(* ends with an error removes its queue only when the server owes it       *)
(* nothing, so msgget and msgsnd on that queue do not fail.                *)
ErrorExitsExplained ==
  Closed /\ Server \notin in_handler =>
    IF msg = NoMessage THEN active = 0 ELSE msg.sender \in in_handler

(* A client that waits for ever for an answer of a server that is gone     *)
(* sent its request between the server's last look at the queue and its    *)
(* removal, or had it in the hands of a server that was interrupted; no    *)
(* request is dropped by a server that goes on.                            *)
OrphansExplained ==
  server_pc = "gone" =>
    \A c \in Clients : client_pc[c] \in Waiting /\ queue[c] = <<>> =>
      c \in lost \/ (Server \in in_handler /\ msg.sender = c)

(* Seen from outside the server is the abstract request service.           *)
asks(c) ==
  LET inQueue == pending(c) IN
  IF inQueue # {} THEN server_queue[CHOOSE i \in inQueue : TRUE].type
  ELSE IF in_hand(c, "handle") THEN msg.type
  ELSE "none"

answered(m) == IF m.type # "REGISTER" THEN m.type
               ELSE IF m.session < 0 THEN "REFUSED" ELSE "ADMITTED"

gets(c) ==
  IF queue[c] # <<>> THEN answered(Head(queue[c]))
  ELSE IF in_hand(c, "reply") THEN answered(msg)
  ELSE "none"

Service == INSTANCE RequestService WITH
  open <- ~Closed,
  members <- registered,
  question <- [c \in Clients |-> asks(c)],
  answer <- [c \in Clients |-> gets(c)]

(* Every question gets at most one answer, its own; only members are       *)
(* answered and nobody is refused while there is a free place.             *)
ImplementsService == Service!Spec

(* A request sent before an END is handled is answered, unless somebody is *)
(* interrupted: the server drains its queue before it goes.                *)
RequestsBeforeEndAnswered ==
  \A c \in Clients :
    client_pc[c] \in Waiting /\ active = 1 ~> client_pc[c] \notin Waiting \/ in_handler # {}
===============================================================================
