--------------------------- MODULE SysvServer_proof ---------------------------
(***************************************************************************)
(* Proofs about SysvServer for any number of clients, any length of the    *)
(* table and any capacity of the queues.  As in PosixServer_proof, IInv    *)
(* follows one client's question through the server; as no client ever     *)
(* leaves the table, it need not follow the session numbers.               *)
(***************************************************************************)
EXTENDS SysvServer, SequenceTheorems, FiniteSetTheorems,
        FunctionTheorems, TLAPS

Messages == [type: Types, sender: Clients, session: -1..MAX_CLIENTS-1]

TypeOK ==
  /\ active \in {0, 1}
  /\ clients_data \in [Places -> Clients \cup {NoClient}]
  /\ client_count \in 0..MAX_CLIENTS
  /\ server_pc \in {"start", "loop", "handle", "reply", "closing"} \cup Ended
  /\ msg \in Messages \cup {NoMessage}
  /\ server_queue \in Seq(Messages) /\ server_exists \in BOOLEAN
  /\ client_pc \in [Clients -> {"start", "prompt", "exit"} \cup Types \cup Waiting \cup Ended]
  /\ session_num \in [Clients -> -2..MAX_CLIENTS-1]
  /\ queue \in [Clients -> Seq(Messages)]
  /\ exists \in SUBSET Clients
  /\ lines \in [Clients -> 0..Lines]
  /\ in_handler \in SUBSET (Clients \cup {Server})
  /\ lost \in SUBSET Clients

(* The server, the message in its hands and the public queue. *)
ServerInv ==
  /\ server_pc \in {"start", "loop"} => msg = NoMessage
  /\ server_pc \in {"handle", "reply"} => msg \in Messages
  /\ server_pc = "reply" => msg.type \in RequestTypes
  /\ server_exists <=> server_pc \notin {"start", "gone"}
  /\ ~server_exists => server_queue = <<>>
  /\ server_pc = "start" => \A c \in Clients : client_pc[c] \in {"start", "gone"}
  /\ ErrorExitsExplained

(* The table is filled from below, and nobody is in it twice. *)
TableInv ==
  /\ \A i \in Places : IF i < client_count THEN clients_data[i] \in Clients
                                           ELSE clients_data[i] = NoClient
  /\ \A i, j \in 0..client_count-1 : clients_data[i] = clients_data[j] => i = j

(* Of each client at most one question is under way. *)
Question(m, c) == m.sender = c /\ m.type \in RequestTypes
Asked(c) == \E i \in 1..Len(server_queue) : Question(server_queue[i], c)
Handled(c) == server_pc \in {"handle", "reply"} /\ Question(msg, c)
Silent(c) == ~Asked(c) /\ ~Handled(c) /\ queue[c] = <<>>

OneQuestion ==
  \A c \in Clients :
    /\ \A i, j \in 1..Len(server_queue) :
         Question(server_queue[i], c) /\ Question(server_queue[j], c) => i = j
    /\ Asked(c) => ~Handled(c) /\ queue[c] = <<>>
    /\ Handled(c) => queue[c] = <<>>
    /\ Len(queue[c]) <= 1

(* What a message that has not been handled says of its sender. *)
Expected(m) ==
  /\ m.type = "REGISTER" => m.sender \notin registered
  /\ m.type \in {"MIRROR", "TIME"} => m.sender \in registered

RequestsInv ==
  /\ \A i \in 1..Len(server_queue) : Expected(server_queue[i])
  /\ server_pc = "handle" => Expected(msg)

(* What an answer on its way says of the client it goes to. *)
Due(m, c) == m.type # "REGISTER" \/ m.session >= 0 => c \in registered

AnswersInv ==
  /\ \A c \in Clients : queue[c] # <<>> => Due(Head(queue[c]), c)
  /\ server_pc = "reply" => Due(msg, msg.sender)

(* What the place of a client says of it. *)
Asking == {"prompt", "MIRROR", "TIME", "END"}

PlaceInv(c) ==
  /\ client_pc[c] \in {"start", "REGISTER"} => c \notin registered
  /\ client_pc[c] \in Asking \cup {"mirrored", "told"} => c \in registered
  /\ client_pc[c] \in {"REGISTER"} \cup Asking \cup Waiting => c \in exists
  /\ c \notin in_handler /\ client_pc[c] \notin Waiting => Silent(c)
  /\ c \in in_handler => client_pc[c] \in {"exit"} \cup Ended

(* A client that waits has its question in the queue or in the server's    *)
(* hands, until the server is gone.                                        *)
WaitInv(c) ==
  client_pc[c] \in Waiting /\ queue[c] = <<>> =>
    IF server_pc = "gone" THEN c \in lost \/ (Server \in in_handler /\ msg.sender = c)
                          ELSE Asked(c) \/ Question(msg, c)

ClientsInv == \A c \in Clients : PlaceInv(c) /\ WaitInv(c)

IInv ==
  /\ TypeOK /\ ServerInv /\ TableInv /\ OneQuestion
  /\ RequestsInv /\ AnswersInv /\ ClientsInv

-------------------------------------------------------------------------------
(* What a step changes. *)

LEMMA Constants ==
  /\ Server \notin Clients /\ NoClient \notin Clients
  /\ MAX_CLIENTS \in Nat \ {0} /\ MAX_MSGS \in Nat \ {0} /\ Lines \in Nat
  /\ Interruptible \subseteq Clients \cup {Server}
BY ConstantsAssumption

LEMMA MessageFields ==
  /\ \A m \in Messages : /\ m.type \in Types /\ m.sender \in Clients
                         /\ m.session \in -1..MAX_CLIENTS-1
  /\ \A type \in Types, c \in Clients, s \in -1..MAX_CLIENTS-1 :
       /\ Message(type, c, s) \in Messages
       /\ Message(type, c, s).type = type
       /\ Message(type, c, s).sender = c
       /\ Message(type, c, s).session = s
  /\ NoMessage.type = "END" /\ NoMessage.sender = NoClient
  /\ NoMessage \notin Messages
BY Constants DEF Messages, Message, NoMessage

LEMMA Typed ==
  ASSUME IInv
  PROVE  /\ server_queue \in Seq(Messages) /\ Len(server_queue) \in Nat
         /\ \A i \in 1..Len(server_queue) : server_queue[i] \in Messages
         /\ \A c \in Clients : queue[c] \in Seq(Messages) /\ Len(queue[c]) \in Nat
         /\ client_count \in 0..MAX_CLIENTS
         /\ \A i \in 0..client_count-1 : i \in Places /\ clients_data[i] \in Clients
         /\ registered \subseteq Clients
<1>1. /\ server_queue \in Seq(Messages) /\ queue \in [Clients -> Seq(Messages)]
      /\ client_count \in 0..MAX_CLIENTS
      /\ clients_data \in [Places -> Clients \cup {NoClient}]
  BY DEF IInv, TypeOK
<1>2. \A i \in 0..client_count-1 : i \in Places /\ clients_data[i] \in Clients
  BY <1>1, Constants DEF IInv, TableInv, Places
<1> QED BY <1>1, <1>2 DEF registered

(* The places of a queue, one message later. *)
LEMMA Appended ==
  ASSUME NEW s \in Seq(Messages), NEW m \in Messages, NEW t, t = Append(s, m)
  PROVE  /\ t \in Seq(Messages) /\ Len(t) = Len(s) + 1 /\ t # <<>>
         /\ Len(t) \in 1..Len(t) /\ t[Len(t)] = m
         /\ \A i \in 1..Len(s) : i \in 1..Len(t) /\ t[i] = s[i]
         /\ \A i \in 1..Len(t) : i = Len(t) \/ i \in 1..Len(s)
OBVIOUS

LEMMA Removed ==
  ASSUME NEW s \in Seq(Messages), s # <<>>, NEW t, t = Tail(s)
  PROVE  /\ t \in Seq(Messages) /\ Len(t) = Len(s) - 1 /\ Len(s) \in Nat \ {0}
         /\ Head(s) = s[1] /\ 1 \in 1..Len(s) /\ Head(s) \in Messages
         /\ \A i \in 1..Len(t) : i + 1 \in 1..Len(s) /\ t[i] = s[i+1]
         /\ \A i \in 1..Len(s) : i # 1 => i - 1 \in 1..Len(t) /\ t[i-1] = s[i]
<1>1. Len(s) \in Nat \ {0}
  BY EmptySeq
<1>2. /\ t \in Seq(Messages) /\ Len(t) = Len(s) - 1
      /\ \A i \in 1..Len(t) : t[i] = s[i+1]
  BY HeadTailProperties
<1>3. Head(s) = s[1] /\ 1 \in 1..Len(s) /\ Head(s) \in Messages
  BY <1>1, HeadTailProperties, ElementOfSeq
<1>4. \A i \in 1..Len(t) : i + 1 \in 1..Len(s)
  BY <1>1, <1>2
<1>5. \A i \in 1..Len(s) : i # 1 => i - 1 \in 1..Len(t) /\ t[i-1] = s[(i-1)+1]
  BY <1>1, <1>2
<1>6. \A i \in 1..Len(s) : (i-1)+1 = i
  BY <1>1
<1> QED BY <1>1, <1>2, <1>3, <1>4, <1>5, <1>6

(* A client that the step passes by. *)
LEMMA PlaceKept ==
  ASSUME NEW c \in Clients, PlaceInv(c), client_pc'[c] = client_pc[c],
         c \in registered' <=> c \in registered, c \in exists' <=> c \in exists,
         c \in in_handler' <=> c \in in_handler, Silent(c) => Silent(c)'
  PROVE  PlaceInv(c)'
BY DEF PlaceInv

(* The steps of a client that leave the server and the queues alone. *)
LEMMA ClientMoves ==
  ASSUME IInv, TypeOK', NEW c \in Clients, PlaceInv(c)', WaitInv(c)',
         UNCHANGED <<server_vars, server_queue, queue, lost>>,
         \A d \in Clients \ {c} : /\ client_pc'[d] = client_pc[d]
                                  /\ d \in exists' <=> d \in exists
                                  /\ d \in in_handler' <=> d \in in_handler,
         c \in in_handler => c \in in_handler',
         server_pc = "start" => client_pc'[c] \in {"start", "gone"},
         Server \in in_handler' <=> Server \in in_handler
  PROVE  IInv'
<1>1. UNCHANGED <<active, clients_data, client_count, server_pc, msg, server_exists>>
  BY DEF server_vars
<1>2. (Closed' <=> Closed) /\ registered' = registered
  BY <1>1 DEF Closed, registered
<1>3. ServerInv'
  <2>1. ErrorExitsExplained'
    <3>1. msg # NoMessage /\ Closed /\ Server \notin in_handler =>
            msg.sender \in in_handler /\ msg.sender \in Clients
      BY Constants DEF IInv, ServerInv, ErrorExitsExplained, TypeOK, Messages
    <3>2. ErrorExitsExplained
      BY DEF IInv, ServerInv
    <3> QED BY <1>1, <1>2, <3>1, <3>2 DEF ErrorExitsExplained
  <2> QED BY <1>1, <2>1 DEF IInv, ServerInv
<1>4. TableInv' /\ OneQuestion' /\ RequestsInv' /\ AnswersInv'
  BY <1>1, <1>2 DEF IInv, TableInv, OneQuestion, Asked, Handled, RequestsInv, Expected,
                    AnswersInv, Due
<1>5. ASSUME NEW d \in Clients \ {c} PROVE PlaceInv(d)' /\ WaitInv(d)'
  <2>1. PlaceInv(d) /\ WaitInv(d)
    BY DEF IInv, ClientsInv
  <2>2. (Silent(d)' <=> Silent(d)) /\ (Asked(d)' <=> Asked(d))
    BY <1>1 DEF Silent, Asked, Handled
  <2>3. PlaceInv(d)'
    BY <1>2, <2>1, <2>2, PlaceKept
  <2> QED BY <1>1, <2>1, <2>2, <2>3 DEF WaitInv
<1> QED BY <1>3, <1>4, <1>5 DEF IInv, ClientsInv

-------------------------------------------------------------------------------
(* One lemma per action: it preserves the inductive invariant. *)

LEMMA InitEstablishes == Init => IInv
<1> SUFFICES ASSUME Init PROVE IInv
  OBVIOUS
<1>1. /\ server_queue = <<>> /\ Len(server_queue) = 0
      /\ \A c \in Clients : queue[c] = <<>> /\ Len(queue[c]) = 0
  BY DEF Init
<1>2. /\ client_count = 0 /\ server_pc = "start" /\ msg = NoMessage /\ ~server_exists
      /\ \A c \in Clients : client_pc[c] = "start"
      /\ in_handler = {} /\ \A i \in Places : clients_data[i] = NoClient
  BY DEF Init
<1>3. 1..Len(server_queue) = {} /\ 0..client_count-1 = {} /\ registered = {}
  BY <1>1, <1>2 DEF registered
<1>4. TypeOK
  <2>1. /\ clients_data \in [Places -> Clients \cup {NoClient}]
        /\ client_pc \in [Clients -> {"start", "prompt", "exit"} \cup Types \cup Waiting
                                     \cup Ended]
    BY DEF Init
  <2>2. session_num \in [Clients -> -2..MAX_CLIENTS-1] /\ lines \in [Clients -> 0..Lines]
    BY Constants DEF Init
  <2>3. queue \in [Clients -> Seq(Messages)] /\ server_queue \in Seq(Messages)
    BY DEF Init
  <2>4. client_count \in 0..MAX_CLIENTS
    BY <1>2, Constants
  <2> QED BY <1>2, <2>1, <2>2, <2>3, <2>4 DEF Init, TypeOK
<1>5. ServerInv
  BY <1>1, <1>2 DEF ServerInv, ErrorExitsExplained, Closed, Ended
<1>6. TableInv
  BY <1>2, <1>3 DEF TableInv, Places
<1>7. \A c \in Clients : Silent(c)
  BY <1>1, <1>2, <1>3 DEF Silent, Asked, Handled
<1>8. OneQuestion
  BY <1>1, <1>2, <1>3 DEF OneQuestion, Asked, Handled
<1>9. RequestsInv /\ AnswersInv
  BY <1>1, <1>2, <1>3 DEF RequestsInv, AnswersInv
<1>10. ClientsInv
  BY <1>2, <1>3, <1>7 DEF ClientsInv, PlaceInv, WaitInv, Waiting, Asking, Ended
<1> QED BY <1>4, <1>5, <1>6, <1>8, <1>9, <1>10 DEF IInv

LEMMA OpenPreserves ==
  ASSUME IInv, NEW c \in Clients, Open(c) PROVE IInv'
<1> DEFINE place == IF server_exists THEN "REGISTER" ELSE "gone"
<1>1. /\ client_pc[c] = "start" /\ client_pc' = [client_pc EXCEPT ![c] = place]
      /\ exists' = IF server_exists THEN exists \cup {c} ELSE exists
      /\ UNCHANGED <<server_vars, server_queue, session_num, queue, lines, in_handler, lost>>
  BY DEF Open
<1>2. /\ client_pc'[c] = place /\ place \in {"REGISTER", "gone"}
      /\ \A d \in Clients \ {c} : client_pc'[d] = client_pc[d]
      /\ client_pc' \in [Clients -> {"start", "prompt", "exit"} \cup Types \cup Waiting
                                    \cup Ended]
  BY <1>1 DEF IInv, TypeOK, Types, RequestTypes, Ended
<1>3. UNCHANGED <<active, clients_data, client_count, server_pc, msg, server_exists>>
  BY <1>1 DEF server_vars
<1>4. TypeOK'
  BY <1>1, <1>2, <1>3 DEF IInv, TypeOK
<1>5. registered' = registered /\ (Silent(c)' <=> Silent(c))
  BY <1>1, <1>3 DEF registered, Silent, Asked, Handled
<1>6. Silent(c) /\ c \notin registered /\ c \notin in_handler
  BY <1>1 DEF IInv, ClientsInv, PlaceInv, Ended, Waiting
<1>7. PlaceInv(c)' /\ WaitInv(c)'
  BY <1>1, <1>2, <1>5, <1>6 DEF PlaceInv, WaitInv, Waiting, Asking, Ended
<1>8. server_pc = "start" => client_pc'[c] \in {"start", "gone"}
  BY <1>2 DEF IInv, ServerInv
<1> QED BY <1>1, <1>2, <1>4, <1>7, <1>8, ClientMoves

LEMMA ReadRequestPreserves ==
  ASSUME IInv, NEW c \in Clients, ReadRequest(c) PROVE IInv'
<1>1. PICK place \in {"MIRROR", "TIME", "END", "exit"} :
        client_pc' = [client_pc EXCEPT ![c] = place]
  BY DEF ReadRequest
<1>2. /\ client_pc[c] = "prompt" /\ lines[c] > 0
      /\ lines' = [lines EXCEPT ![c] = lines[c] - 1]
      /\ UNCHANGED <<server_vars, server_queue, session_num, queue, exists, in_handler, lost>>
  BY DEF ReadRequest
<1>3. /\ client_pc'[c] = place
      /\ \A d \in Clients \ {c} : client_pc'[d] = client_pc[d]
      /\ client_pc' \in [Clients -> {"start", "prompt", "exit"} \cup Types \cup Waiting
                                    \cup Ended]
  BY <1>1 DEF IInv, TypeOK, Types, RequestTypes
<1>4. UNCHANGED <<active, clients_data, client_count, server_pc, msg, server_exists>>
  BY <1>2 DEF server_vars
<1>5. lines' \in [Clients -> 0..Lines]
  BY <1>2, Constants DEF IInv, TypeOK
<1>6. TypeOK'
  BY <1>2, <1>3, <1>4, <1>5 DEF IInv, TypeOK
<1>7. registered' = registered /\ (Silent(c)' <=> Silent(c))
  BY <1>2, <1>4 DEF registered, Silent, Asked, Handled
<1>8. Silent(c) /\ c \in registered /\ c \notin in_handler /\ c \in exists
  BY <1>2 DEF IInv, ClientsInv, PlaceInv, Asking, Ended, Waiting
<1>9. PlaceInv(c)' /\ WaitInv(c)'
  BY <1>2, <1>3, <1>7, <1>8 DEF PlaceInv, WaitInv, Waiting, Asking, Ended
<1>10. server_pc # "start"
  BY <1>2 DEF IInv, ServerInv
<1> QED BY <1>2, <1>3, <1>6, <1>9, <1>10, ClientMoves

LEMMA ClientSigintPreserves ==
  ASSUME IInv, NEW c \in Clients, client_sigint_handler(c) PROVE IInv'
<1> DEFINE place == CASE client_pc[c] = "start" -> "gone" [] client_pc[c] = "exit" -> "cut"
                      [] OTHER -> "exit"
<1>1. /\ client_pc[c] \notin Ended /\ c \notin in_handler
      /\ client_pc' = [client_pc EXCEPT ![c] = place]
      /\ in_handler' = in_handler \cup {c}
      /\ UNCHANGED <<server_vars, server_queue, session_num, queue, exists, lines, lost>>
  BY DEF client_sigint_handler
<1>2. place \in {"gone", "cut", "exit"} /\ (client_pc[c] = "start" => place = "gone")
  OBVIOUS
<1>3. /\ client_pc'[c] = place
      /\ \A d \in Clients \ {c} : client_pc'[d] = client_pc[d]
      /\ client_pc' \in [Clients -> {"start", "prompt", "exit"} \cup Types \cup Waiting
                                    \cup Ended]
  BY <1>1, <1>2 DEF IInv, TypeOK, Ended
<1>4. UNCHANGED <<active, clients_data, client_count, server_pc, msg, server_exists>>
  BY <1>1 DEF server_vars
<1>5. TypeOK'
  BY <1>1, <1>3, <1>4 DEF IInv, TypeOK
<1>6. PlaceInv(c)' /\ WaitInv(c)'
  BY <1>1, <1>2, <1>3 DEF PlaceInv, WaitInv, Waiting, Asking, Ended
<1>7. server_pc = "start" => client_pc'[c] \in {"start", "gone"}
  BY <1>1, <1>2, <1>3 DEF IInv, ServerInv, Ended
<1> QED BY <1>1, <1>3, <1>5, <1>6, <1>7, ClientMoves, Constants

(* A message of c joins the server's queue. *)
LEMMA SendPreserves ==
  ASSUME IInv, NEW c \in Clients, Send(c), server_exists PROVE IInv'
<1>1. PICK type \in Types, m \in Messages :
        /\ client_pc[c] = type /\ m.type = type /\ m.sender = c
        /\ server_queue' = Append(server_queue, m)
        /\ client_pc' = [client_pc EXCEPT ![c] = after[type]]
        /\ UNCHANGED <<active, clients_data, client_count, server_pc, msg, server_exists,
                       session_num, queue, exists, lines, in_handler, lost>>
  <2>1. 0 \in -1..MAX_CLIENTS-1 /\ client_pc[c] \in Types
    BY Constants DEF Send
  <2>2. /\ Message(client_pc[c], c, 0) \in Messages
        /\ Message(client_pc[c], c, 0).type = client_pc[c]
        /\ Message(client_pc[c], c, 0).sender = c
    BY <2>1, MessageFields
  <2> QED BY <2>1, <2>2 DEF Send, server_vars
<1>2. /\ type = "REGISTER" => after[type] = "session"
      /\ type = "MIRROR" => after[type] = "mirrored"
      /\ type = "TIME" => after[type] = "told"
      /\ type = "END" => after[type] = "prompt"
      /\ type \in {"REGISTER", "MIRROR", "TIME", "END"}
  BY <1>1 DEF after, Types, RequestTypes
<1>3. /\ client_pc'[c] = after[type]
      /\ after[type] \in {"session", "mirrored", "told", "prompt"}
      /\ \A d \in Clients \ {c} : client_pc'[d] = client_pc[d]
      /\ client_pc' \in [Clients -> {"start", "prompt", "exit"} \cup Types \cup Waiting
                                    \cup Ended]
  BY <1>1, <1>2 DEF IInv, TypeOK, Types, RequestTypes, Waiting
<1> DEFINE n == Len(server_queue')
<1>4. /\ server_queue' \in Seq(Messages) /\ n = Len(server_queue) + 1
      /\ n \in 1..n /\ server_queue'[n] = m
      /\ \A i \in 1..Len(server_queue) : i \in 1..n /\ server_queue'[i] = server_queue[i]
      /\ \A i \in 1..n : i = n \/ i \in 1..Len(server_queue)
  BY <1>1, Typed, Appended
<1>5. TypeOK'
  BY <1>1, <1>3, <1>4 DEF IInv, TypeOK
<1>6. registered' = registered /\ (Closed' <=> Closed)
  BY <1>1 DEF Closed, registered
<1>7. ServerInv' /\ TableInv'
  <2>1. server_pc \notin {"start", "gone"}
    BY DEF IInv, ServerInv
  <2> QED BY <1>1, <1>6, <2>1 DEF IInv, ServerInv, TableInv, ErrorExitsExplained
<1>8. /\ PlaceInv(c) /\ Silent(c)
  BY <1>1, <1>2 DEF IInv, ClientsInv, PlaceInv, Waiting, Ended
<1>9. ASSUME NEW d \in Clients
      PROVE  /\ Asked(d)' <=> Asked(d) \/ (d = c /\ type \in RequestTypes)
             /\ Handled(d)' <=> Handled(d)
  BY <1>1, <1>4 DEF Asked, Handled, Question
<1>10. OneQuestion'
  <2> SUFFICES ASSUME NEW d \in Clients
               PROVE  /\ \A i, j \in 1..n : Question(server_queue'[i], d)
                           /\ Question(server_queue'[j], d) => i = j
                      /\ Asked(d)' => ~Handled(d)' /\ queue[d] = <<>>
                      /\ Handled(d)' => queue[d] = <<>>
                      /\ Len(queue[d]) <= 1
    BY <1>1 DEF OneQuestion, Question
  <2>1. OneQuestion
    BY DEF IInv
  <2>2. Asked(d)' => ~Handled(d)' /\ queue[d] = <<>>
    BY <1>8, <1>9, <2>1 DEF OneQuestion, Silent
  <2>3. \A i \in 1..Len(server_queue) :
          Question(server_queue[i], d) => ~Question(m, d)
    BY <1>1, <1>8 DEF Silent, Asked, Question
  <2>4. \A i, j \in 1..n : Question(server_queue'[i], d)
                           /\ Question(server_queue'[j], d) => i = j
    BY <1>4, <2>1, <2>3 DEF OneQuestion
  <2> QED BY <1>9, <2>1, <2>2, <2>4 DEF OneQuestion
<1>11. RequestsInv'
  <2>1. Expected(m)
    BY <1>1, <1>2, <1>8 DEF Expected, PlaceInv, Asking
  <2>2. \A i \in 1..n : Expected(server_queue'[i])
    BY <1>4, <2>1 DEF IInv, RequestsInv
  <2> QED BY <1>1, <1>6, <2>2 DEF IInv, RequestsInv, Expected
<1>12. AnswersInv'
  BY <1>1, <1>6 DEF IInv, AnswersInv, Due
<1>13. ClientsInv'
  <2>1. ASSUME NEW d \in Clients \ {c} PROVE PlaceInv(d)' /\ WaitInv(d)'
    <3>1. Silent(d) => Silent(d)'
      BY <1>1, <1>9 DEF Silent
    <3>2. PlaceInv(d) /\ WaitInv(d)
      BY DEF IInv, ClientsInv
    <3>3. PlaceInv(d)'
      BY <1>1, <1>3, <1>6, <3>1, <3>2, PlaceKept
    <3> QED BY <1>1, <1>3, <1>9, <3>2, <3>3 DEF WaitInv
  <2>2. type = "END" => Silent(c)'
    BY <1>1, <1>8, <1>9 DEF Silent, RequestTypes
  <2>3. PlaceInv(c)'
    BY <1>1, <1>2, <1>3, <1>6, <1>8, <2>2 DEF PlaceInv, Asking, Waiting, Ended
  <2>4. WaitInv(c)'
    <3>1. server_pc # "gone"
      BY DEF IInv, ServerInv
    <3> QED BY <1>1, <1>2, <1>3, <1>9, <3>1 DEF WaitInv, Waiting, RequestTypes
  <2> QED BY <2>1, <2>3, <2>4 DEF ClientsInv
<1> QED BY <1>5, <1>7, <1>10, <1>11, <1>12, <1>13 DEF IInv

LEMMA SendFailsPreserves ==
  ASSUME IInv, NEW c \in Clients, Send(c), ~server_exists PROVE IInv'
<1>1. /\ client_pc[c] \in Types /\ client_pc' = [client_pc EXCEPT ![c] = "exit"]
      /\ UNCHANGED <<server_vars, server_queue, session_num, queue, exists, lines,
                     in_handler, lost>>
  BY DEF Send
<1>2. /\ client_pc'[c] = "exit"
      /\ \A d \in Clients \ {c} : client_pc'[d] = client_pc[d]
      /\ client_pc' \in [Clients -> {"start", "prompt", "exit"} \cup Types \cup Waiting
                                    \cup Ended]
  BY <1>1 DEF IInv, TypeOK
<1>3. UNCHANGED <<active, clients_data, client_count, server_pc, msg, server_exists>>
  BY <1>1 DEF server_vars
<1>4. TypeOK'
  BY <1>1, <1>2, <1>3 DEF IInv, TypeOK
<1>5. Silent(c)' <=> Silent(c)
  BY <1>1, <1>3 DEF Silent, Asked, Handled
<1>6. Silent(c)
  BY <1>1 DEF IInv, ClientsInv, PlaceInv, Types, RequestTypes, Waiting, Ended
<1>7. PlaceInv(c)' /\ WaitInv(c)'
  BY <1>1, <1>2, <1>5, <1>6 DEF PlaceInv, WaitInv, Waiting, Asking, Ended
<1>8. server_pc # "start"
  BY <1>1 DEF IInv, ServerInv, Types, RequestTypes
<1> QED BY <1>1, <1>2, <1>4, <1>7, <1>8, ClientMoves

(* The queue of c gets shorter, or is removed, and c goes on. *)
LEMMA QueueShrinks ==
  ASSUME IInv, TypeOK', NEW c \in Clients, PlaceInv(c)', WaitInv(c)',
         UNCHANGED <<server_vars, server_queue, in_handler, lost>>,
         queue'[c] = <<>>,
         \A d \in Clients \ {c} : /\ client_pc'[d] = client_pc[d]
                                  /\ queue'[d] = queue[d]
                                  /\ d \in exists' <=> d \in exists,
         server_pc = "start" => client_pc'[c] \in {"start", "gone"}
  PROVE  IInv'
<1>1. UNCHANGED <<active, clients_data, client_count, server_pc, msg, server_exists>>
  BY DEF server_vars
<1>2. (Closed' <=> Closed) /\ registered' = registered
  BY <1>1 DEF Closed, registered
<1>3. ServerInv' /\ TableInv' /\ RequestsInv'
  BY <1>1, <1>2 DEF IInv, ServerInv, ErrorExitsExplained, TableInv, RequestsInv, Expected
<1>4. \A d \in Clients : (Asked(d)' <=> Asked(d)) /\ (Handled(d)' <=> Handled(d))
  BY <1>1 DEF Asked, Handled
<1>5. OneQuestion'
  <2>1. Len(queue'[c]) <= 1 /\ OneQuestion
    BY DEF IInv
  <2> QED BY <1>1, <1>4, <2>1 DEF OneQuestion
<1>6. AnswersInv'
  BY <1>1, <1>2 DEF IInv, AnswersInv, Due
<1>7. ASSUME NEW d \in Clients \ {c} PROVE PlaceInv(d)' /\ WaitInv(d)'
  <2>1. PlaceInv(d) /\ WaitInv(d)
    BY DEF IInv, ClientsInv
  <2>2. Silent(d)' <=> Silent(d)
    BY <1>4 DEF Silent
  <2>3. PlaceInv(d)'
    BY <1>2, <2>1, <2>2, PlaceKept
  <2> QED BY <1>1, <1>4, <2>1, <2>3 DEF WaitInv
<1> QED BY <1>3, <1>5, <1>6, <1>7 DEF IInv, ClientsInv

(* The one answer in a client's queue, and the queue without it. *)
LEMMA OneAnswer ==
  ASSUME IInv, NEW c \in Clients, queue[c] # <<>>, queue' = [queue EXCEPT ![c] = Tail(queue[c])]
  PROVE  /\ Head(queue[c]) \in Messages /\ Len(queue[c]) = 1
         /\ queue' \in [Clients -> Seq(Messages)] /\ queue'[c] = <<>>
         /\ \A d \in Clients \ {c} : queue'[d] = queue[d]
         /\ ~Asked(c) /\ ~Handled(c) /\ Due(Head(queue[c]), c)
<1>1. queue[c] \in Seq(Messages) /\ queue \in [Clients -> Seq(Messages)]
  BY DEF IInv, TypeOK
<1> DEFINE t == Tail(queue[c])
<1>2. /\ t \in Seq(Messages) /\ Len(t) = Len(queue[c]) - 1
      /\ Len(queue[c]) \in Nat \ {0} /\ Head(queue[c]) \in Messages
  BY <1>1, Removed
<1> HIDE DEF t
<1>3. Len(queue[c]) <= 1
  BY DEF IInv, OneQuestion
<1>4. Len(queue[c]) = 1 /\ Len(t) = 0
  <2>1. PICK k \in Nat \ {0}, l \in Int : k = Len(queue[c]) /\ l = Len(t)
    BY <1>2
  <2>2. k <= 1 /\ l = k - 1
    BY <1>2, <1>3, <2>1
  <2>3. k = 1 /\ l = 0
    BY <2>2
  <2> QED BY <2>1, <2>3
<1>5. t = <<>>
  BY <1>2, <1>4, EmptySeq
<1>6. queue' \in [Clients -> Seq(Messages)] /\ queue'[c] = t
      /\ \A d \in Clients \ {c} : queue'[d] = queue[d]
  <2>1. queue' = [queue EXCEPT ![c] = t]
    BY DEF t
  <2> QED BY <1>1, <1>2, <2>1
<1>7. ~Asked(c) /\ ~Handled(c) /\ Due(Head(queue[c]), c)
  BY DEF IInv, OneQuestion, AnswersInv
<1> QED BY <1>2, <1>4, <1>5, <1>6, <1>7

LEMMA ReceiveSessionPreserves ==
  ASSUME IInv, NEW c \in Clients, ReceiveSession(c) PROVE IInv'
<1> DEFINE number == Head(queue[c]).session
           place == IF number < 0 THEN "exit" ELSE "prompt"
<1>1. /\ client_pc[c] = "session" /\ queue[c] # <<>>
      /\ session_num' = [session_num EXCEPT ![c] = number]
      /\ client_pc' = [client_pc EXCEPT ![c] = place]
      /\ queue' = [queue EXCEPT ![c] = Tail(queue[c])]
      /\ UNCHANGED <<server_vars, server_queue, exists, lines, in_handler, lost>>
  BY DEF ReceiveSession
<1>2. /\ Head(queue[c]) \in Messages
      /\ queue' \in [Clients -> Seq(Messages)] /\ queue'[c] = <<>>
      /\ \A d \in Clients \ {c} : queue'[d] = queue[d]
      /\ ~Asked(c) /\ ~Handled(c) /\ Due(Head(queue[c]), c)
  BY <1>1, OneAnswer
<1>3. number \in -1..MAX_CLIENTS-1 /\ (number >= 0 => c \in registered)
  BY <1>2, MessageFields DEF Due
<1>4. /\ client_pc'[c] = place /\ place \in {"exit", "prompt"}
      /\ \A d \in Clients \ {c} : client_pc'[d] = client_pc[d]
      /\ client_pc' \in [Clients -> {"start", "prompt", "exit"} \cup Types \cup Waiting
                                    \cup Ended]
  BY <1>1 DEF IInv, TypeOK
<1>5. UNCHANGED <<active, clients_data, client_count, server_pc, msg, server_exists>>
  BY <1>1 DEF server_vars
<1>6. session_num' \in [Clients -> -2..MAX_CLIENTS-1]
  <2>1. number \in -2..MAX_CLIENTS-1
    BY <1>3, Constants
  <2> HIDE DEF number
  <2> QED BY <1>1, <2>1 DEF IInv, TypeOK
<1>7. TypeOK'
  BY <1>1, <1>2, <1>4, <1>5, <1>6 DEF IInv, TypeOK
<1>8. Silent(c)' /\ registered' = registered
  BY <1>1, <1>2, <1>5 DEF Silent, Asked, Handled, registered
<1>9. c \notin in_handler /\ c \in exists /\ (place = "prompt" => c \in registered)
  <2>1. place = "prompt" => number >= 0
    BY <1>3
  <2> QED BY <1>1, <1>3, <2>1 DEF IInv, ClientsInv, PlaceInv, Waiting, Ended
<1>10. PlaceInv(c)' /\ WaitInv(c)'
  BY <1>1, <1>4, <1>8, <1>9 DEF PlaceInv, WaitInv, Asking, Waiting, Ended
<1>11. server_pc # "start"
  BY <1>1 DEF IInv, ServerInv
<1> QED BY <1>1, <1>2, <1>4, <1>7, <1>10, <1>11, QueueShrinks

LEMMA ReceiveAnswerPreserves ==
  ASSUME IInv, NEW c \in Clients, ReceiveAnswer(c) PROVE IInv'
<1>1. /\ client_pc[c] \in {"mirrored", "told"} /\ queue[c] # <<>>
      /\ client_pc' = [client_pc EXCEPT ![c] = "prompt"]
      /\ queue' = [queue EXCEPT ![c] = Tail(queue[c])]
      /\ UNCHANGED <<server_vars, server_queue, session_num, exists, lines, in_handler, lost>>
  BY DEF ReceiveAnswer
<1>2. /\ queue' \in [Clients -> Seq(Messages)] /\ queue'[c] = <<>>
      /\ \A d \in Clients \ {c} : queue'[d] = queue[d]
      /\ ~Asked(c) /\ ~Handled(c)
  BY <1>1, OneAnswer
<1>3. /\ client_pc'[c] = "prompt"
      /\ \A d \in Clients \ {c} : client_pc'[d] = client_pc[d]
      /\ client_pc' \in [Clients -> {"start", "prompt", "exit"} \cup Types \cup Waiting
                                    \cup Ended]
  BY <1>1 DEF IInv, TypeOK
<1>4. UNCHANGED <<active, clients_data, client_count, server_pc, msg, server_exists>>
  BY <1>1 DEF server_vars
<1>5. TypeOK'
  BY <1>1, <1>2, <1>3, <1>4 DEF IInv, TypeOK
<1>6. Silent(c)' /\ registered' = registered
  BY <1>1, <1>2, <1>4 DEF Silent, Asked, Handled, registered
<1>7. c \notin in_handler /\ c \in exists /\ c \in registered
  BY <1>1 DEF IInv, ClientsInv, PlaceInv, Waiting, Ended
<1>8. PlaceInv(c)' /\ WaitInv(c)'
  BY <1>1, <1>3, <1>6, <1>7 DEF PlaceInv, WaitInv, Asking, Waiting, Ended
<1>9. server_pc # "start"
  BY <1>1 DEF IInv, ServerInv
<1> QED BY <1>1, <1>2, <1>3, <1>5, <1>8, <1>9, QueueShrinks

LEMMA ClientClosePreserves ==
  ASSUME IInv, NEW c \in Clients, client_close_queue(c) PROVE IInv'
<1>1. /\ client_pc[c] = "exit" /\ exists' = exists \ {c}
      /\ queue' = [queue EXCEPT ![c] = <<>>]
      /\ client_pc' = [client_pc EXCEPT ![c] = "gone"]
      /\ UNCHANGED <<server_vars, server_queue, session_num, lines, in_handler, lost>>
  BY DEF client_close_queue
<1>2. /\ queue' \in [Clients -> Seq(Messages)] /\ queue'[c] = <<>>
      /\ \A d \in Clients \ {c} : queue'[d] = queue[d]
  BY <1>1 DEF IInv, TypeOK
<1>3. /\ client_pc'[c] = "gone"
      /\ \A d \in Clients \ {c} : client_pc'[d] = client_pc[d]
      /\ client_pc' \in [Clients -> {"start", "prompt", "exit"} \cup Types \cup Waiting
                                    \cup Ended]
  BY <1>1 DEF IInv, TypeOK, Ended
<1>4. UNCHANGED <<active, clients_data, client_count, server_pc, msg, server_exists>>
  BY <1>1 DEF server_vars
<1>5. TypeOK'
  BY <1>1, <1>2, <1>3, <1>4 DEF IInv, TypeOK
<1>6. Silent(c) => Silent(c)'
  BY <1>1, <1>2, <1>4 DEF Silent, Asked, Handled
<1>7. PlaceInv(c)' /\ WaitInv(c)'
  BY <1>1, <1>3, <1>6 DEF IInv, ClientsInv, PlaceInv, WaitInv, Asking, Waiting, Ended
<1>8. server_pc # "start"
  BY <1>1 DEF IInv, ServerInv
<1> QED BY <1>1, <1>2, <1>3, <1>5, <1>7, <1>8, QueueShrinks

(* The server's steps ask nothing and give clients nothing but answers. *)
LEMMA ClientsStay ==
  ASSUME IInv, UNCHANGED <<client_vars, queue, exists, in_handler>>,
         registered' = registered,
         \A c \in Clients : Asked(c)' \/ Handled(c)' => Asked(c) \/ Handled(c)
  PROVE  \A c \in Clients : PlaceInv(c)'
<1>1. UNCHANGED client_pc
  BY DEF client_vars
<1> QED BY <1>1 DEF IInv, ClientsInv, PlaceInv, Silent

LEMMA StartPreserves == ASSUME IInv, Start PROVE IInv'
<1>1. /\ server_pc = "start" /\ server_pc' = "loop" /\ server_exists' = TRUE
      /\ UNCHANGED <<active, clients_data, client_count, msg, server_queue, client_vars,
                     queue, exists, in_handler, lost>>
  BY DEF Start
<1>2. UNCHANGED <<client_pc, session_num, lines>>
  BY <1>1 DEF client_vars
<1>3. TypeOK'
  BY <1>1, <1>2 DEF IInv, TypeOK
<1>4. registered' = registered
  BY <1>1 DEF registered
<1>5. ServerInv' /\ TableInv'
  BY <1>1, <1>2 DEF IInv, ServerInv, TableInv, ErrorExitsExplained, Closed, Ended
<1>6. \A c \in Clients : (Asked(c)' <=> Asked(c)) /\ ~Handled(c)' /\ ~Handled(c)
  BY <1>1 DEF Asked, Handled
<1>7. OneQuestion' /\ RequestsInv' /\ AnswersInv'
  BY <1>1, <1>4, <1>6 DEF IInv, OneQuestion, RequestsInv, Expected, AnswersInv, Due
<1>8. \A c \in Clients : PlaceInv(c)'
  BY <1>1, <1>4, <1>6, ClientsStay
<1>9. \A c \in Clients : WaitInv(c)'
  BY <1>1, <1>2 DEF IInv, ServerInv, WaitInv, Waiting
<1> QED BY <1>3, <1>5, <1>7, <1>8, <1>9 DEF IInv, ClientsInv

LEMMA ReceivePreserves == ASSUME IInv, Receive PROVE IInv'
<1> DEFINE n == Len(server_queue)  k == Len(server_queue')
<1>1. /\ server_pc = "loop" /\ server_queue # <<>> /\ server_pc' = "handle"
      /\ msg' = Head(server_queue) /\ server_queue' = Tail(server_queue)
      /\ UNCHANGED <<active, clients_data, client_count, server_exists, client_vars,
                     queue, exists, in_handler, lost>>
  BY DEF Receive
<1>2. UNCHANGED <<client_pc, session_num, lines>> /\ msg = NoMessage
  BY <1>1 DEF IInv, ServerInv, client_vars
<1>3. /\ server_queue' \in Seq(Messages) /\ k = n - 1 /\ n \in Nat \ {0}
      /\ msg' = server_queue[1] /\ 1 \in 1..n /\ msg' \in Messages
      /\ \A i \in 1..k : i + 1 \in 1..n /\ server_queue'[i] = server_queue[i+1]
      /\ \A i \in 1..n : i # 1 => i - 1 \in 1..k /\ server_queue'[i-1] = server_queue[i]
  BY <1>1, Typed, Removed
<1>4. TypeOK'
  BY <1>1, <1>2, <1>3 DEF IInv, TypeOK
<1>5. registered' = registered
  BY <1>1 DEF registered
<1>6. ServerInv' /\ TableInv'
  BY <1>1, <1>2, <1>3 DEF IInv, ServerInv, TableInv, ErrorExitsExplained, Closed, Ended
<1>7. ASSUME NEW c \in Clients
      PROVE  /\ ~Handled(c) /\ (Handled(c)' <=> Question(msg', c))
             /\ Asked(c) <=> Asked(c)' \/ Question(msg', c)
  <2>1. ~Handled(c) /\ (Handled(c)' <=> Question(msg', c))
    BY <1>1 DEF Handled, Question
  <2>2. ASSUME NEW i \in 1..n, Question(server_queue[i], c) PROVE Asked(c)' \/ Question(msg', c)
    BY <1>3, <2>2 DEF Asked, Question
  <2>3. ASSUME NEW i \in 1..k, Question(server_queue'[i], c) PROVE Asked(c)
    BY <1>3, <2>3 DEF Asked, Question
  <2>4. Asked(c)' => Asked(c)
    BY <2>3 DEF Asked, Question
  <2>5. Question(msg', c) => Asked(c)
    BY <1>3 DEF Asked, Question
  <2> QED BY <2>1, <2>2, <2>4, <2>5 DEF Asked
<1>8. OneQuestion'
  <2> SUFFICES ASSUME NEW c \in Clients
               PROVE  /\ \A i, j \in 1..k : Question(server_queue'[i], c)
                           /\ Question(server_queue'[j], c) => i = j
                      /\ Asked(c)' => ~Handled(c)' /\ queue[c] = <<>>
                      /\ Handled(c)' => queue[c] = <<>>
                      /\ Len(queue[c]) <= 1
    BY <1>1 DEF OneQuestion, Question
  <2>1. /\ \A i, j \in 1..n : Question(server_queue[i], c) /\ Question(server_queue[j], c) => i = j
        /\ Asked(c) => queue[c] = <<>>
        /\ Len(queue[c]) <= 1
    BY DEF IInv, OneQuestion
  <2>2. ASSUME NEW i \in 1..k, NEW j \in 1..k,
               Question(server_queue'[i], c), Question(server_queue'[j], c)
        PROVE  i = j
    <3>1. i + 1 = j + 1
      BY <1>3, <2>1, <2>2
    <3> QED BY <3>1
  <2>3. ASSUME Question(msg', c) PROVE ~Asked(c)'
    <3>1. ASSUME NEW i \in 1..k, Question(server_queue'[i], c) PROVE FALSE
      <4>1. i + 1 = 1
        BY <1>3, <2>1, <2>3, <3>1
      <4> QED BY <4>1
    <3> QED BY <3>1 DEF Asked, Question
  <2> QED BY <1>7, <2>1, <2>2, <2>3
<1>9. RequestsInv'
  <2>1. \A i \in 1..n : Expected(server_queue[i])
    BY DEF IInv, RequestsInv
  <2>2. Expected(msg') /\ \A i \in 1..k : Expected(server_queue'[i])
    BY <1>3, <2>1
  <2> QED BY <1>5, <2>2 DEF RequestsInv, Expected
<1>10. AnswersInv'
  BY <1>1, <1>5 DEF IInv, AnswersInv, Due
<1>11. \A c \in Clients : PlaceInv(c)'
  BY <1>1, <1>5, <1>7, ClientsStay
<1>12. \A c \in Clients : WaitInv(c)'
  <2> SUFFICES ASSUME NEW c \in Clients, client_pc[c] \in Waiting, queue[c] = <<>>
               PROVE  Asked(c)' \/ Question(msg', c)
    BY <1>1, <1>2 DEF WaitInv, Question
  <2>1. Asked(c) \/ Question(msg, c)
    BY <1>1 DEF IInv, ClientsInv, WaitInv
  <2>2. ~Question(msg, c)
    BY <1>2, MessageFields DEF Question, RequestTypes
  <2> QED BY <1>7, <2>1, <2>2
<1> QED BY <1>4, <1>6, <1>8, <1>9, <1>10, <1>11, <1>12 DEF IInv, ClientsInv

(* The server keeps its message, or has none, and goes to its exit         *)
(* handler.                                                                *)
LEMMA ServerCloses ==
  ASSUME IInv, server_pc # "start",
         server_pc' \in {"closing", "cut"}, server_pc # "gone",
         UNCHANGED <<active, clients_data, client_count, msg, server_exists, server_queue,
                     client_vars, queue, exists, lost>>,
         in_handler' = in_handler \/ in_handler' = in_handler \cup {Server},
         ErrorExitsExplained'
  PROVE  IInv'
<1>1. UNCHANGED <<client_pc, session_num, lines>>
  BY DEF client_vars
<1>2. \A c \in Clients : c \in in_handler' <=> c \in in_handler
  BY Constants
<1>3. TypeOK'
  BY <1>1 DEF IInv, TypeOK, Ended
<1>4. registered' = registered
  BY DEF registered
<1>5. ServerInv' /\ TableInv'
  BY <1>1 DEF IInv, ServerInv, TableInv
<1>6. \A c \in Clients : (Asked(c)' <=> Asked(c)) /\ ~Handled(c)'
  BY DEF Asked, Handled
<1>7. OneQuestion' /\ RequestsInv' /\ AnswersInv'
  BY <1>4, <1>6 DEF IInv, OneQuestion, RequestsInv, Expected, AnswersInv, Due
<1>8. ASSUME NEW c \in Clients PROVE PlaceInv(c)' /\ WaitInv(c)'
  <2>1. PlaceInv(c) /\ WaitInv(c)
    BY DEF IInv, ClientsInv
  <2>2. Silent(c) => Silent(c)'
    BY <1>6 DEF Silent
  <2>3. PlaceInv(c)'
    BY <1>1, <1>2, <1>4, <2>1, <2>2, PlaceKept
  <2>4. WaitInv(c)'
    BY <1>1, <1>6, <2>1 DEF WaitInv
  <2> QED BY <2>3, <2>4
<1> QED BY <1>3, <1>5, <1>7, <1>8 DEF IInv, ClientsInv

LEMMA DrainedPreserves == ASSUME IInv, Drained PROVE IInv'
<1>1. /\ server_pc = "loop" /\ active = 0 /\ server_pc' = "closing"
      /\ UNCHANGED <<active, clients_data, client_count, msg, server_exists, server_queue,
                     client_vars, queue, exists, in_handler, lost>>
  BY DEF Drained
<1>2. ErrorExitsExplained'
  BY <1>1 DEF IInv, ServerInv, ErrorExitsExplained
<1> QED BY <1>1, <1>2, ServerCloses

LEMMA ServerSigintPreserves == ASSUME IInv, server_sigint_handler PROVE IInv'
<1>1. /\ server_pc \notin Ended /\ Server \notin in_handler
      /\ server_pc' = CASE server_pc = "start" -> "gone" [] server_pc = "closing" -> "cut"
                        [] OTHER -> "closing"
      /\ in_handler' = in_handler \cup {Server}
      /\ UNCHANGED <<active, clients_data, client_count, msg, server_exists, server_queue,
                     client_vars, queue, exists, lost>>
  BY DEF server_sigint_handler
<1>2. ErrorExitsExplained'
  BY <1>1 DEF ErrorExitsExplained
<1>3. CASE server_pc # "start"
  <2>1. server_pc' \in {"closing", "cut"} /\ server_pc # "gone"
    BY <1>1, <1>3 DEF Ended
  <2> QED BY <1>1, <1>2, <1>3, <2>1, ServerCloses
<1>4. CASE server_pc = "start"
  <2>1. server_pc' = "gone"
    BY <1>1, <1>4
  <2>2. UNCHANGED <<client_pc, session_num, lines>>
    BY <1>1 DEF client_vars
  <2>3. \A c \in Clients : c \in in_handler' <=> c \in in_handler
    BY <1>1, Constants
  <2>4. TypeOK'
    BY <1>1, <2>1, <2>2 DEF IInv, TypeOK, Ended
  <2>5. registered' = registered
    BY <1>1 DEF registered
  <2>6. ServerInv' /\ TableInv'
    BY <1>1, <1>2, <1>4, <2>1 DEF IInv, ServerInv, TableInv
  <2>7. \A c \in Clients : (Asked(c)' <=> Asked(c)) /\ ~Handled(c)'
    BY <1>1, <2>1 DEF Asked, Handled
  <2>8. OneQuestion' /\ RequestsInv' /\ AnswersInv'
    BY <1>1, <2>1, <2>5, <2>7 DEF IInv, OneQuestion, RequestsInv, Expected, AnswersInv, Due
  <2>9. ASSUME NEW c \in Clients PROVE PlaceInv(c)' /\ WaitInv(c)'
    <3>1. PlaceInv(c)
      BY DEF IInv, ClientsInv
    <3>2. Silent(c) => Silent(c)'
      BY <1>1, <2>7 DEF Silent
    <3>3. PlaceInv(c)'
      BY <1>1, <2>2, <2>3, <2>5, <3>1, <3>2, PlaceKept
    <3>4. client_pc'[c] \notin Waiting
      BY <1>4, <2>2 DEF IInv, ServerInv, Waiting
    <3> QED BY <3>3, <3>4 DEF WaitInv
  <2> QED BY <2>4, <2>6, <2>8, <2>9 DEF IInv, ClientsInv
<1> QED BY <1>3, <1>4

LEMMA CloseQueuePreserves == ASSUME IInv, CloseQueue PROVE IInv'
<1>1. /\ server_pc = "closing" /\ server_exists' = FALSE /\ lost' = senders
      /\ server_queue' = <<>> /\ server_pc' = "gone"
      /\ UNCHANGED <<active, clients_data, client_count, msg, client_vars, queue, exists,
                     in_handler>>
  BY DEF CloseQueue
<1>2. UNCHANGED <<client_pc, session_num, lines>>
  BY <1>1 DEF client_vars
<1>3. senders \in SUBSET Clients
  BY Typed, MessageFields DEF senders
<1>4. TypeOK'
  <2>1. server_queue' \in Seq(Messages)
    BY <1>1
  <2> QED BY <1>1, <1>2, <1>3, <2>1 DEF IInv, TypeOK, Ended
<1>5. registered' = registered
  BY <1>1 DEF registered
<1>6. ErrorExitsExplained'
  BY <1>1 DEF IInv, ServerInv, ErrorExitsExplained, Closed, Ended
<1>7. ServerInv' /\ TableInv'
  BY <1>1, <1>6 DEF IInv, ServerInv, TableInv
<1>8. Len(server_queue') = 0 /\ \A c \in Clients : ~Asked(c)' /\ ~Handled(c)'
  BY <1>1 DEF Asked, Handled
<1>9. OneQuestion'
  BY <1>1, <1>8 DEF IInv, OneQuestion
<1>10. RequestsInv' /\ AnswersInv'
  BY <1>1, <1>5, <1>8 DEF IInv, RequestsInv, AnswersInv, Due
<1>11. \A c \in Clients : PlaceInv(c)'
  BY <1>1, <1>5, <1>8, ClientsStay
<1>12. ASSUME NEW c \in Clients, client_pc[c] \in Waiting, queue[c] = <<>>
       PROVE  c \in senders \/ (Server \in in_handler /\ msg.sender = c)
  <2>1. Asked(c) \/ Question(msg, c)
    BY <1>1, <1>12 DEF IInv, ClientsInv, WaitInv
  <2>2. CASE Asked(c)
    BY <2>2 DEF Asked, Question, senders
  <2>3. CASE Question(msg, c)
    <3>1. msg # NoMessage /\ msg.sender = c
      BY <2>3, MessageFields DEF Question, RequestTypes
    <3>2. c \notin in_handler
      BY <1>12 DEF IInv, ClientsInv, PlaceInv, Waiting, Ended
    <3> QED BY <1>1, <3>1, <3>2 DEF IInv, ServerInv, ErrorExitsExplained, Closed
  <2> QED BY <2>1, <2>2, <2>3
<1>13. \A c \in Clients : WaitInv(c)'
  BY <1>1, <1>2, <1>12 DEF WaitInv
<1> QED BY <1>4, <1>7, <1>9, <1>10, <1>11, <1>13 DEF IInv, ClientsInv

(* The client whose request the server holds. *)
LEMMA Asker ==
  ASSUME IInv, server_pc \in {"handle", "reply"}, msg.type \in RequestTypes
  PROVE  /\ msg \in Messages /\ msg.sender \in Clients
         /\ Handled(msg.sender) /\ ~Asked(msg.sender) /\ queue[msg.sender] = <<>>
         /\ client_pc[msg.sender] \in Waiting \cup {"exit"} \cup Ended
         /\ msg.sender \notin exists => msg.sender \in in_handler
<1>1. msg \in Messages /\ msg.sender \in Clients
  BY MessageFields DEF IInv, ServerInv
<1>2. Handled(msg.sender)
  BY DEF Handled, Question
<1>3. ~Asked(msg.sender) /\ queue[msg.sender] = <<>>
  BY <1>1, <1>2 DEF IInv, OneQuestion
<1>4. PlaceInv(msg.sender) /\ ~Silent(msg.sender)
  BY <1>1, <1>2 DEF IInv, ClientsInv, Silent
<1> QED BY <1>1, <1>2, <1>3, <1>4 DEF PlaceInv

(* A handler has its answer ready. *)
LEMMA AnswerReady ==
  ASSUME IInv, server_pc = "handle", server_pc' = "reply", msg.type \in RequestTypes,
         msg' \in Messages, msg'.type = msg.type, msg'.sender = msg.sender,
         UNCHANGED <<active, server_exists, server_queue, client_vars, queue, exists,
                     in_handler, lost>>,
         clients_data' \in [Places -> Clients \cup {NoClient}],
         client_count' \in 0..MAX_CLIENTS, TableInv',
         registered \subseteq registered',
         registered' \subseteq registered \cup {msg.sender},
         msg'.type # "REGISTER" \/ msg'.session >= 0 => msg'.sender \in registered'
  PROVE  IInv'
<1>1. UNCHANGED <<client_pc, session_num, lines>>
  BY DEF client_vars
<1>2. TypeOK'
  BY <1>1 DEF IInv, TypeOK
<1>3. ServerInv'
  BY <1>1 DEF IInv, ServerInv, ErrorExitsExplained, Closed, Ended
<1>4. ASSUME NEW c \in Clients
      PROVE  /\ Asked(c)' <=> Asked(c)
             /\ Handled(c)' <=> Handled(c)
             /\ Question(msg', c) <=> Question(msg, c)
  BY DEF Asked, Handled, Question
<1>5. OneQuestion'
  BY <1>4 DEF IInv, OneQuestion
<1>6. /\ msg.sender \in Clients /\ ~Asked(msg.sender)
      /\ client_pc[msg.sender] \in Waiting \cup {"exit"} \cup Ended
  BY Asker
<1>7. RequestsInv'
  <2> SUFFICES ASSUME NEW i \in 1..Len(server_queue)
               PROVE  /\ server_queue[i].type = "REGISTER" =>
                           server_queue[i].sender \notin registered'
                      /\ server_queue[i].type \in {"MIRROR", "TIME"} =>
                           server_queue[i].sender \in registered'
    BY DEF RequestsInv, Expected
  <2>1. Expected(server_queue[i])
    BY DEF IInv, RequestsInv
  <2>2. server_queue[i].type = "REGISTER" => server_queue[i].sender # msg.sender
    BY <1>6 DEF Asked, Question, RequestTypes
  <2> QED BY <2>1, <2>2 DEF Expected
<1>8. AnswersInv'
  BY DEF IInv, AnswersInv, Due
<1>9. ASSUME NEW c \in Clients PROVE PlaceInv(c)' /\ WaitInv(c)'
  <2>1. PlaceInv(c) /\ WaitInv(c)
    BY DEF IInv, ClientsInv
  <2>2. Silent(c)' <=> Silent(c)
    BY <1>4 DEF Silent
  <2>3. ASSUME c = msg.sender PROVE PlaceInv(c)'
    BY <1>1, <1>6, <2>1, <2>2, <2>3 DEF PlaceInv, Waiting, Ended
  <2>4. ASSUME c # msg.sender PROVE PlaceInv(c)'
    <3>1. c \in registered' <=> c \in registered
      BY <2>4
    <3> QED BY <1>1, <2>1, <2>2, <3>1, PlaceKept
  <2>5. WaitInv(c)'
    BY <1>1, <1>4, <2>1 DEF WaitInv, Question
  <2> QED BY <2>3, <2>4, <2>5
<1> QED BY <1>2, <1>3, <1>5, <1>7, <1>8, <1>9 DEF IInv, ClientsInv

(* A new entry of the table. *)
LEMMA Admitted ==
  ASSUME IInv, NEW c \in Clients, c \notin registered, ~table_full,
         clients_data' = [clients_data EXCEPT ![client_count] = c],
         client_count' = client_count + 1
  PROVE  /\ clients_data' \in [Places -> Clients \cup {NoClient}]
         /\ client_count' \in 0..MAX_CLIENTS /\ client_count \in 0..MAX_CLIENTS-1
         /\ TableInv'
         /\ registered' = registered \cup {c}
<1>1. /\ client_count \in Places /\ client_count \in 0..MAX_CLIENTS-1
      /\ client_count + 1 \in 0..MAX_CLIENTS
  BY Typed, Constants DEF table_full, Places
<1>2. /\ clients_data' \in [Places -> Clients \cup {NoClient}]
      /\ clients_data'[client_count] = c
      /\ \A i \in Places : i # client_count => clients_data'[i] = clients_data[i]
  BY <1>1 DEF IInv, TypeOK
<1>3. clients_data[client_count] = NoClient
  BY <1>1 DEF IInv, TableInv
<1>4. registered' = registered \cup {c}
  BY <1>1, <1>2, <1>3, Constants DEF registered
<1>5. ASSUME NEW i \in Places
      PROVE  IF i < client_count' THEN clients_data'[i] \in Clients
                                  ELSE clients_data'[i] = NoClient
  <2>1. IF i < client_count THEN clients_data[i] \in Clients ELSE clients_data[i] = NoClient
    BY DEF IInv, TableInv
  <2>2. i \in Int /\ client_count \in Int
    BY <1>1 DEF Places
  <2>3. CASE i = client_count
    BY <1>2, <2>2, <2>3
  <2>4. CASE i # client_count
    <3>1. i < client_count' <=> i < client_count
      BY <2>2, <2>4
    <3> QED BY <1>2, <2>1, <2>4, <3>1
  <2> QED BY <2>3, <2>4
<1>6. ASSUME NEW i \in 0..client_count'-1, NEW j \in 0..client_count'-1,
             clients_data'[i] = clients_data'[j]
      PROVE  i = j
  <2>1. \A k \in 0..client_count'-1 : k \in Places /\ (k = client_count \/ k \in 0..client_count-1)
    BY <1>1, Constants DEF Places
  <2>2. \A k \in 0..client_count-1 : k \in Places /\ clients_data[k] # c /\ k # client_count
    BY <1>1, Constants, Typed DEF registered
  <2>3. \A k, l \in 0..client_count-1 : clients_data[k] = clients_data[l] => k = l
    BY DEF IInv, TableInv
  <2> QED BY <1>2, <1>6, <2>1, <2>2, <2>3
<1>7. TableInv'
  BY <1>5, <1>6 DEF TableInv, Places
<1> QED BY <1>1, <1>2, <1>4, <1>7

LEMMA RegisterPreserves ==
  ASSUME IInv, dispatch_requests, handle_register PROVE IInv'
<1>1. /\ server_pc = "handle" /\ msg.type = "REGISTER"
      /\ UNCHANGED <<active, server_exists, server_queue, client_vars, queue, exists,
                     in_handler, lost>>
  BY DEF dispatch_requests, handle_register
<1> DEFINE s == msg.sender
<1>2. msg.type \in RequestTypes
  BY <1>1 DEF RequestTypes
<1>3. msg \in Messages /\ s \in Clients /\ (s \notin exists => s \in in_handler)
  BY <1>1, <1>2, Asker
<1>4. s \notin registered
  BY <1>1 DEF IInv, RequestsInv, Expected
<1>5. CASE s \notin exists
  <2>1. server_pc' = "closing" /\ UNCHANGED <<clients_data, client_count, msg>>
    BY <1>5 DEF handle_register
  <2>2. msg # NoMessage
    BY <1>3, MessageFields
  <2>3. ErrorExitsExplained'
    BY <1>1, <1>3, <1>5, <2>1, <2>2, MessageFields DEF ErrorExitsExplained, NoMessage, Message
  <2> QED BY <1>1, <2>1, <2>3, ServerCloses
<1>6. CASE s \in exists /\ table_full
  <2>1. /\ server_pc' = "reply" /\ msg' = Message("REGISTER", s, -1)
        /\ UNCHANGED <<clients_data, client_count>>
    BY <1>6 DEF handle_register
  <2>2. "REGISTER" \in Types /\ -1 \in -1..MAX_CLIENTS-1
    BY Constants DEF Types, RequestTypes
  <2>3. msg' \in Messages /\ msg'.type = "REGISTER" /\ msg'.sender = s /\ msg'.session = -1
    BY <1>3, <2>1, <2>2, MessageFields
  <2>4. registered' = registered /\ TableInv'
    BY <2>1 DEF registered, IInv, TableInv
  <2>5. /\ clients_data' \in [Places -> Clients \cup {NoClient}]
        /\ client_count' \in 0..MAX_CLIENTS
    BY <2>1 DEF IInv, TypeOK
  <2>6. ~(msg'.type # "REGISTER" \/ msg'.session >= 0)
    BY <2>3
  <2> QED BY <1>1, <1>2, <2>1, <2>3, <2>4, <2>5, <2>6, AnswerReady
<1>7. CASE s \in exists /\ ~table_full
  <2>1. /\ server_pc' = "reply" /\ msg' = Message("REGISTER", s, client_count)
        /\ clients_data' = [clients_data EXCEPT ![client_count] = s]
        /\ client_count' = client_count + 1
    BY <1>7 DEF handle_register
  <2>2. /\ clients_data' \in [Places -> Clients \cup {NoClient}]
        /\ client_count' \in 0..MAX_CLIENTS /\ client_count \in 0..MAX_CLIENTS-1
        /\ TableInv'
        /\ registered' = registered \cup {s}
    BY <1>3, <1>4, <1>7, <2>1, Admitted
  <2>3. "REGISTER" \in Types /\ client_count \in -1..MAX_CLIENTS-1
    BY <2>2, Constants DEF Types, RequestTypes
  <2>4. msg' \in Messages /\ msg'.type = "REGISTER" /\ msg'.sender = s
    BY <1>3, <2>1, <2>3, MessageFields
  <2> QED BY <1>1, <1>2, <2>1, <2>2, <2>4, AnswerReady
<1> QED BY <1>5, <1>6, <1>7

LEMMA QuestionPreserves ==
  ASSUME IInv, dispatch_requests, handle_question PROVE IInv'
<1>1. /\ server_pc = "handle" /\ msg.type \in {"MIRROR", "TIME"}
      /\ UNCHANGED <<active, clients_data, client_count, server_exists, server_queue,
                     client_vars, queue, exists, in_handler, lost>>
  BY DEF dispatch_requests, handle_question
<1>2. msg.type \in RequestTypes
  BY <1>1 DEF RequestTypes
<1>3. msg \in Messages /\ msg.sender \in registered
  BY <1>1, <1>2, Asker DEF IInv, RequestsInv, Expected
<1>4. server_pc' = "reply" /\ msg' = msg
  BY <1>3 DEF handle_question
<1>5. registered' = registered /\ TableInv'
  BY <1>1 DEF registered, IInv, TableInv
<1>6. /\ clients_data' \in [Places -> Clients \cup {NoClient}]
      /\ client_count' \in 0..MAX_CLIENTS
  BY <1>1 DEF IInv, TypeOK
<1> QED BY <1>1, <1>2, <1>3, <1>4, <1>5, <1>6, AnswerReady

(* The server is back in its loop, with the question in its hands, if it   *)
(* had one, answered.                                                      *)
LEMMA BackToLoop ==
  ASSUME IInv, server_pc \in {"handle", "reply"}, back_to_loop, active' \in {0, 1},
         UNCHANGED <<clients_data, client_count, server_exists, server_queue, client_vars,
                     exists, in_handler, lost>>,
         queue' \in [Clients -> Seq(Messages)],
         \A c \in Clients :
           IF Handled(c) THEN /\ queue'[c] # <<>> /\ Len(queue'[c]) = 1
                              /\ Due(Head(queue'[c]), c)
                         ELSE queue'[c] = queue[c]
  PROVE  IInv'
<1>1. /\ server_pc' = "loop" /\ msg' = NoMessage
      /\ UNCHANGED <<client_pc, session_num, lines>>
  BY DEF back_to_loop, client_vars
<1>2. TypeOK'
  BY <1>1 DEF IInv, TypeOK
<1>3. registered' = registered
  BY DEF registered
<1>4. ServerInv' /\ TableInv'
  BY <1>1 DEF IInv, ServerInv, TableInv, ErrorExitsExplained, Closed, Ended
<1>5. ASSUME NEW c \in Clients PROVE (Asked(c)' <=> Asked(c)) /\ ~Handled(c)'
  BY <1>1 DEF Asked, Handled
<1>6. OneQuestion'
  <2> SUFFICES ASSUME NEW c \in Clients
               PROVE  /\ \A i, j \in 1..Len(server_queue) :
                           Question(server_queue[i], c) /\ Question(server_queue[j], c) => i = j
                      /\ Asked(c) => queue'[c] = <<>>
                      /\ Len(queue'[c]) <= 1
    BY <1>5 DEF OneQuestion, Question
  <2>1. /\ \A i, j \in 1..Len(server_queue) :
             Question(server_queue[i], c) /\ Question(server_queue[j], c) => i = j
        /\ Asked(c) => ~Handled(c) /\ queue[c] = <<>>
        /\ Len(queue[c]) <= 1
    BY DEF IInv, OneQuestion
  <2>2. Asked(c) => queue'[c] = <<>>
    BY <2>1
  <2>3. Len(queue'[c]) <= 1
    <3>1. CASE Handled(c)
      <4>1. Len(queue'[c]) = 1
        BY <3>1
      <4> QED BY <4>1
    <3>2. CASE ~Handled(c)
      BY <2>1, <3>2
    <3> QED BY <3>1, <3>2
  <2> QED BY <2>1, <2>2, <2>3
<1>7. RequestsInv'
  BY <1>1, <1>3 DEF IInv, RequestsInv, Expected
<1>8. AnswersInv'
  <2>1. \A c \in Clients : queue'[c] # <<>> => Due(Head(queue'[c]), c)
    BY DEF IInv, AnswersInv
  <2> QED BY <1>1, <1>3, <2>1 DEF AnswersInv, Due
<1>9. ASSUME NEW c \in Clients PROVE PlaceInv(c)' /\ WaitInv(c)'
  <2>1. PlaceInv(c) /\ WaitInv(c)
    BY DEF IInv, ClientsInv
  <2>2. Silent(c) => Silent(c)'
    BY <1>5 DEF Silent
  <2>3. PlaceInv(c)'
    BY <1>1, <1>3, <2>1, <2>2, PlaceKept
  <2>4. ASSUME client_pc[c] \in Waiting, queue'[c] = <<>> PROVE Asked(c)
    <3>1. ~Handled(c) /\ queue[c] = <<>>
      BY <2>4
    <3>2. ~Question(msg, c)
      BY <3>1 DEF Handled
    <3> QED BY <2>1, <2>4, <3>1, <3>2 DEF WaitInv
  <2>5. WaitInv(c)'
    BY <1>1, <1>5, <2>4 DEF WaitInv
  <2> QED BY <2>3, <2>5
<1> QED BY <1>2, <1>4, <1>6, <1>7, <1>8, <1>9 DEF IInv, ClientsInv

LEMMA EndPreserves ==
  ASSUME IInv, dispatch_requests, handle_end PROVE IInv'
<1>1. /\ server_pc = "handle" /\ msg.type = "END" /\ active' = 0 /\ back_to_loop
      /\ UNCHANGED <<clients_data, client_count, server_exists, server_queue,
                     client_vars, queue, exists, in_handler, lost>>
  BY DEF dispatch_requests, handle_end
<1>2. \A c \in Clients : ~Handled(c)
  BY <1>1 DEF Handled, Question, RequestTypes
<1>3. queue' \in [Clients -> Seq(Messages)] /\ active' \in {0, 1}
  BY <1>1 DEF IInv, TypeOK
<1> QED BY <1>1, <1>2, <1>3, BackToLoop

LEMMA ReplyPreserves == ASSUME IInv, Reply PROVE IInv'
<1> DEFINE s == msg.sender
<1>1. /\ server_pc = "reply"
      /\ UNCHANGED <<active, clients_data, client_count, server_exists, server_queue,
                     client_vars, exists, in_handler, lost>>
  BY DEF Reply
<1>2. msg.type \in RequestTypes /\ Due(msg, s)
  BY <1>1 DEF IInv, ServerInv, AnswersInv
<1>3. /\ msg \in Messages /\ s \in Clients /\ Handled(s) /\ queue[s] = <<>>
      /\ s \notin exists => s \in in_handler
  BY <1>1, <1>2, Asker
<1>4. CASE s \in exists
  <2>1. queue' = [queue EXCEPT ![s] = Append(queue[s], msg)] /\ back_to_loop
    BY <1>4 DEF Reply
  <2>2. Append(queue[s], msg) = <<msg>> /\ <<msg>> \in Seq(Messages)
    BY <1>3
  <2>3. /\ queue' \in [Clients -> Seq(Messages)] /\ queue'[s] = <<msg>>
        /\ \A c \in Clients \ {s} : queue'[c] = queue[c]
    BY <1>3, <2>1, <2>2 DEF IInv, TypeOK
  <2>4. \A c \in Clients : Handled(c) <=> c = s
    BY <1>3 DEF Handled, Question
  <2>5. queue'[s] # <<>> /\ Len(queue'[s]) = 1 /\ Head(queue'[s]) = msg
    BY <2>3
  <2>6. \A c \in Clients :
           IF Handled(c) THEN /\ queue'[c] # <<>> /\ Len(queue'[c]) = 1
                              /\ Due(Head(queue'[c]), c)
                         ELSE queue'[c] = queue[c]
    BY <1>2, <2>3, <2>4, <2>5
  <2>7. active' \in {0, 1}
    BY <1>1 DEF IInv, TypeOK
  <2> QED BY <1>1, <2>1, <2>3, <2>6, <2>7, BackToLoop
<1>5. CASE s \notin exists
  <2>1. server_pc' = "closing" /\ UNCHANGED <<queue, msg>>
    BY <1>5 DEF Reply
  <2>2. ErrorExitsExplained'
    BY <1>1, <1>3, <1>5, <2>1, MessageFields DEF ErrorExitsExplained, NoMessage, Message
  <2> QED BY <1>1, <2>1, <2>2, ServerCloses
<1> QED BY <1>4, <1>5

LEMMA StutterPreserves == ASSUME IInv, UNCHANGED vars PROVE IInv'
<1>1. UNCHANGED <<active, clients_data, client_count, server_pc, msg, server_exists,
                  server_queue, client_pc, session_num, lines, queue, exists, in_handler,
                  lost>>
  BY DEF vars, server_vars, client_vars
<1>2. registered' = registered
  BY <1>1 DEF registered
<1>3. TypeOK' /\ TableInv'
  BY <1>1 DEF IInv, TypeOK, TableInv
<1>4. ServerInv'
  BY <1>1 DEF IInv, ServerInv, ErrorExitsExplained, Closed
<1>5. \A c \in Clients : (Asked(c)' <=> Asked(c)) /\ (Handled(c)' <=> Handled(c))
  BY <1>1 DEF Asked, Handled
<1>6. OneQuestion' /\ RequestsInv' /\ AnswersInv'
  BY <1>1, <1>2, <1>5 DEF IInv, OneQuestion, RequestsInv, Expected, AnswersInv, Due
<1>7. ClientsInv'
  BY <1>1, <1>2, <1>5 DEF IInv, ClientsInv, PlaceInv, WaitInv, Silent
<1> QED BY <1>3, <1>4, <1>6, <1>7 DEF IInv

-------------------------------------------------------------------------------
LEMMA NextPreserves == IInv /\ [Next]_vars => IInv'
<1> SUFFICES ASSUME IInv, [Next]_vars PROVE IInv'
  OBVIOUS
<1>1. ASSUME NEW c \in Clients, Send(c) PROVE IInv'
  BY <1>1, SendPreserves, SendFailsPreserves
<1>2. ASSUME NEW c \in Clients, ClientStep(c) PROVE IInv'
  BY <1>1, <1>2, ReceiveSessionPreserves, ReceiveAnswerPreserves, ClientClosePreserves
     DEF ClientStep
<1>3. ASSUME NEW c \in Clients, Open(c) \/ ReadRequest(c) \/ client_sigint_handler(c)
      PROVE  IInv'
  BY <1>3, OpenPreserves, ReadRequestPreserves, ClientSigintPreserves
<1>4. CASE dispatch_requests
  BY <1>4, RegisterPreserves, QuestionPreserves, EndPreserves DEF dispatch_requests
<1>5. CASE ServerStep
  BY <1>4, <1>5, StartPreserves, ReceivePreserves, DrainedPreserves, ReplyPreserves,
     CloseQueuePreserves DEF ServerStep
<1>6. CASE server_sigint_handler
  BY <1>6, ServerSigintPreserves
<1>7. CASE UNCHANGED vars
  BY <1>7, StutterPreserves
<1> QED BY <1>2, <1>3, <1>5, <1>6, <1>7 DEF Next

(* The inductive invariant holds in every reachable state. *)
THEOREM Invariance == Spec => []IInv
BY InitEstablishes, NextPreserves, PTL DEF Spec

(* Every variable keeps its type. *)
THEOREM Typing == Spec => []TypeOK
<1>1. IInv => TypeOK
  BY DEF IInv
<1> QED BY <1>1, Invariance, PTL

(* The server is stopped by a client only if that client was interrupted   *)
(* while its request was on its way: the client of any other request still *)
(* has its queue, as it has not got its answer, so msgget in               *)
(* handle_register and msgsnd at the end of the handlers find it.          *)
THEOREM ErrorExits == Spec => []ErrorExitsExplained
<1>1. IInv => ErrorExitsExplained
  BY DEF IInv, ServerInv
<1> QED BY <1>1, Invariance, PTL

(* A client that waits for ever for an answer of a server that is gone had *)
(* its request in the queue that close_queue removed, or in the hands of a *)
(* server that was interrupted.                                            *)
THEOREM Orphans == Spec => []OrphansExplained
<1>1. IInv => OrphansExplained
  BY DEF IInv, ClientsInv, WaitInv, OrphansExplained
<1> QED BY <1>1, Invariance, PTL

-------------------------------------------------------------------------------
(* The refinement.  What the service shows of a client is one message: its *)
(* question is the unhandled one, its answer the one on its way to it.     *)

Unhandled(m) ==
  \/ \E i \in 1..Len(server_queue) : server_queue[i] = m
  \/ server_pc = "handle" /\ msg = m

Answered(m, c) ==
  \/ queue[c] # <<>> /\ Head(queue[c]) = m
  \/ server_pc = "reply" /\ msg = m /\ m.sender = c

ShownRight(c) ==
  /\ \A m \in Messages : Unhandled(m) /\ Question(m, c) => asks(c) = m.type
  /\ (\A m \in Messages : Unhandled(m) => ~Question(m, c)) => asks(c) = "none"
  /\ \A m \in Messages : Answered(m, c) =>
       /\ gets(c) = answered(m)
       /\ answered(m) # "none"
  /\ (\A m \in Messages : ~Answered(m, c)) => gets(c) = "none"

Shown == \A c \in Clients : ShownRight(c)

LEMMA QuestionsShown ==
  ASSUME IInv, NEW c \in Clients
  PROVE  /\ \A m \in Messages : Unhandled(m) /\ Question(m, c) => asks(c) = m.type
         /\ (\A m \in Messages : Unhandled(m) => ~Question(m, c)) => asks(c) = "none"
<1> DEFINE inQueue == pending(c)
<1>1. asks(c) = IF inQueue # {} THEN server_queue[CHOOSE i \in inQueue : TRUE].type
                ELSE IF in_hand(c, "handle") THEN msg.type ELSE "none"
  BY DEF asks
<1>2. \A i : i \in inQueue <=> i \in 1..Len(server_queue) /\ Question(server_queue[i], c)
  BY DEF pending, Question
<1>3. in_hand(c, "handle") <=> server_pc = "handle" /\ Question(msg, c)
  BY DEF in_hand, Question
<1>4. ASSUME NEW i \in inQueue PROVE asks(c) = server_queue[i].type
  <2>1. \A j \in inQueue : j = i
    BY <1>2, <1>4 DEF IInv, OneQuestion
  <2>2. (CHOOSE j \in inQueue : TRUE) = i
    BY <1>4, <2>1
  <2> QED BY <1>1, <1>4, <2>2
<1>5. ASSUME NEW m \in Messages, Unhandled(m), Question(m, c)
      PROVE  asks(c) = m.type
  <2>1. CASE \E i \in 1..Len(server_queue) : server_queue[i] = m
    BY <1>2, <1>4, <1>5, <2>1
  <2>2. CASE server_pc = "handle" /\ msg = m
    <3>1. ~Asked(c)
      BY <1>5, <2>2 DEF IInv, OneQuestion, Handled
    <3>2. inQueue = {}
      BY <1>2, <3>1 DEF Asked
    <3> QED BY <1>1, <1>3, <1>5, <2>2, <3>2
  <2> QED BY <1>5, <2>1, <2>2 DEF Unhandled
<1>6. ASSUME \A m \in Messages : Unhandled(m) => ~Question(m, c)
      PROVE  asks(c) = "none"
  <2>1. inQueue = {}
    BY <1>2, <1>6, Typed DEF Unhandled
  <2>2. ~in_hand(c, "handle")
    BY <1>3, <1>6 DEF Unhandled, IInv, ServerInv
  <2> QED BY <1>1, <2>1, <2>2
<1> QED BY <1>5, <1>6

LEMMA AnswersShown ==
  ASSUME IInv, NEW c \in Clients
  PROVE  /\ \A m \in Messages : Answered(m, c) =>
              /\ gets(c) = answered(m)
              /\ answered(m) # "none"
         /\ (\A m \in Messages : ~Answered(m, c)) => gets(c) = "none"
<1>1. gets(c) = IF queue[c] # <<>> THEN answered(Head(queue[c]))
                ELSE IF in_hand(c, "reply") THEN answered(msg) ELSE "none"
  BY DEF gets
<1>2. server_pc = "reply" => msg \in Messages /\ msg.type \in RequestTypes
  BY DEF IInv, ServerInv
<1>3. in_hand(c, "reply") <=> server_pc = "reply" /\ msg.sender = c
  BY <1>2 DEF in_hand
<1>4. ASSUME NEW m \in Messages, Answered(m, c)
      PROVE  /\ gets(c) = answered(m)
             /\ answered(m) # "none"
  <2>1. m.type \in Types
    BY MessageFields
  <2>2. answered(m) # "none"
    BY <2>1 DEF answered, Types, RequestTypes
  <2>3. CASE queue[c] # <<>> /\ Head(queue[c]) = m
    BY <1>1, <2>2, <2>3
  <2>4. CASE server_pc = "reply" /\ msg = m /\ m.sender = c
    <3>1. queue[c] = <<>>
      BY <1>2, <2>4 DEF IInv, OneQuestion, Handled, Question
    <3> QED BY <1>1, <1>3, <2>2, <2>4, <3>1
  <2> QED BY <1>4, <2>3, <2>4 DEF Answered
<1>5. ASSUME \A m \in Messages : ~Answered(m, c) PROVE gets(c) = "none"
  <2>1. queue[c] = <<>>
    <3>1. queue[c] # <<>> => Head(queue[c]) \in Messages
      BY Typed, Removed
    <3> QED BY <1>5, <3>1 DEF Answered
  <2>2. ~in_hand(c, "reply")
    BY <1>2, <1>3, <1>5 DEF Answered
  <2> QED BY <1>1, <2>1, <2>2
<1> QED BY <1>4, <1>5

LEMMA IsShown == IInv => Shown
BY QuestionsShown, AnswersShown DEF Shown, ShownRight

(* The clients in the table are as many as client_count says. *)
LEMMA TableCounted ==
  ASSUME IInv PROVE Service!Cardinality(registered) = client_count
<1> DEFINE n == client_count
           f == [i \in 1..n |-> clients_data[i-1]]
<1>1. n \in Nat
  BY Typed, Constants
<1>2. \A i \in 1..n : i-1 \in 0..n-1 /\ f[i] = clients_data[i-1]
  BY <1>1
<1>3. registered = {clients_data[i] : i \in 0..n-1}
  <2>1. \A i \in 0..n-1 : i \in Places /\ clients_data[i] \in registered
    BY Typed, Constants DEF registered
  <2>2. ASSUME NEW i \in Places, clients_data[i] # NoClient PROVE i \in 0..n-1
    <3>1. i < n
      BY <2>2 DEF IInv, TableInv
    <3> QED BY <1>1, <3>1 DEF Places
  <2> QED BY <2>1, <2>2 DEF registered
<1>4. f \in [1..n -> registered]
  BY <1>2, <1>3
<1>5. \A i, j \in 1..n : f[i] = f[j] => i = j
  <2> SUFFICES ASSUME NEW i \in 1..n, NEW j \in 1..n, f[i] = f[j] PROVE i = j
    OBVIOUS
  <2>1. i - 1 = j - 1
    BY <1>2 DEF IInv, TableInv
  <2> QED BY <1>1, <2>1
<1>6. \A c \in registered : \E i \in 1..n : f[i] = c
  <2> SUFFICES ASSUME NEW k \in 0..n-1 PROVE \E i \in 1..n : f[i] = clients_data[k]
    BY <1>3
  <2>1. k + 1 \in 1..n /\ (k + 1) - 1 = k
    BY <1>1
  <2> QED BY <1>2, <2>1
<1>7. f \in Bijection(1..n, registered)
  BY <1>4, <1>5, <1>6, Fun_IsBij
<1>8. ExistsBijection(1..n, registered)
  BY <1>7 DEF ExistsBijection
<1>9. Cardinality(registered) = client_count
  BY <1>1, <1>8, FS_CountingElements
<1> QED BY <1>9 DEF Cardinality, Service!Cardinality

(* What is shown changes only with the messages it stands for. *)
LEMMA AskKept ==
  ASSUME Shown, Shown', NEW c \in Clients,
         \A m \in Messages : Question(m, c) => (Unhandled(m)' <=> Unhandled(m))
  PROVE  asks(c)' = asks(c)
<1>1. /\ ShownRight(c)
      /\ \A m \in Messages : Unhandled(m)' /\ Question(m, c) => asks(c)' = m.type
      /\ (\A m \in Messages : Unhandled(m)' => ~Question(m, c)) => asks(c)' = "none"
  BY DEF Shown, ShownRight, Question
<1> QED BY <1>1 DEF ShownRight

LEMMA GetKept ==
  ASSUME Shown, Shown', NEW c \in Clients,
         \A m \in Messages : Answered(m, c)' <=> Answered(m, c)
  PROVE  gets(c)' = gets(c)
<1>1. /\ ShownRight(c)
      /\ \A m \in Messages : Answered(m, c)' => gets(c)' = answered(m)
      /\ (\A m \in Messages : ~Answered(m, c)') => gets(c)' = "none"
  BY DEF Shown, ShownRight, answered
<1> QED BY <1>1 DEF ShownRight

(* What the service sees of the state, and what it may do to it. *)
Asks == [c \in Clients |-> asks(c)]
Gets == [c \in Clients |-> gets(c)]
ServiceStep == Service!Next \/ UNCHANGED <<Closed, registered, Asks, Gets>>

LEMMA NothingShown ==
  ASSUME Closed' <=> Closed, registered' = registered,
         \A c \in Clients : asks(c)' = asks(c) /\ gets(c)' = gets(c)
  PROVE  ServiceStep
<1>1. Asks' = Asks
  BY DEF Asks
<1>2. Gets' = Gets
  BY DEF Gets
<1>3. Closed' = Closed
  BY DEF Closed
<1> QED BY <1>1, <1>2, <1>3 DEF ServiceStep

LEMMA QueuesKept ==
  ASSUME UNCHANGED <<server_pc, msg, server_queue, queue>>
  PROVE  \A c \in Clients : asks(c)' = asks(c) /\ gets(c)' = gets(c)
BY DEF asks, gets, pending, in_hand

(* Of a client of which nothing is under way nothing is shown. *)
LEMMA NothingUnderWay ==
  ASSUME IInv, Shown, NEW c \in Clients, Silent(c)
  PROVE  asks(c) = "none" /\ gets(c) = "none"
<1>1. \A m \in Messages : Unhandled(m) => ~Question(m, c)
  BY DEF Unhandled, Silent, Asked, Handled, Question
<1>2. \A m \in Messages : ~Answered(m, c)
  BY DEF Answered, Silent, Handled, Question, IInv, ServerInv
<1> QED BY <1>1, <1>2 DEF Shown, ShownRight

(* Sending a question is asking it. *)
LEMMA SendAsks ==
  ASSUME IInv, Shown, Shown', NEW c \in Clients, Send(c), server_exists
  PROVE  ServiceStep
<1>1. PICK type \in Types, m \in Messages :
        /\ client_pc[c] = type /\ m.type = type /\ m.sender = c
        /\ server_queue' = Append(server_queue, m)
        /\ UNCHANGED <<clients_data, client_count, server_pc, msg, queue>>
  <2>1. 0 \in -1..MAX_CLIENTS-1 /\ client_pc[c] \in Types
    BY Constants DEF Send
  <2>2. /\ Message(client_pc[c], c, 0) \in Messages
        /\ Message(client_pc[c], c, 0).type = client_pc[c]
        /\ Message(client_pc[c], c, 0).sender = c
    BY <2>1, MessageFields
  <2> QED BY <2>1, <2>2 DEF Send, server_vars
<1>2. \A k \in Messages : Unhandled(k)' <=> Unhandled(k) \/ k = m
  BY <1>1, Typed, Appended DEF Unhandled
<1>3. \A d \in Clients : gets(d)' = gets(d)
  BY <1>1 DEF gets, in_hand
<1>4. \A d \in Clients : Question(m, d) \/ asks(d)' = asks(d)
  BY <1>2, AskKept
<1>5. registered' = registered /\ (Closed' <=> Closed)
  BY <1>1 DEF registered, Closed
<1>6. CASE type \in RequestTypes
  <2>1. Silent(c) /\ (type # "REGISTER" => c \in registered)
    BY <1>1, <1>6 DEF IInv, ClientsInv, PlaceInv, RequestTypes, Asking, Waiting, Ended
  <2>2. asks(c) = "none" /\ gets(c) = "none"
    BY <2>1, NothingUnderWay
  <2>3. asks(c)' = type
    <3>1. Unhandled(m)' /\ Question(m, c)
      BY <1>1, <1>2, <1>6 DEF Question
    <3>2. Unhandled(m)' /\ Question(m, c) => asks(c)' = m.type
      BY DEF Shown, ShownRight, Question
    <3> QED BY <1>1, <3>1, <3>2
  <2>4. Asks' = [Asks EXCEPT ![c] = type]
    BY <1>1, <1>4, <2>3 DEF Asks, Question
  <2>5. Gets' = Gets
    BY <1>3 DEF Gets
  <2>6. Service!Ask(c, type)
    BY <1>5, <2>1, <2>2, <2>4, <2>5 DEF Service!Ask, Asks, Gets, Closed
  <2> QED BY <1>6, <2>6 DEF ServiceStep, Service!Next, Service!Questions, RequestTypes
<1>7. CASE type \notin RequestTypes
  <2>1. \A d \in Clients : ~Question(m, d)
    BY <1>1, <1>7 DEF Question
  <2> QED BY <1>3, <1>4, <1>5, <2>1, NothingShown
<1> QED BY <1>6, <1>7

(* Taking an answer from the queue, or removing the queue with the answer, *)
(* is receiving it.                                                        *)
LEMMA ReceiveReceives ==
  ASSUME IInv, Shown, Shown', NEW c \in Clients, queue[c] # <<>>, queue'[c] = <<>>,
         \A d \in Clients \ {c} : queue'[d] = queue[d],
         UNCHANGED <<clients_data, client_count, server_pc, msg, server_queue>>
  PROVE  ServiceStep
<1>1. ~Handled(c) /\ queue[c] \in Seq(Messages)
  BY Typed DEF IInv, OneQuestion
<1>2. gets(c) # "none"
  <2>1. Head(queue[c]) \in Messages
    BY <1>1, Removed
  <2>2. Answered(Head(queue[c]), c)
    BY DEF Answered
  <2> QED BY <2>1, <2>2 DEF Shown, ShownRight
<1>3. gets(c)' = "none"
  <2>1. \A m \in Messages : ~Answered(m, c)'
    BY <1>1 DEF Answered, Handled, Question, IInv, ServerInv
  <2>2. (\A m \in Messages : ~Answered(m, c)') => gets(c)' = "none"
    BY DEF Shown, ShownRight
  <2> QED BY <2>1, <2>2
<1>4. \A d \in Clients : asks(d)' = asks(d) /\ (d # c => gets(d)' = gets(d))
  BY DEF asks, gets, pending, in_hand
<1>5. Asks' = Asks
  BY <1>4 DEF Asks
<1>6. Gets' = [Gets EXCEPT ![c] = "none"]
  BY <1>3, <1>4 DEF Gets
<1>7. registered' = registered /\ (Closed' <=> Closed)
  BY DEF registered, Closed
<1>8. Service!Receive(c)
  BY <1>2, <1>5, <1>6, <1>7 DEF Service!Receive, Asks, Gets, Closed
<1> QED BY <1>8 DEF ServiceStep, Service!Next

(* When the server closes, the question or the answer in its hands is      *)
(* lost; when it removes the queue, the questions in it are.               *)
LEMMA ClosingCloses ==
  ASSUME IInv, Shown, Shown', server_pc' \in {"closing"} \cup Ended,
         UNCHANGED <<clients_data, client_count, queue>>,
         server_queue' = server_queue \/ server_queue' = <<>>
  PROVE  ServiceStep
<1> DEFINE dropped == {c \in Clients : Handled(c) \/ (Asked(c) /\ server_queue' = <<>>)}
<1>1. registered' = registered /\ Closed'
  BY DEF registered, Closed
<1>2. /\ server_pc' \notin {"handle", "reply"}
      /\ \A c \in Clients : ~Handled(c)'
  BY DEF Ended, Handled
<1>3. server_queue' = <<>> => \A i \in 1..Len(server_queue') : FALSE
  OBVIOUS
<1>4. ASSUME NEW c \in dropped PROVE asks(c)' = "none" /\ gets(c)' = "none"
  <2>1. queue[c] = <<>> /\ (Asked(c) => server_queue' = <<>>)
    BY <1>4 DEF IInv, OneQuestion
  <2>2. \A m \in Messages : Unhandled(m)' => ~Question(m, c)
    BY <1>2, <1>3, <2>1 DEF Unhandled, Asked
  <2>3. \A m \in Messages : ~Answered(m, c)'
    BY <1>2, <2>1 DEF Answered
  <2>4. /\ (\A m \in Messages : Unhandled(m)' => ~Question(m, c)) => asks(c)' = "none"
        /\ (\A m \in Messages : ~Answered(m, c)') => gets(c)' = "none"
    BY DEF Shown, ShownRight, Question
  <2> QED BY <2>2, <2>3, <2>4
<1>5. ASSUME NEW c \in Clients \ dropped PROVE asks(c)' = asks(c) /\ gets(c)' = gets(c)
  <2>1. \A m \in Messages : Question(m, c) => (Unhandled(m)' <=> Unhandled(m))
    <3>1. CASE server_queue' = server_queue
      BY <1>2, <1>5, <3>1 DEF Unhandled, Handled
    <3>2. CASE server_queue' = <<>>
      BY <1>2, <1>3, <1>5, <3>2 DEF Unhandled, Handled, Asked
    <3> QED BY <3>1, <3>2
  <2>2. \A m \in Messages : Answered(m, c)' <=> Answered(m, c)
    BY <1>2, <1>5 DEF Answered, Handled, Question, IInv, ServerInv
  <2> QED BY <2>1, <2>2, AskKept, GetKept
<1>6. Asks' = [c \in Clients |-> IF c \in dropped THEN "none" ELSE Asks[c]]
  BY <1>4, <1>5 DEF Asks
<1>7. Gets' = [c \in Clients |-> IF c \in dropped THEN "none" ELSE Gets[c]]
  BY <1>4, <1>5 DEF Gets
<1>8. (~Closed)' = FALSE /\ dropped \in SUBSET Clients
  BY <1>1
<1>9. Service!Close
  BY <1>1, <1>6, <1>7, <1>8 DEF Service!Close, Asks, Gets
<1> QED BY <1>9 DEF ServiceStep, Service!Next

(* A handler that has an answer in its hands has given it. *)
LEMMA HandlerGives ==
  ASSUME IInv, Shown, Shown', NEW d \in Clients, server_pc = "handle",
         msg.sender = d, msg.type \in RequestTypes,
         server_pc' = "reply", msg' \in Messages, msg'.sender = d,
         NEW a, a = answered(msg'), UNCHANGED <<server_queue, queue>>
  PROVE  /\ asks(d) = msg.type
         /\ ~Closed /\ ~Closed'
         /\ Asks' = [Asks EXCEPT ![d] = "none"]
         /\ Gets' = [Gets EXCEPT ![d] = a]
<1>1. /\ msg \in Messages /\ Unhandled(msg) /\ Question(msg, d)
      /\ Handled(d) /\ ~Asked(d) /\ queue[d] = <<>>
  BY DEF IInv, ServerInv, Unhandled, Question, Handled, OneQuestion
<1>2. asks(d) = msg.type
  BY <1>1 DEF Shown, ShownRight
<1>3. asks(d)' = "none"
  <2>1. \A m \in Messages : Unhandled(m)' => ~Question(m, d)
    BY <1>1 DEF Unhandled, Asked
  <2>2. (\A m \in Messages : Unhandled(m)' => ~Question(m, d)) => asks(d)' = "none"
    BY DEF Shown, ShownRight, Question
  <2> QED BY <2>1, <2>2
<1>4. gets(d)' = a
  <2>1. PICK m \in Messages : m = msg'
    OBVIOUS
  <2>2. Answered(m, d)' /\ answered(m) = a
    BY <2>1 DEF Answered
  <2>3. Answered(m, d)' => gets(d)' = answered(m)
    BY DEF Shown, ShownRight, answered
  <2> QED BY <2>2, <2>3
<1>5. ASSUME NEW c \in Clients \ {d} PROVE asks(c)' = asks(c) /\ gets(c)' = gets(c)
  <2>1. \A m \in Messages : Question(m, c) => (Unhandled(m)' <=> Unhandled(m))
    BY DEF Unhandled, Question
  <2>2. \A m \in Messages : Answered(m, c)' <=> Answered(m, c)
    BY DEF Answered
  <2> QED BY <2>1, <2>2, AskKept, GetKept
<1>6. ~Closed /\ ~Closed'
  BY DEF Closed, Ended
<1> QED BY <1>2, <1>3, <1>4, <1>5, <1>6 DEF Asks, Gets

LEMMA RegisterServes ==
  ASSUME IInv, Shown, Shown', dispatch_requests, handle_register PROVE ServiceStep
<1>1. /\ server_pc = "handle" /\ msg.type = "REGISTER" /\ msg.type \in RequestTypes
      /\ UNCHANGED <<server_queue, queue>>
  BY DEF dispatch_requests, handle_register, RequestTypes
<1>2. PICK d \in Clients : d = msg.sender
  BY <1>1, Asker
<1>3. d \notin registered /\ Service!Cardinality(registered) = client_count
  BY <1>1, <1>2, TableCounted DEF IInv, RequestsInv, Expected
<1>4. /\ -1 \in -1..MAX_CLIENTS-1 /\ "REGISTER" \in Types
      /\ client_count \in 0..MAX_CLIENTS
  BY Typed, Constants DEF Types, RequestTypes
<1>5. CASE d \notin exists
  <2>1. server_pc' = "closing" /\ UNCHANGED <<clients_data, client_count>>
    BY <1>2, <1>5 DEF handle_register
  <2> QED BY <1>1, <2>1, ClosingCloses
<1>6. CASE d \in exists /\ table_full
  <2>1. /\ server_pc' = "reply" /\ msg' = Message("REGISTER", d, -1)
        /\ UNCHANGED <<clients_data, client_count>>
    BY <1>2, <1>6 DEF handle_register
  <2>2. /\ msg' \in Messages /\ msg'.type = "REGISTER" /\ msg'.sender = d
        /\ msg'.session = -1
    BY <1>4, <2>1, MessageFields
  <2>3. "REFUSED" = answered(msg')
    BY <2>2 DEF answered
  <2>4. /\ asks(d) = "REGISTER" /\ ~Closed /\ ~Closed'
        /\ Asks' = [Asks EXCEPT ![d] = "none"]
        /\ Gets' = [Gets EXCEPT ![d] = "REFUSED"]
    BY <1>1, <1>2, <2>1, <2>2, <2>3, HandlerGives
  <2>5. client_count = MAX_CLIENTS
    BY <1>4, <1>6, Constants DEF table_full
  <2>6. registered' = registered
    BY <2>1 DEF registered
  <2>7. Service!Give(d, "REFUSED") /\ Asks[d] = "REGISTER"
    BY <2>4 DEF Service!Give, Asks, Gets, Closed
  <2>8. Service!Refuse(d)
    BY <1>3, <2>5, <2>6, <2>7 DEF Service!Refuse, Asks
  <2> QED BY <2>8 DEF ServiceStep, Service!Next
<1>7. CASE d \in exists /\ ~table_full
  <2>1. /\ server_pc' = "reply" /\ msg' = Message("REGISTER", d, client_count)
        /\ clients_data' = [clients_data EXCEPT ![client_count] = d]
        /\ client_count' = client_count + 1
    BY <1>2, <1>7 DEF handle_register
  <2>2. client_count \in 0..MAX_CLIENTS-1 /\ registered' = registered \cup {d}
    BY <1>3, <1>7, <2>1, Admitted
  <2>3. client_count \in -1..MAX_CLIENTS-1 /\ client_count >= 0 /\ client_count < MAX_CLIENTS
    BY <2>2, Constants
  <2>4. /\ msg' \in Messages /\ msg'.type = "REGISTER" /\ msg'.sender = d
        /\ msg'.session = client_count
    BY <1>4, <2>1, <2>3, MessageFields
  <2>5. ~(client_count < 0)
    BY <2>3, <1>4
  <2>6. "ADMITTED" = answered(msg')
    BY <2>4, <2>5 DEF answered
  <2>7. /\ asks(d) = "REGISTER" /\ ~Closed /\ ~Closed'
        /\ Asks' = [Asks EXCEPT ![d] = "none"]
        /\ Gets' = [Gets EXCEPT ![d] = "ADMITTED"]
    BY <1>1, <1>2, <2>1, <2>4, <2>6, HandlerGives
  <2>8. Service!Give(d, "ADMITTED") /\ Asks[d] = "REGISTER"
    BY <2>7 DEF Service!Give, Asks, Gets, Closed
  <2>9. Service!Admit(d)
    BY <1>3, <2>2, <2>3, <2>8 DEF Service!Admit, Asks
  <2> QED BY <2>9 DEF ServiceStep, Service!Next
<1> QED BY <1>5, <1>6, <1>7

LEMMA QuestionServes ==
  ASSUME IInv, Shown, Shown', dispatch_requests, handle_question PROVE ServiceStep
<1>1. /\ server_pc = "handle" /\ msg.type \in {"MIRROR", "TIME"}
      /\ msg.sender \in registered => server_pc' = "reply" /\ msg' = msg
      /\ UNCHANGED <<clients_data, client_count, server_queue, queue>>
  BY DEF dispatch_requests, handle_question
<1>2. /\ msg \in Messages /\ msg.sender \in Clients /\ msg.sender \in registered
      /\ msg.type \in RequestTypes
  <2>1. msg.type \in RequestTypes
    BY <1>1 DEF RequestTypes
  <2> QED BY <1>1, <2>1, Asker DEF IInv, RequestsInv, Expected
<1>3. PICK d \in Clients, m \in Messages : d = msg.sender /\ m = msg
  BY <1>2
<1>4. m.type = answered(msg')
  <2>1. m.type # "REGISTER" /\ msg' = m
    BY <1>1, <1>2, <1>3
  <2> QED BY <2>1 DEF answered
<1>5. /\ asks(d) = m.type /\ ~Closed /\ ~Closed'
      /\ Asks' = [Asks EXCEPT ![d] = "none"]
      /\ Gets' = [Gets EXCEPT ![d] = m.type]
  BY <1>1, <1>2, <1>3, <1>4, HandlerGives
<1>6. registered' = registered
  BY <1>1 DEF registered
<1>7. Service!Answer(d)
  BY <1>1, <1>2, <1>3, <1>5, <1>6 DEF Service!Answer, Service!Give, Asks, Gets, Closed
<1> QED BY <1>7 DEF ServiceStep, Service!Next

LEMMA EndServes ==
  ASSUME IInv, Shown, Shown', dispatch_requests, handle_end PROVE ServiceStep
<1>1. /\ server_pc = "handle" /\ server_pc' = "loop" /\ msg.type = "END"
      /\ msg' = NoMessage
      /\ UNCHANGED <<clients_data, client_count, server_queue, queue>>
  BY DEF dispatch_requests, handle_end, back_to_loop
<1>2. /\ \A m \in Messages : m.type \in RequestTypes => (Unhandled(m)' <=> Unhandled(m))
      /\ \A c \in Clients : \A m \in Messages : Answered(m, c)' <=> Answered(m, c)
  BY <1>1 DEF Unhandled, Answered, RequestTypes
<1>3. \A c \in Clients : asks(c)' = asks(c) /\ gets(c)' = gets(c)
  BY <1>2, AskKept, GetKept DEF Question
<1>4. registered' = registered /\ (Closed' <=> Closed)
  BY <1>1 DEF registered, Closed, Ended
<1> QED BY <1>3, <1>4, NothingShown

(* A message that moves between the server's hands and a queue is no step. *)
LEMMA ReceiveUnseen ==
  ASSUME IInv, Shown, Shown', Receive PROVE ServiceStep
<1>1. /\ server_pc = "loop" /\ server_pc' = "handle" /\ server_queue # <<>>
      /\ msg' = Head(server_queue) /\ server_queue' = Tail(server_queue)
      /\ UNCHANGED <<clients_data, client_count, queue>>
  BY DEF Receive
<1> DEFINE n == Len(server_queue)
<1>2. /\ msg' = server_queue[1] /\ 1 \in 1..n
      /\ \A i \in 1..Len(server_queue') :
           i + 1 \in 1..n /\ server_queue'[i] = server_queue[i+1]
      /\ \A i \in 1..n : i # 1 => /\ i - 1 \in 1..Len(server_queue')
                                  /\ server_queue'[i-1] = server_queue[i]
  BY <1>1, Typed, Removed
<1>3. \A m \in Messages : Unhandled(m)' <=> Unhandled(m)
  <2> TAKE m \in Messages
  <2>1. ASSUME NEW i \in 1..n, server_queue[i] = m PROVE Unhandled(m)'
    BY <1>1, <1>2, <2>1 DEF Unhandled
  <2>2. Unhandled(m)' => Unhandled(m)
    BY <1>1, <1>2 DEF Unhandled
  <2> QED BY <1>1, <2>1, <2>2 DEF Unhandled
<1>4. \A c \in Clients : \A m \in Messages : Answered(m, c)' <=> Answered(m, c)
  BY <1>1 DEF Answered
<1>5. \A c \in Clients : asks(c)' = asks(c) /\ gets(c)' = gets(c)
  BY <1>3, <1>4, AskKept, GetKept
<1>6. registered' = registered /\ (Closed' <=> Closed)
  BY <1>1 DEF registered, Closed, Ended
<1> QED BY <1>5, <1>6, NothingShown

LEMMA ReplyUnseen ==
  ASSUME IInv, Shown, Shown', Reply, msg.sender \in exists PROVE ServiceStep
<1>1. /\ server_pc = "reply" /\ server_pc' = "loop"
      /\ queue' = [queue EXCEPT ![msg.sender] = Append(queue[msg.sender], msg)]
      /\ UNCHANGED <<clients_data, client_count, server_queue>>
  BY DEF Reply, back_to_loop
<1>2. PICK d \in Clients, k \in Messages : d = msg.sender /\ k = msg
  BY <1>1, MessageFields DEF IInv, ServerInv
<1>3. queue[d] = <<>> /\ queue \in [Clients -> Seq(Messages)]
  BY <1>1, <1>2 DEF IInv, TypeOK, OneQuestion, Handled, Question, ServerInv
<1>4. /\ queue'[d] = <<k>> /\ Head(queue'[d]) = k /\ queue'[d] # <<>>
      /\ \A c \in Clients \ {d} : queue'[c] = queue[c]
  <2>1. Append(queue[d], k) = <<k>> /\ Head(<<k>>) = k /\ <<k>> # <<>>
    BY <1>3
  <2> QED BY <1>1, <1>2, <1>3, <2>1
<1>5. \A m \in Messages : Unhandled(m)' <=> Unhandled(m)
  BY <1>1 DEF Unhandled
<1>6. \A c \in Clients : \A m \in Messages : Answered(m, c)' <=> Answered(m, c)
  BY <1>1, <1>2, <1>3, <1>4 DEF Answered
<1>7. \A c \in Clients : asks(c)' = asks(c) /\ gets(c)' = gets(c)
  BY <1>5, <1>6, AskKept, GetKept
<1>8. registered' = registered /\ (Closed' <=> Closed)
  BY <1>1 DEF registered, Closed, Ended
<1> QED BY <1>7, <1>8, NothingShown

LEMMA ServerServes ==
  ASSUME IInv, Shown, Shown', ServerStep \/ server_sigint_handler PROVE ServiceStep
<1>1. CASE Start
  <2>1. /\ server_pc = "start" /\ server_pc' = "loop"
        /\ UNCHANGED <<clients_data, client_count, msg, server_queue, queue>>
    BY <1>1 DEF Start
  <2>2. /\ \A c \in Clients : asks(c)' = asks(c) /\ gets(c)' = gets(c)
        /\ registered' = registered /\ (Closed' <=> Closed)
    BY <2>1 DEF asks, gets, pending, in_hand, registered, Closed, Ended
  <2> QED BY <2>2, NothingShown
<1>2. CASE Drained \/ CloseQueue \/ server_sigint_handler
  <2>1. /\ server_pc' \in {"closing"} \cup Ended
        /\ UNCHANGED <<clients_data, client_count, queue>>
        /\ server_queue' = server_queue \/ server_queue' = <<>>
    BY <1>2 DEF Drained, CloseQueue, server_sigint_handler, Ended
  <2> QED BY <2>1, ClosingCloses
<1>3. CASE dispatch_requests
  BY <1>3, RegisterServes, QuestionServes, EndServes DEF dispatch_requests
<1>4. CASE Reply /\ msg.sender \notin exists
  <2>1. /\ server_pc' = "closing"
        /\ UNCHANGED <<clients_data, client_count, server_queue, queue>>
    BY <1>4 DEF Reply
  <2> QED BY <2>1, ClosingCloses
<1>5. CASE Reply /\ msg.sender \in exists
  BY <1>5, ReplyUnseen
<1> QED BY <1>1, <1>2, <1>3, <1>4, <1>5, ReceiveUnseen DEF ServerStep

(* The steps of a client that leave the queues alone. *)
LEMMA ClientUnseen ==
  ASSUME UNCHANGED <<server_vars, server_queue, queue>> PROVE ServiceStep
<1>1. UNCHANGED <<clients_data, client_count, server_pc, msg, server_queue, queue>>
  BY DEF server_vars
<1>2. registered' = registered /\ (Closed' <=> Closed)
  BY <1>1 DEF registered, Closed
<1> QED BY <1>1, <1>2, QueuesKept, NothingShown

LEMMA ClientServes ==
  ASSUME IInv, Shown, Shown', NEW c \in Clients,
         ClientStep(c) \/ Open(c) \/ ReadRequest(c) \/ client_sigint_handler(c)
  PROVE  ServiceStep
<1>1. CASE Send(c) /\ server_exists
  BY <1>1, SendAsks
<1>2. CASE ReceiveSession(c) \/ ReceiveAnswer(c)
  <2>1. /\ queue[c] # <<>> /\ queue' = [queue EXCEPT ![c] = Tail(queue[c])]
        /\ UNCHANGED <<clients_data, client_count, server_pc, msg, server_queue>>
    BY <1>2 DEF ReceiveSession, ReceiveAnswer, server_vars
  <2>2. queue'[c] = <<>> /\ \A d \in Clients \ {c} : queue'[d] = queue[d]
    BY <2>1, OneAnswer
  <2> QED BY <2>1, <2>2, ReceiveReceives
<1>3. CASE client_close_queue(c)
  <2>1. /\ queue' = [queue EXCEPT ![c] = <<>>]
        /\ UNCHANGED <<server_vars, clients_data, client_count, server_pc, msg,
                       server_queue>>
    BY <1>3 DEF client_close_queue, server_vars
  <2>2. /\ queue' \in [Clients -> Seq(Messages)] /\ queue'[c] = <<>>
        /\ \A d \in Clients \ {c} : queue'[d] = queue[d]
    BY <2>1 DEF IInv, TypeOK
  <2>3. CASE queue[c] # <<>>
    BY <2>1, <2>2, <2>3, ReceiveReceives
  <2>4. CASE queue[c] = <<>>
    <3>1. queue' = queue
      BY <2>1, <2>4 DEF IInv, TypeOK
    <3> QED BY <2>1, <3>1, ClientUnseen
  <2> QED BY <2>3, <2>4
<1>4. CASE \/ Send(c) /\ ~server_exists
           \/ Open(c) \/ ReadRequest(c) \/ client_sigint_handler(c)
  <2>1. UNCHANGED <<server_vars, server_queue, queue>>
    BY <1>4 DEF Send, Open, ReadRequest, client_sigint_handler
  <2> QED BY <2>1, ClientUnseen
<1> QED BY <1>1, <1>2, <1>3, <1>4 DEF ClientStep

(* The server with its queues and its clients, interrupted at any point,   *)
(* is the abstract request service: one question and one answer at a time, *)
(* refusals only when the table is full, nothing answered to strangers.    *)
THEOREM Refinement == Spec => ImplementsService
<1>1. Init => Service!Init
  <2> SUFFICES ASSUME Init PROVE Service!Init
    OBVIOUS
  <2>1. /\ server_pc = "start" /\ client_count = 0 /\ server_queue = <<>>
        /\ \A c \in Clients : queue[c] = <<>>
    BY DEF Init
  <2>2. registered = {} /\ ~Closed
    BY <2>1 DEF Init, registered, Closed, Ended
  <2>3. \A c \in Clients : asks(c) = "none" /\ gets(c) = "none"
    <3> TAKE c \in Clients
    <3>1. pending(c) = {}
      BY <2>1 DEF pending
    <3>2. \A place \in {"handle", "reply"} : ~in_hand(c, place)
      BY <2>1 DEF in_hand
    <3> QED BY <2>1, <3>1, <3>2 DEF asks, gets
  <2> QED BY <2>2, <2>3 DEF Service!Init
<1>2. IInv /\ Shown /\ Shown' /\ [Next]_vars
        => [Service!Next]_<<~Closed, registered, Asks, Gets>>
  <2> SUFFICES ASSUME IInv, Shown, Shown', [Next]_vars
               PROVE  ServiceStep
    BY DEF ServiceStep
  <2>1. CASE UNCHANGED vars
    BY <2>1, ClientUnseen DEF vars
  <2>2. CASE Next
    BY <2>2, ServerServes, ClientServes DEF Next
  <2> QED BY <2>1, <2>2
<1>3. IInv => Shown
  BY IsShown
<1>4. Spec => [][[Service!Next]_<<~Closed, registered, Asks, Gets>>]_vars
  BY <1>2, <1>3, Invariance, PTL DEF Spec
<1> QED BY <1>1, <1>2, <1>3, Invariance, PTL
        DEF ImplementsService, Service!Spec, Spec, Asks, Gets
===============================================================================
