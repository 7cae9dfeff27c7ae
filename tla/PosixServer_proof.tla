-------------------------- MODULE PosixServer_proof --------------------------
(***************************************************************************)
(* Proofs about PosixServer for any number of clients, any length of the   *)
(* table and any capacity of the queues.  IInv follows one client's        *)
(* question through the server: it is in the server's queue, in its hands, *)
(* or its answer is in the client's queue, and what it is tells whether    *)
(* the client is in the table and which session number it knows.           *)
(***************************************************************************)
EXTENDS PosixServer, SequenceTheorems, FiniteSetTheorems,
        FunctionTheorems, TLAPS

(* The server and the message in its hands. *)
ServerInv ==
  /\ server_pc \in {"start", "loop"} => msg = NoMessage
  /\ server_pc \in {"handle", "reply"} => msg \in Messages
  /\ server_pc = "reply" => msg.type \in RequestTypes
  /\ server_pc = "start" => client_count = 0
  /\ ~Closed => killed = 0
  /\ server_pc = "gone" => killed = client_count
  /\ ErrorExitsExplained

(* Nobody is in the table twice. *)
TableInv ==
  /\ \A i \in 0..client_count-1 : clients_data[i] \in Clients
  /\ \A i, j \in 0..client_count-1 : clients_data[i] = clients_data[j] => i = j

SignalInv ==
  \A i \in 0..killed-1 :
    \/ clients_data[i] \in sigint \cup in_handler
    \/ client_pc[clients_data[i]] \in Ended

(* Of each client at most one question is under way. *)
Question(m, c) == m.sender = c /\ m.type \in RequestTypes
Asked(c) == \E i \in 1..Len(server_queue) : Question(server_queue[i], c)
Handled(c) == server_pc \in {"handle", "reply"} /\ Question(msg, c)
Silent(c) == ~Asked(c) /\ ~Handled(c) /\ queue[c] = <<>>

OneQuestion ==
  \A c \in Clients :
    /\ \A i, j \in 1..Len(server_queue) :
         Question(server_queue[i], c) /\ Question(server_queue[j], c) => i = j
    /\ Asked(c) => ~Handled(c) /\ queue[c] = <<>>
    /\ Handled(c) => queue[c] = <<>>
    /\ Len(queue[c]) <= 1

(* A client asks nothing after its QUIT. *)
QuitLast ==
  /\ \A i, j \in 1..Len(server_queue) :
       /\ i < j /\ server_queue[i].type = "QUIT"
       /\ server_queue[i].sender = server_queue[j].sender
       => server_queue[j].type \notin RequestTypes
  /\ server_pc = "handle" /\ msg.type = "QUIT" => ~Asked(msg.sender)

(* What a message that has not been handled says of its sender. *)
Expected(m) ==
  /\ m.type = "REGISTER" => /\ m.sender \notin registered
                            /\ session_num[m.sender] = -2
                            /\ m.sender \in linked \cup in_handler
  /\ m.type \in {"MIRROR", "TIME"} => m.sender \in registered /\ session_num[m.sender] >= 0
  /\ m.type = "QUIT" => /\ session_num[m.sender] >= 0
                        /\ client_pc[m.sender] \in {"unlink"} \cup Ended

Unhandled(m) ==
  \/ \E i \in 1..Len(server_queue) : server_queue[i] = m
  \/ server_pc = "handle" /\ msg = m

RequestsInv == \A m \in Messages : Unhandled(m) => Expected(m)

(* What an answer on its way says of the client it goes to. *)
Below(c, s) == \A i \in 0..client_count-1 : clients_data[i] = c => i <= s
Due(m, c) ==
  /\ m.type \in RequestTypes
  /\ m.type = "REGISTER" =>
       /\ session_num[c] = -2
       /\ IF m.session < 0 THEN c \notin registered
                           ELSE c \in registered /\ Below(c, m.session)
  /\ m.type # "REGISTER" => session_num[c] >= 0

Answered(m, c) ==
  \/ queue[c] # <<>> /\ Head(queue[c]) = m
  \/ server_pc = "reply" /\ msg = m /\ m.sender = c

AnswersInv == \A c \in Clients : \A m \in Messages : Answered(m, c) => Due(m, c)

(* What the place of a client says of it. *)
Asking == {"prompt", "MIRROR", "TIME", "END"}
Quitting(c) ==
  \E m \in Messages : Unhandled(m) /\ m.sender = c /\ m.type = "QUIT"

PlaceInv(c) ==
  /\ client_pc[c] \in {"start", "REGISTER"} \cup Asking => Silent(c)
  /\ client_pc[c] \in {"start", "REGISTER"} => c \notin registered
  /\ client_pc[c] \in {"start", "REGISTER", "session"} => session_num[c] = -2
  /\ client_pc[c] \in Asking \cup {"mirrored", "told", "QUIT"} =>
       session_num[c] >= 0 /\ c \in registered
  /\ client_pc[c] = "REGISTER" => c \in linked
  /\ client_pc[c] = "unlink" /\ session_num[c] = -2 => c \in in_handler
  /\ c \in in_handler => client_pc[c] \in {"QUIT", "unlink"} \cup Ended
  /\ session_num[c] = -1 => c \notin registered
  /\ session_num[c] >= 0 => Below(c, session_num[c])
  /\ client_pc[c] \in {"unlink", "gone"} /\ c \in registered /\ ~Closed =>
       session_num[c] = -2 \/ Quitting(c)

PlacesInv == \A c \in Clients : PlaceInv(c)

IInv ==
  /\ TypeOK /\ ServerInv /\ TableInv /\ SignalInv /\ OneQuestion /\ QuitLast
  /\ RequestsInv /\ AnswersInv /\ PlacesInv

-------------------------------------------------------------------------------
(* What a step changes. *)

LEMMA Constants ==
  /\ Server \notin Clients /\ NoClient \notin Clients
  /\ MAX_CLIENTS \in Nat \ {0} /\ MAX_MSGS \in Nat \ {0} /\ Lines \in Nat
  /\ Interruptible \subseteq Clients \cup {Server}
BY ConstantsAssumption

LEMMA MessageFields ==
  /\ \A m \in Messages : /\ m.type \in Types /\ m.sender \in Clients
                         /\ m.session \in -1..MAX_CLIENTS-1
  /\ \A type \in Types, c \in Clients, s \in -1..MAX_CLIENTS-1 :
       /\ Message(type, c, s) \in Messages
       /\ Message(type, c, s).type = type
       /\ Message(type, c, s).sender = c
       /\ Message(type, c, s).session = s
  /\ NoMessage.type = "END" /\ NoMessage.sender = NoClient
  /\ NoMessage \notin Messages
BY Constants DEF Messages, Message, NoMessage

LEMMA Typed ==
  ASSUME IInv
  PROVE  /\ server_queue \in Seq(Messages) /\ Len(server_queue) \in Nat
         /\ \A i \in 1..Len(server_queue) : server_queue[i] \in Messages
         /\ \A c \in Clients : queue[c] \in Seq(Messages) /\ Len(queue[c]) \in Nat
         /\ client_count \in 0..MAX_CLIENTS /\ killed \in 0..client_count
         /\ \A i \in 0..client_count-1 : i \in Places /\ clients_data[i] \in Clients
         /\ registered \subseteq Clients
<1>1. /\ server_queue \in Seq(Messages) /\ queue \in [Clients -> Seq(Messages)]
      /\ client_count \in 0..MAX_CLIENTS /\ killed \in 0..client_count
  BY DEF IInv, TypeOK
<1>2. \A i \in 0..client_count-1 : i \in Places /\ clients_data[i] \in Clients
  BY <1>1, Constants DEF IInv, TableInv, Places
<1> QED BY <1>1, <1>2 DEF registered

(* The places of a queue, one message later. *)
LEMMA Appended ==
  ASSUME NEW s \in Seq(Messages), NEW m \in Messages, NEW t, t = Append(s, m)
  PROVE  /\ t \in Seq(Messages) /\ Len(t) = Len(s) + 1 /\ t # <<>>
         /\ Len(t) \in 1..Len(t) /\ t[Len(t)] = m
         /\ \A i \in 1..Len(s) : i \in 1..Len(t) /\ t[i] = s[i]
         /\ \A i \in 1..Len(t) : i = Len(t) \/ i \in 1..Len(s)
OBVIOUS

LEMMA Removed ==
  ASSUME NEW s \in Seq(Messages), s # <<>>, NEW t, t = Tail(s)
  PROVE  /\ t \in Seq(Messages) /\ Len(t) = Len(s) - 1 /\ Len(s) \in Nat \ {0}
         /\ Head(s) = s[1] /\ 1 \in 1..Len(s) /\ Head(s) \in Messages
         /\ \A i \in 1..Len(t) : i + 1 \in 1..Len(s) /\ t[i] = s[i+1]
         /\ \A i \in 1..Len(s) : i # 1 => i - 1 \in 1..Len(t) /\ t[i-1] = s[i]
<1>1. Len(s) \in Nat \ {0}
  BY EmptySeq
<1>2. /\ t \in Seq(Messages) /\ Len(t) = Len(s) - 1
      /\ \A i \in 1..Len(t) : t[i] = s[i+1]
  BY HeadTailProperties
<1>3. Head(s) = s[1] /\ 1 \in 1..Len(s) /\ Head(s) \in Messages
  BY <1>1, HeadTailProperties, ElementOfSeq
<1>4. \A i \in 1..Len(t) : i + 1 \in 1..Len(s)
  BY <1>1, <1>2
<1>5. \A i \in 1..Len(s) : i # 1 => i - 1 \in 1..Len(t) /\ t[i-1] = s[(i-1)+1]
  BY <1>1, <1>2
<1>6. \A i \in 1..Len(s) : (i-1)+1 = i
  BY <1>1
<1> QED BY <1>1, <1>2, <1>3, <1>4, <1>5, <1>6

LEMMA TableKept ==
  ASSUME UNCHANGED <<clients_data, client_count>>
  PROVE  /\ registered' = registered
         /\ \A c \in Clients : \A s \in Int : Below(c, s)' <=> Below(c, s)
BY DEF registered, Below

LEMMA PlaceKept ==
  ASSUME NEW c \in Clients, PlaceInv(c), session_num[c] \in Int,
         client_pc'[c] = client_pc[c], session_num'[c] = session_num[c],
         c \in registered' <=> c \in registered,
         \A s \in Int : Below(c, s) => Below(c, s)',
         c \in linked' <=> c \in linked, c \in in_handler' <=> c \in in_handler,
         Silent(c) => Silent(c)', Closed' \/ (Quitting(c) => Quitting(c)'),
         Closed => Closed'
  PROVE  PlaceInv(c)'
<1>1. session_num[c] >= 0 /\ Below(c, session_num[c]) => Below(c, session_num[c])'
  <2>1. PICK s \in Int : s = session_num[c]
    OBVIOUS
  <2>2. Below(c, s) => Below(c, s)'
    BY <2>1
  <2> QED BY <2>1, <2>2 DEF Below
<1> QED BY <1>1 DEF PlaceInv

(* The steps of a client that send and receive nothing. *)
LEMMA ClientMoves ==
  ASSUME IInv, TypeOK', NEW c \in Clients, PlaceInv(c)',
         UNCHANGED <<server_vars, server_queue, session_num, queue>>,
         \A d \in Clients \ {c} : /\ client_pc'[d] = client_pc[d]
                                  /\ d \in linked' <=> d \in linked
                                  /\ d \in in_handler' <=> d \in in_handler
                                  /\ d \in sigint => d \in sigint',
         client_pc[c] \in Ended => client_pc'[c] \in Ended,
         client_pc[c] \in {"unlink"} \cup Ended => client_pc'[c] \in {"unlink"} \cup Ended,
         c \in linked \cup in_handler /\ session_num[c] = -2 => c \in linked' \cup in_handler',
         c \in sigint \cup in_handler => c \in sigint' \cup in_handler',
         c \in in_handler => c \in in_handler',
         Server \in in_handler' <=> Server \in in_handler
  PROVE  IInv'
<1>1. UNCHANGED <<active, clients_data, client_count, server_pc, msg, killed>>
  BY DEF server_vars
<1>2. ServerInv'
  <2>1. Closed' <=> Closed
    BY <1>1 DEF Closed
  <2>2. ErrorExitsExplained'
    <3>1. msg # NoMessage /\ Closed /\ Server \notin in_handler =>
            msg.sender \in in_handler /\ msg.sender \in Clients
      BY Constants DEF IInv, ServerInv, ErrorExitsExplained, TypeOK, Messages
    <3>2. ErrorExitsExplained
      BY DEF IInv, ServerInv
    <3> QED BY <1>1, <2>1, <3>1, <3>2 DEF ErrorExitsExplained
  <2> QED BY <1>1, <2>1, <2>2 DEF IInv, ServerInv
<1>3. TableInv'
  BY <1>1 DEF IInv, TableInv
<1>4. SignalInv'
  <2> SUFFICES ASSUME NEW i \in 0..killed-1
               PROVE  \/ clients_data[i] \in sigint' \cup in_handler'
                      \/ client_pc'[clients_data[i]] \in Ended
    BY <1>1 DEF SignalInv
  <2>1. clients_data[i] \in Clients
    BY Typed
  <2> QED BY <2>1 DEF IInv, SignalInv
<1>5. OneQuestion' /\ QuitLast'
  BY <1>1 DEF IInv, OneQuestion, QuitLast, Asked, Handled
<1>6. registered' = registered /\ \A d \in Clients : \A s \in Int : Below(d, s)' <=> Below(d, s)
  BY <1>1, TableKept
<1>7. \A m \in Messages : Expected(m) => Expected(m)'
  <2> SUFFICES ASSUME NEW m \in Messages, Expected(m) PROVE Expected(m)'
    OBVIOUS
  <2>1. m.sender \in Clients
    BY MessageFields
  <2>2. m.type = "REGISTER" => m.sender \in linked' \cup in_handler'
    BY <2>1 DEF Expected
  <2>3. m.type = "QUIT" => client_pc'[m.sender] \in {"unlink"} \cup Ended
    BY <2>1 DEF Expected
  <2> QED BY <1>6, <2>2, <2>3 DEF Expected
<1>8. RequestsInv'
  BY <1>1, <1>7 DEF IInv, RequestsInv, Unhandled
<1>9. AnswersInv'
  BY <1>1 DEF IInv, AnswersInv, Answered, Due, Below, registered
<1>10. \A d \in Clients \ {c} : PlaceInv(d)'
  <2> TAKE d \in Clients \ {c}
  <2>1. session_num[d] \in Int /\ session_num'[d] = session_num[d]
    BY Constants DEF IInv, TypeOK
  <2>2. PlaceInv(d)
    BY DEF IInv, PlacesInv
  <2>3. Silent(d)' <=> Silent(d)
    BY <1>1 DEF Silent, Asked, Handled
  <2>4. (Quitting(d)' <=> Quitting(d)) /\ (Closed' <=> Closed)
    BY <1>1 DEF Quitting, Unhandled, Closed
  <2> QED BY <1>6, <2>1, <2>2, <2>3, <2>4, PlaceKept
<1> QED BY <1>2, <1>3, <1>4, <1>5, <1>8, <1>9, <1>10 DEF IInv, PlacesInv

-------------------------------------------------------------------------------
(* One lemma per action: it preserves the inductive invariant. *)

LEMMA InitEstablishes == Init => IInv
<1> SUFFICES ASSUME Init PROVE IInv
  OBVIOUS
<1>1. /\ server_queue = <<>> /\ Len(server_queue) = 0
      /\ \A c \in Clients : queue[c] = <<>> /\ Len(queue[c]) = 0
  BY DEF Init
<1>2. /\ client_count = 0 /\ killed = 0 /\ server_pc = "start" /\ msg = NoMessage
      /\ \A c \in Clients : client_pc[c] = "start" /\ session_num[c] = -2
      /\ in_handler = {}
  BY DEF Init
<1>3. 1..Len(server_queue) = {} /\ 0..client_count-1 = {} /\ registered = {}
  BY <1>1, <1>2 DEF registered
<1>4. TypeOK
  <2>1. /\ clients_data \in [Places -> Clients \cup {NoClient}]
        /\ client_pc \in [Clients -> {"start", "prompt"} \cup Types \cup Waiting
                                      \cup {"unlink"} \cup Ended]
    BY DEF Init
  <2>2. session_num \in [Clients -> -2..MAX_CLIENTS-1] /\ lines \in [Clients -> 0..Lines]
    BY Constants DEF Init
  <2>3. queue \in [Clients -> Seq(Messages)] /\ server_queue \in Seq(Messages)
    BY DEF Init
  <2>4. client_count \in 0..MAX_CLIENTS /\ killed \in 0..client_count
        /\ Len(server_queue) <= MAX_MSGS /\ \A c \in Clients : Len(queue[c]) <= MAX_MSGS
    BY <1>1, <1>2, Constants
  <2> QED BY <1>2, <2>1, <2>2, <2>3, <2>4 DEF Init, TypeOK
<1>5. ServerInv
  BY <1>2 DEF ServerInv, ErrorExitsExplained, Closed, Ended
<1>6. TableInv /\ SignalInv
  BY <1>2, <1>3 DEF TableInv, SignalInv
<1>7. \A c \in Clients : Silent(c)
  BY <1>1, <1>2, <1>3 DEF Silent, Asked, Handled
<1>8. OneQuestion /\ QuitLast
  BY <1>1, <1>2, <1>3 DEF OneQuestion, QuitLast, Asked, Handled
<1>9. RequestsInv /\ AnswersInv
  BY <1>1, <1>2, <1>3 DEF RequestsInv, AnswersInv, Unhandled, Answered
<1>10. PlacesInv
  BY <1>2, <1>3, <1>7 DEF PlacesInv, PlaceInv, Asking, Ended
<1> QED BY <1>4, <1>5, <1>6, <1>8, <1>9, <1>10 DEF IInv

LEMMA OpenPreserves ==
  ASSUME IInv, NEW c \in Clients, Open(c) PROVE IInv'
<1> DEFINE place == IF server_linked THEN "REGISTER" ELSE "gone"
<1>1. /\ client_pc[c] = "start" /\ client_pc' = [client_pc EXCEPT ![c] = place]
      /\ linked' = IF server_linked THEN linked \cup {c} ELSE linked
      /\ UNCHANGED <<server_vars, server_queue, session_num, queue, lines, sigint,
                     in_handler>>
  BY DEF Open, create_priv_queue
<1>2. /\ client_pc'[c] = place /\ place \in {"REGISTER", "gone"}
      /\ \A d \in Clients \ {c} : client_pc'[d] = client_pc[d]
      /\ client_pc' \in [Clients -> {"start", "prompt"} \cup Types \cup Waiting
                                    \cup {"unlink"} \cup Ended]
  BY <1>1 DEF IInv, TypeOK, Types, Ended
<1>3. UNCHANGED <<active, clients_data, client_count, server_pc, msg, killed,
                  server_linked>>
  BY <1>1 DEF server_vars
<1>4. TypeOK'
  BY <1>1, <1>2, <1>3 DEF IInv, TypeOK
<1>5. registered' = registered /\ (Silent(c)' <=> Silent(c))
  BY <1>1, <1>3 DEF registered, Silent, Asked, Handled
<1>6. Silent(c) /\ c \notin registered /\ session_num[c] = -2 /\ c \notin in_handler
  BY <1>1 DEF IInv, PlacesInv, PlaceInv, Ended
<1>7. PlaceInv(c)'
  BY <1>1, <1>2, <1>5, <1>6 DEF PlaceInv, Asking, Ended
<1> QED BY <1>1, <1>2, <1>4, <1>7, ClientMoves DEF Ended

LEMMA ReadRequestPreserves ==
  ASSUME IInv, NEW c \in Clients, ReadRequest(c) PROVE IInv'
<1>1. PICK type \in Types \ {"REGISTER"} : client_pc' = [client_pc EXCEPT ![c] = type]
  BY DEF ReadRequest
<1>2. /\ client_pc[c] = "prompt" /\ lines[c] > 0
      /\ lines' = [lines EXCEPT ![c] = lines[c] - 1]
      /\ UNCHANGED <<server_vars, server_queue, session_num, linked, queue, sigint,
                     in_handler>>
  BY DEF ReadRequest
<1>3. /\ client_pc'[c] = type /\ type \in {"MIRROR", "TIME", "END", "QUIT"}
      /\ \A d \in Clients \ {c} : client_pc'[d] = client_pc[d]
      /\ client_pc' \in [Clients -> {"start", "prompt"} \cup Types \cup Waiting
                                    \cup {"unlink"} \cup Ended]
  BY <1>1 DEF IInv, TypeOK, Types
<1>4. UNCHANGED <<active, clients_data, client_count, server_pc, msg, killed,
                  server_linked>>
  BY <1>2 DEF server_vars
<1>5. lines' \in [Clients -> 0..Lines]
  BY <1>2, Constants DEF IInv, TypeOK
<1>6. TypeOK'
  BY <1>2, <1>3, <1>4, <1>5 DEF IInv, TypeOK
<1>7. registered' = registered /\ (Silent(c)' <=> Silent(c))
  BY <1>2, <1>4 DEF registered, Silent, Asked, Handled
<1>8. /\ Silent(c) /\ session_num[c] >= 0 /\ c \in registered /\ c \notin in_handler
      /\ Below(c, session_num[c])
  BY <1>2 DEF IInv, PlacesInv, PlaceInv, Asking, Ended
<1>9. Below(c, session_num[c])'
  BY <1>2, <1>4, <1>8 DEF Below
<1>10. PlaceInv(c)'
  <2>1. session_num[c] # -1 /\ session_num[c] # -2
    BY <1>8
  <2> QED BY <1>2, <1>3, <1>7, <1>8, <1>9, <2>1 DEF PlaceInv, Asking
<1> QED BY <1>2, <1>3, <1>6, <1>8, <1>10, ClientMoves DEF Ended

LEMMA UnlinkPreserves ==
  ASSUME IInv, NEW c \in Clients, Unlink(c) PROVE IInv'
<1>1. /\ client_pc[c] = "unlink" /\ client_pc' = [client_pc EXCEPT ![c] = "gone"]
      /\ linked' = linked \ {c}
      /\ UNCHANGED <<server_vars, server_queue, session_num, queue, lines, sigint,
                     in_handler>>
  BY DEF Unlink
<1>2. /\ client_pc'[c] = "gone"
      /\ \A d \in Clients \ {c} : client_pc'[d] = client_pc[d]
      /\ client_pc' \in [Clients -> {"start", "prompt"} \cup Types \cup Waiting
                                    \cup {"unlink"} \cup Ended]
  BY <1>1 DEF IInv, TypeOK, Ended
<1>3. UNCHANGED <<active, clients_data, client_count, server_pc, msg, killed,
                  server_linked>>
  BY <1>1 DEF server_vars
<1>4. TypeOK'
  BY <1>1, <1>2, <1>3 DEF IInv, TypeOK
<1>5. registered' = registered /\ (Quitting(c)' <=> Quitting(c)) /\ (Closed' <=> Closed)
  BY <1>1, <1>3 DEF registered, Quitting, Unhandled, Closed
<1>6. session_num[c] >= 0 /\ Below(c, session_num[c]) => Below(c, session_num[c])'
  BY <1>1, <1>3 DEF Below
<1>7. PlaceInv(c)
  BY DEF IInv, PlacesInv
<1>8. PlaceInv(c)'
  BY <1>1, <1>2, <1>5, <1>6, <1>7 DEF PlaceInv, Asking, Ended
<1>9. session_num[c] = -2 => c \in in_handler
  BY <1>1, <1>7 DEF PlaceInv
<1> QED BY <1>1, <1>2, <1>4, <1>8, <1>9, ClientMoves DEF Ended

LEMMA ClientSigintPreserves ==
  ASSUME IInv, NEW c \in Clients, client_sigint_handler(c),
         sigint' = sigint \/ sigint' = sigint \ {c}
  PROVE  IInv'
<1> DEFINE place == CASE client_pc[c] = "start" -> "gone"
                      [] client_pc[c] \in {"QUIT", "unlink"} -> "cut"
                      [] OTHER -> close_queue(session_num[c])
<1>1. /\ client_pc[c] \notin Ended /\ c \notin in_handler
      /\ client_pc' = [client_pc EXCEPT ![c] = place]
      /\ in_handler' = in_handler \cup {c}
      /\ UNCHANGED <<server_vars, server_queue, session_num, linked, queue, lines>>
  BY DEF client_sigint_handler
<1>2. /\ client_pc[c] = "start" => place = "gone"
      /\ client_pc[c] \in {"QUIT", "unlink"} => place = "cut"
      /\ client_pc[c] \notin {"start", "QUIT", "unlink"} =>
           place = IF session_num[c] >= 0 THEN "QUIT" ELSE "unlink"
  BY DEF close_queue
<1>3. place \in {"gone", "cut", "QUIT", "unlink"}
  BY <1>2
<1>4. /\ client_pc'[c] = place
      /\ \A d \in Clients \ {c} : client_pc'[d] = client_pc[d]
      /\ client_pc' \in [Clients -> {"start", "prompt"} \cup Types \cup Waiting
                                    \cup {"unlink"} \cup Ended]
  BY <1>1, <1>3 DEF IInv, TypeOK, Types, Ended
<1>5. UNCHANGED <<active, clients_data, client_count, server_pc, msg, killed,
                  server_linked>>
  BY <1>1 DEF server_vars
<1>6. TypeOK'
  BY <1>1, <1>4, <1>5 DEF IInv, TypeOK
<1>7. /\ registered' = registered /\ (Quitting(c)' <=> Quitting(c))
      /\ Closed' <=> Closed
  BY <1>1, <1>5 DEF registered, Quitting, Unhandled, Closed
<1>8. session_num[c] >= 0 /\ Below(c, session_num[c]) => Below(c, session_num[c])'
  BY <1>1, <1>5 DEF Below
<1>9. PlaceInv(c) /\ session_num[c] \in -2..MAX_CLIENTS-1
  BY DEF IInv, PlacesInv, TypeOK
<1>10. place = "QUIT" => session_num[c] >= 0 /\ c \in registered
  <2> SUFFICES ASSUME place = "QUIT" PROVE session_num[c] >= 0 /\ c \in registered
    OBVIOUS
  <2>1. session_num[c] >= 0 /\ client_pc[c] \notin {"start", "QUIT", "unlink"}
    BY <1>2
  <2>2. client_pc[c] \in {"start", "REGISTER", "session"} \cup Asking
                         \cup {"mirrored", "told", "QUIT", "unlink"} \cup Ended
    BY DEF IInv, TypeOK, Types, Waiting, Asking
  <2>3. client_pc[c] \in Asking \cup {"mirrored", "told"}
    <3>1. session_num[c] # -2
      BY <2>1
    <3> QED BY <1>1, <1>9, <2>1, <2>2, <3>1 DEF PlaceInv
  <2> QED BY <2>1, <2>3, <1>9 DEF PlaceInv
<1>11. place \in {"unlink", "gone"} /\ c \in registered => session_num[c] = -2
  BY <1>1, <1>2, <1>9, Constants DEF PlaceInv
<1>12. PlaceInv(c)'
  BY <1>1, <1>3, <1>4, <1>7, <1>8, <1>9, <1>10, <1>11 DEF PlaceInv, Asking, Ended
<1>13. /\ client_pc[c] \in {"unlink"} \cup Ended => client_pc'[c] \in {"unlink"} \cup Ended
  BY <1>1, <1>2, <1>4 DEF Ended
<1> QED BY <1>1, <1>4, <1>6, <1>12, <1>13, ClientMoves, Constants

(* A message of c joins the server's queue. *)
LEMMA SendPreserves ==
  ASSUME IInv, NEW c \in Clients, Send(c) PROVE IInv'
<1>1. PICK type \in Types, m \in Messages :
        /\ client_pc[c] = type /\ m.type = type /\ m.sender = c
        /\ Len(server_queue) < MAX_MSGS /\ server_queue' = Append(server_queue, m)
        /\ client_pc' = [client_pc EXCEPT ![c] = after[type]]
        /\ UNCHANGED <<active, clients_data, client_count, server_pc, msg, killed,
                       server_linked, session_num, linked, queue, lines, sigint,
                       in_handler>>
  <2>1. 0 \in -1..MAX_CLIENTS-1 /\ client_pc[c] \in Types
    BY Constants DEF Send
  <2>2. /\ Message(client_pc[c], c, 0) \in Messages
        /\ Message(client_pc[c], c, 0).type = client_pc[c]
        /\ Message(client_pc[c], c, 0).sender = c
    BY <2>1, MessageFields
  <2> QED BY <2>1, <2>2 DEF Send, server_vars
<1>2. /\ type = "REGISTER" => after[type] = "session"
      /\ type = "MIRROR" => after[type] = "mirrored"
      /\ type = "TIME" => after[type] = "told"
      /\ type = "END" => after[type] = "prompt"
      /\ type = "QUIT" => after[type] = "unlink"
      /\ type \in {"REGISTER", "MIRROR", "TIME", "END", "QUIT"}
  BY <1>1 DEF after, Types
<1>3. /\ client_pc'[c] = after[type]
      /\ after[type] \in {"session", "mirrored", "told", "prompt", "unlink"}
      /\ \A d \in Clients \ {c} : client_pc'[d] = client_pc[d]
      /\ client_pc' \in [Clients -> {"start", "prompt"} \cup Types \cup Waiting
                                    \cup {"unlink"} \cup Ended]
  BY <1>1, <1>2 DEF IInv, TypeOK, Types, Waiting
<1> DEFINE n == Len(server_queue')
<1>4. /\ server_queue' \in Seq(Messages) /\ n = Len(server_queue) + 1
      /\ n \in 1..n /\ server_queue'[n] = m
      /\ \A i \in 1..Len(server_queue) : i \in 1..n /\ server_queue'[i] = server_queue[i]
      /\ \A i \in 1..n : i = n \/ i \in 1..Len(server_queue)
  BY <1>1, Typed, Appended
<1>5. TypeOK'
  <2>1. n <= MAX_MSGS
    BY <1>1, <1>4, Typed, Constants
  <2> QED BY <1>1, <1>3, <1>4, <2>1 DEF IInv, TypeOK
<1>6. /\ registered' = registered /\ (Closed' <=> Closed)
      /\ \A d \in Clients : \A s \in Int : Below(d, s)' <=> Below(d, s)
  BY <1>1, TableKept DEF Closed
<1>7. ServerInv' /\ TableInv'
  BY <1>1, <1>6 DEF IInv, ServerInv, TableInv, ErrorExitsExplained
<1>8. SignalInv'
  <2> SUFFICES ASSUME NEW i \in 0..killed-1
               PROVE  \/ clients_data[i] \in sigint \cup in_handler
                      \/ client_pc'[clients_data[i]] \in Ended
    BY <1>1 DEF SignalInv
  <2>1. clients_data[i] \in Clients
    BY Typed
  <2>2. client_pc[c] \notin Ended
    BY <1>1, <1>2 DEF Ended
  <2> QED BY <1>3, <2>1, <2>2 DEF IInv, SignalInv
<1>9. PlaceInv(c) /\ (type \in RequestTypes \cup {"END"} => Silent(c))
  BY <1>1, <1>2 DEF IInv, PlacesInv, PlaceInv, RequestTypes, Asking
<1>10. ASSUME NEW d \in Clients
       PROVE  /\ Asked(d)' <=> Asked(d) \/ (d = c /\ type \in RequestTypes)
              /\ Handled(d)' <=> Handled(d)
  BY <1>1, <1>4 DEF Asked, Handled, Question
<1>11. /\ \A k \in Messages : Unhandled(k)' <=> Unhandled(k) \/ k = m
       /\ \A d \in Clients : Quitting(d) => Quitting(d)'
       /\ type = "QUIT" => Quitting(c)'
  <2>1. \A k \in Messages : Unhandled(k)' <=> Unhandled(k) \/ k = m
    BY <1>1, <1>4 DEF Unhandled
  <2> QED BY <1>1, <2>1 DEF Quitting
<1>12. OneQuestion'
  <2> SUFFICES ASSUME NEW d \in Clients
               PROVE  /\ \A i, j \in 1..n : Question(server_queue'[i], d)
                           /\ Question(server_queue'[j], d) => i = j
                      /\ Asked(d)' => ~Handled(d)' /\ queue[d] = <<>>
                      /\ Handled(d)' => queue[d] = <<>>
                      /\ Len(queue[d]) <= 1
    BY <1>1 DEF OneQuestion, Question
  <2>1. OneQuestion
    BY DEF IInv
  <2>2. Asked(d)' => ~Handled(d)' /\ queue[d] = <<>>
    BY <1>9, <1>10, <2>1 DEF OneQuestion, Silent
  <2>3. \A i \in 1..Len(server_queue) :
          Question(server_queue[i], d) => ~Question(m, d)
    BY <1>1, <1>9 DEF Silent, Asked, Question
  <2>4. \A i, j \in 1..n : Question(server_queue'[i], d)
                           /\ Question(server_queue'[j], d) => i = j
    BY <1>4, <2>1, <2>3 DEF OneQuestion
  <2> QED BY <1>10, <2>1, <2>2, <2>4 DEF OneQuestion
<1>13. \A k \in Messages : Expected(k) => Expected(k)'
  <2> SUFFICES ASSUME NEW k \in Messages, Expected(k) PROVE Expected(k)'
    OBVIOUS
  <2>1. k.sender \in Clients
    BY MessageFields
  <2>2. k.type = "QUIT" => k.sender # c
    BY <1>1, <1>2 DEF Expected, Ended
  <2> QED BY <1>1, <1>3, <1>6, <2>1, <2>2 DEF Expected
<1>14. Expected(m)'
  <2>1. session_num[c] \in Int
    BY Constants DEF IInv, TypeOK
  <2> QED BY <1>1, <1>2, <1>3, <1>6, <1>9, <2>1 DEF Expected, PlaceInv, Asking
<1>15. RequestsInv'
  BY <1>11, <1>13, <1>14 DEF IInv, RequestsInv
<1>16. AnswersInv'
  BY <1>1 DEF IInv, AnswersInv, Answered, Due, Below, registered
<1>17. QuitLast'
  <2>1. QuitLast
    BY DEF IInv
  <2>2. \A k \in Messages : Unhandled(k) /\ k.type = "QUIT" => k.sender # c
    BY <1>1, <1>2 DEF IInv, RequestsInv, Expected, Ended
  <2>3. ASSUME NEW i \in 1..n, NEW j \in 1..n, i < j, server_queue'[i].type = "QUIT",
               server_queue'[i].sender = server_queue'[j].sender
        PROVE  server_queue'[j].type \notin RequestTypes
    <3>1. i \in 1..Len(server_queue) /\ server_queue'[i] = server_queue[i]
      BY <1>4, <2>3, Typed
    <3>2. CASE j = n
      <4>1. server_queue[i].sender # c
        BY <2>2, <2>3, <3>1, Typed DEF Unhandled
      <4> QED BY <1>1, <1>4, <2>3, <3>1, <3>2, <4>1
    <3>3. CASE j \in 1..Len(server_queue)
      BY <1>4, <2>1, <2>3, <3>1, <3>3 DEF QuitLast
    <3> QED BY <1>4, <3>2, <3>3
  <2>4. ASSUME server_pc = "handle", msg.type = "QUIT" PROVE ~Asked(msg.sender)'
    <3>1. msg \in Messages
      BY <2>4 DEF IInv, ServerInv
    <3>2. msg.sender # c /\ msg.sender \in Clients
      BY <2>2, <2>4, <3>1, MessageFields DEF Unhandled
    <3>3. ~Asked(msg.sender)
      BY <2>1, <2>4 DEF QuitLast
    <3> QED BY <1>1, <1>4, <3>2, <3>3 DEF Asked, Question
  <2> QED BY <1>1, <2>3, <2>4 DEF QuitLast
<1>18. PlacesInv'
  <2>1. ASSUME NEW d \in Clients \ {c} PROVE PlaceInv(d)'
    <3>1. session_num[d] \in Int /\ session_num'[d] = session_num[d]
      BY <1>1, Constants DEF IInv, TypeOK
    <3>2. Silent(d) => Silent(d)'
      BY <1>1, <1>10 DEF Silent
    <3>3. PlaceInv(d)
      BY DEF IInv, PlacesInv
    <3> QED BY <1>1, <1>3, <1>6, <1>11, <3>1, <3>2, <3>3, PlaceKept
  <2>2. type = "END" => Silent(c)'
    BY <1>1, <1>9, <1>10 DEF Silent, RequestTypes
  <2>3. session_num[c] >= 0 /\ Below(c, session_num[c]) => Below(c, session_num[c])'
    BY <1>1 DEF Below
  <2>4. /\ session_num[c] \in Int
        /\ c \in in_handler => type = "QUIT"
        /\ type = "REGISTER" => session_num[c] = -2
        /\ type # "REGISTER" => session_num[c] >= 0 /\ c \in registered
    BY <1>1, <1>2, <1>9, Constants DEF IInv, TypeOK, PlaceInv, Asking, Ended
  <2>5. PlaceInv(c)'
    BY <1>1, <1>2, <1>3, <1>6, <1>9, <1>11, <2>2, <2>3, <2>4 DEF PlaceInv, Asking, Ended
  <2> QED BY <2>1, <2>5 DEF PlacesInv
<1> QED BY <1>5, <1>7, <1>8, <1>12, <1>15, <1>16, <1>17, <1>18 DEF IInv

(* A client with nothing under way has only an END or a QUIT before the    *)
(* server.                                                                 *)
LEMMA NothingUnderWay ==
  ASSUME IInv, NEW c \in Clients, Silent(c)
  PROVE  /\ \A m \in Messages : Unhandled(m) /\ m.sender = c => m.type \notin RequestTypes
         /\ \A m \in Messages : ~Answered(m, c)
<1>1. \A m \in Messages : Unhandled(m) /\ m.sender = c => m.type \notin RequestTypes
  BY DEF Unhandled, Silent, Asked, Handled, Question
<1>2. \A m \in Messages : ~Answered(m, c)
  BY DEF Answered, Silent, Handled, Question, IInv, ServerInv
<1> QED BY <1>1, <1>2

(* A client takes the answer from its queue, and learns its session number *)
(* from the answer to its REGISTER.                                        *)
LEMMA ClientReceives ==
  ASSUME IInv, NEW c \in Clients, NEW place \in {"prompt", "unlink"}, NEW number,
         queue[c] # <<>>, queue' = [queue EXCEPT ![c] = Tail(queue[c])],
         client_pc[c] \in Waiting, client_pc' = [client_pc EXCEPT ![c] = place],
         session_num' = [session_num EXCEPT ![c] = number],
         number \in -1..MAX_CLIENTS-1,
         number < 0 => c \notin registered,
         number >= 0 => c \in registered /\ Below(c, number),
         place = "prompt" <=> number >= 0,
         UNCHANGED <<server_vars, server_queue, linked, lines, sigint, in_handler>>
  PROVE  IInv'
<1>1. UNCHANGED <<active, clients_data, client_count, server_pc, msg, killed,
                  server_linked>>
  BY DEF server_vars
<1>2. /\ queue' \in [Clients -> Seq(Messages)] /\ queue'[c] = <<>> /\ Len(queue'[c]) = 0
      /\ \A d \in Clients \ {c} : queue'[d] = queue[d]
  <2>1. queue[c] \in Seq(Messages) /\ Len(queue[c]) <= 1 /\ queue \in [Clients -> Seq(Messages)]
    BY DEF IInv, TypeOK, OneQuestion
  <2>2. Tail(queue[c]) \in Seq(Messages) /\ Len(Tail(queue[c])) = Len(queue[c]) - 1
    BY <2>1, HeadTailProperties
  <2>3. Len(queue[c]) = 1
    <3>1. Len(queue[c]) # 0
      BY <2>1, EmptySeq
    <3>2. Len(queue[c]) \in Nat
      BY <2>1, LenProperties
    <3>3. \A k \in Nat : k # 0 /\ k <= 1 => k = 1
      OBVIOUS
    <3> QED BY <2>1, <3>1, <3>2, <3>3
  <2>4. Tail(queue[c]) = <<>>
    <3>1. Len(Tail(queue[c])) = 0
      BY <2>2, <2>3
    <3> QED BY <2>2, <3>1, EmptySeq
  <2> QED BY <2>1, <2>4, EmptySeq
<1>3. /\ client_pc'[c] = place /\ session_num'[c] = number
      /\ \A d \in Clients \ {c} : /\ client_pc'[d] = client_pc[d]
                                  /\ session_num'[d] = session_num[d]
      /\ client_pc' \in [Clients -> {"start", "prompt"} \cup Types \cup Waiting
                                    \cup {"unlink"} \cup Ended]
      /\ session_num' \in [Clients -> -2..MAX_CLIENTS-1]
  <2>1. number \in -2..MAX_CLIENTS-1
    BY Constants
  <2> QED BY <2>1 DEF IInv, TypeOK
<1>4. TypeOK'
  <2>1. \A d \in Clients : Len(queue'[d]) <= MAX_MSGS
    BY <1>2, Constants DEF IInv, TypeOK
  <2> QED BY <1>1, <1>2, <1>3, <2>1 DEF IInv, TypeOK
<1>5. /\ registered' = registered /\ (Closed' <=> Closed)
      /\ \A d \in Clients : \A s \in Int : Below(d, s)' <=> Below(d, s)
  BY <1>1, TableKept DEF Closed
<1>6. ServerInv' /\ TableInv'
  BY <1>1, <1>5 DEF IInv, ServerInv, TableInv, ErrorExitsExplained
<1>7. SignalInv'
  <2> SUFFICES ASSUME NEW i \in 0..killed-1
               PROVE  \/ clients_data[i] \in sigint \cup in_handler
                      \/ client_pc'[clients_data[i]] \in Ended
    BY <1>1 DEF SignalInv
  <2>1. clients_data[i] \in Clients /\ client_pc[c] \notin Ended
    BY Typed DEF Waiting, Ended
  <2> QED BY <1>3, <2>1 DEF IInv, SignalInv
<1>8. \A d \in Clients : (Asked(d)' <=> Asked(d)) /\ (Handled(d)' <=> Handled(d))
  BY <1>1 DEF Asked, Handled
<1>9. ~Asked(c) /\ ~Handled(c) /\ Silent(c)'
  <2>1. ~Asked(c) /\ ~Handled(c)
    BY DEF IInv, OneQuestion
  <2> QED BY <1>2, <1>8, <2>1 DEF Silent
<1>10. OneQuestion'
  BY <1>1, <1>2, <1>8 DEF IInv, OneQuestion
<1>11. QuitLast'
  BY <1>1 DEF IInv, QuitLast, Asked
<1>12. /\ \A m \in Messages : Unhandled(m)' <=> Unhandled(m)
       /\ \A d \in Clients : Quitting(d)' <=> Quitting(d)
  <2>1. \A m \in Messages : Unhandled(m)' <=> Unhandled(m)
    BY <1>1 DEF Unhandled
  <2> QED BY <2>1 DEF Quitting
<1>13. RequestsInv'
  <2> SUFFICES ASSUME NEW m \in Messages, Unhandled(m) PROVE Expected(m)'
    BY <1>12 DEF RequestsInv
  <2>1. Expected(m) /\ m.sender \in Clients /\ m.type \in Types
    BY MessageFields DEF IInv, RequestsInv
  <2>2. CASE m.sender = c
    <3>1. m.type \notin RequestTypes
      BY <1>9, <2>2 DEF Unhandled, Asked, Handled, Question
    <3>2. m.type # "QUIT"
      BY <2>1, <2>2 DEF Expected, Waiting, Ended
    <3> QED BY <3>1, <3>2 DEF Expected, RequestTypes
  <2>3. CASE m.sender # c
    BY <1>3, <1>5, <2>1, <2>3 DEF Expected
  <2> QED BY <2>2, <2>3
<1>14. AnswersInv'
  <2> SUFFICES ASSUME NEW d \in Clients, NEW m \in Messages, Answered(m, d)'
               PROVE  Due(m, d)'
    BY DEF AnswersInv
  <2>1. d # c
    BY <1>1, <1>2, <1>9 DEF Answered, Handled, Question, IInv, ServerInv
  <2>2. Answered(m, d)
    BY <1>1, <1>2, <2>1 DEF Answered
  <2>3. Due(m, d) /\ m.session \in Int
    BY <2>2, MessageFields, Constants DEF IInv, AnswersInv
  <2> QED BY <1>3, <1>5, <2>1, <2>3 DEF Due
<1>15. PlacesInv'
  <2>1. ASSUME NEW d \in Clients \ {c} PROVE PlaceInv(d)'
    <3>1. session_num[d] \in Int
      BY Constants DEF IInv, TypeOK
    <3>2. Silent(d) => Silent(d)'
      BY <1>2, <1>8 DEF Silent
    <3>3. PlaceInv(d)
      BY DEF IInv, PlacesInv
    <3> QED BY <1>1, <1>3, <1>5, <1>12, <3>1, <3>2, <3>3, PlaceKept
  <2>2. Below(c, number) => Below(c, number)'
    BY <1>1 DEF Below
  <2>3. c \notin in_handler
    BY DEF IInv, PlacesInv, PlaceInv, Waiting, Ended
  <2>4. PlaceInv(c)'
    BY <1>1, <1>3, <1>5, <1>9, <2>2, <2>3 DEF PlaceInv, Asking, Ended
  <2> QED BY <2>1, <2>4 DEF PlacesInv
<1> QED BY <1>4, <1>6, <1>7, <1>10, <1>11, <1>13, <1>14, <1>15 DEF IInv

LEMMA ReceiveSessionPreserves ==
  ASSUME IInv, NEW c \in Clients, ReceiveSession(c) PROVE IInv'
<1>1. PICK m \in Messages : queue[c] # <<>> /\ m = Head(queue[c])
  BY HeadTailProperties DEF ReceiveSession, IInv, TypeOK
<1> DEFINE place == IF m.session < 0 THEN "unlink" ELSE "prompt"
<1>2. m.session \in -1..MAX_CLIENTS-1 /\ m.session \in Int
  BY MessageFields, Constants
<1>3. /\ client_pc[c] = "session"
      /\ client_pc' = [client_pc EXCEPT ![c] = place]
      /\ session_num' = [session_num EXCEPT ![c] = m.session]
      /\ queue' = [queue EXCEPT ![c] = Tail(queue[c])]
      /\ UNCHANGED <<server_vars, server_queue, linked, lines, sigint, in_handler>>
  <2>1. m.session < 0 => close_queue(m.session) = "unlink"
    BY <1>2 DEF close_queue
  <2> QED BY <1>1, <2>1 DEF ReceiveSession
<1>4. Due(m, c) /\ session_num[c] = -2
  BY <1>1, <1>3 DEF IInv, AnswersInv, Answered, PlacesInv, PlaceInv
<1>5. /\ m.session < 0 => c \notin registered
      /\ m.session >= 0 => c \in registered /\ Below(c, m.session)
  BY <1>2, <1>4 DEF Due
<1>6. /\ place \in {"prompt", "unlink"} /\ (place = "prompt" <=> m.session >= 0)
      /\ client_pc[c] \in Waiting
  BY <1>2, <1>3 DEF Waiting
<1> QED BY <1>1, <1>2, <1>3, <1>5, <1>6, ClientReceives

LEMMA ReceiveAnswerPreserves ==
  ASSUME IInv, NEW c \in Clients, ReceiveAnswer(c) PROVE IInv'
<1> DEFINE number == session_num[c]
<1>1. /\ client_pc[c] \in {"mirrored", "told"} /\ queue[c] # <<>>
      /\ queue' = [queue EXCEPT ![c] = Tail(queue[c])]
      /\ client_pc' = [client_pc EXCEPT ![c] = "prompt"]
      /\ UNCHANGED <<server_vars, server_queue, session_num, linked, lines, sigint,
                     in_handler>>
  BY DEF ReceiveAnswer
<1>2. /\ number >= 0 /\ number \in -2..MAX_CLIENTS-1
      /\ session_num \in [Clients -> -2..MAX_CLIENTS-1]
      /\ c \in registered /\ Below(c, number)
  BY <1>1 DEF IInv, TypeOK, PlacesInv, PlaceInv
<1>3. session_num' = [session_num EXCEPT ![c] = number]
  BY <1>1, <1>2
<1>4. number \in -1..MAX_CLIENTS-1 /\ ~(number < 0)
  BY <1>2, Constants
<1>5. client_pc[c] \in Waiting
  BY <1>1 DEF Waiting
<1> HIDE DEF number
<1> QED BY <1>1, <1>2, <1>3, <1>4, <1>5, ClientReceives

-------------------------------------------------------------------------------
(* The server's steps that leave its table alone. *)

LEMMA ServerMoves ==
  ASSUME IInv, TypeOK', ServerInv', SignalInv', OneQuestion', QuitLast',
         UNCHANGED <<clients_data, client_count, client_vars>>,
         \A c \in Clients : c \in in_handler' <=> c \in in_handler,
         Closed => Closed',
         \A m \in Messages : Unhandled(m)' => Unhandled(m),
         \A c \in Clients : \A m \in Messages : Answered(m, c)' => Due(m, c),
         \A c \in Clients : Silent(c) => Silent(c)',
         Closed' \/ \A c \in Clients : Quitting(c) => Quitting(c)'
  PROVE  IInv'
<1>1. UNCHANGED <<client_pc, session_num, linked>>
  BY DEF client_vars
<1>2. TableInv'
  BY DEF IInv, TableInv
<1>3. registered' = registered /\ \A c \in Clients : \A s \in Int : Below(c, s)' <=> Below(c, s)
  BY TableKept
<1>4. RequestsInv'
  <2> SUFFICES ASSUME NEW m \in Messages, Unhandled(m) PROVE Expected(m)'
    BY DEF RequestsInv
  <2>1. Expected(m) /\ m.sender \in Clients
    BY MessageFields DEF IInv, RequestsInv
  <2> QED BY <1>1, <1>3, <2>1 DEF Expected
<1>5. AnswersInv'
  <2> SUFFICES ASSUME NEW c \in Clients, NEW m \in Messages, Due(m, c) PROVE Due(m, c)'
    BY DEF AnswersInv
  <2>1. m.session \in Int
    BY MessageFields, Constants
  <2> QED BY <1>1, <1>3, <2>1 DEF Due
<1>6. PlacesInv'
  <2> SUFFICES ASSUME NEW c \in Clients PROVE PlaceInv(c)'
    BY DEF PlacesInv
  <2>1. PlaceInv(c) /\ session_num[c] \in Int
    BY Constants DEF IInv, PlacesInv, TypeOK
  <2> QED BY <1>1, <1>3, <2>1, PlaceKept
<1> QED BY <1>2, <1>4, <1>5, <1>6 DEF IInv

(* Steps after which the server handles nothing any more. *)
LEMMA ClosingPreserves ==
  ASSUME IInv, TypeOK', ServerInv', SignalInv', Closed',
         UNCHANGED <<clients_data, client_count, client_vars, msg, server_queue, queue>>,
         \A c \in Clients : c \in in_handler' <=> c \in in_handler
  PROVE  IInv'
<1>1. server_pc' \notin {"handle", "reply"}
  BY DEF Closed, Ended
<1>2. \A c \in Clients : (Asked(c)' <=> Asked(c)) /\ ~Handled(c)'
  BY <1>1 DEF Asked, Handled
<1>3. OneQuestion'
  BY <1>2 DEF IInv, OneQuestion
<1>4. QuitLast'
  BY <1>1 DEF IInv, QuitLast
<1>5. \A m \in Messages : Unhandled(m)' => Unhandled(m)
  BY <1>1 DEF Unhandled
<1>6. \A c \in Clients : \A m \in Messages : Answered(m, c)' => Answered(m, c)
  BY <1>1 DEF Answered
<1>7. \A c \in Clients : Silent(c) => Silent(c)'
  BY <1>2 DEF Silent
<1> QED BY <1>3, <1>4, <1>5, <1>6, <1>7, ServerMoves DEF IInv, AnswersInv

LEMMA DrainedPreserves == ASSUME IInv, Drained PROVE IInv'
<1>1. /\ server_pc = "loop" /\ server_pc' = "closing" /\ active = 0
      /\ UNCHANGED <<active, clients_data, client_count, msg, killed, server_linked,
                     server_queue, client_vars, queue, sigint, in_handler>>
  BY DEF Drained
<1>2. TypeOK'
  BY <1>1 DEF IInv, TypeOK, client_vars
<1>3. ServerInv' /\ Closed'
  BY <1>1 DEF IInv, ServerInv, ErrorExitsExplained, Closed
<1>4. SignalInv'
  BY <1>1 DEF IInv, SignalInv, client_vars
<1> QED BY <1>1, <1>2, <1>3, <1>4, ClosingPreserves

LEMMA CloseQueuePreserves == ASSUME IInv, CloseQueue PROVE IInv'
<1>1. /\ server_pc = "closing" /\ server_pc' = "gone" /\ killed = client_count
      /\ server_linked' = FALSE
      /\ UNCHANGED <<active, clients_data, client_count, msg, killed,
                     server_queue, client_vars, queue, sigint, in_handler>>
  BY DEF CloseQueue, all_signalled
<1>2. TypeOK'
  BY <1>1 DEF IInv, TypeOK, client_vars, Ended
<1>3. ServerInv' /\ Closed'
  BY <1>1 DEF IInv, ServerInv, ErrorExitsExplained, Closed, Ended
<1>4. SignalInv'
  BY <1>1 DEF IInv, SignalInv, client_vars
<1> QED BY <1>1, <1>2, <1>3, <1>4, ClosingPreserves

LEMMA KillPreserves == ASSUME IInv, Kill PROVE IInv'
<1> DEFINE c == clients_data[killed]
<1>1. /\ server_pc = "closing" /\ killed < client_count /\ killed' = killed + 1
      /\ sigint' = IF client_pc[c] \in Ended THEN sigint ELSE sigint \cup {c}
      /\ UNCHANGED <<active, clients_data, client_count, server_pc, msg, server_linked,
                     server_queue, client_vars, queue, in_handler>>
  BY DEF Kill
<1>2. /\ killed \in Nat /\ client_count \in Nat /\ killed' \in 0..client_count
      /\ c \in Clients
  <2>1. killed \in 0..client_count /\ client_count \in Nat
    BY Typed, Constants
  <2>2. killed \in 0..client_count-1
    BY <1>1, <2>1
  <2> QED BY <1>1, <2>1, <2>2, Typed
<1>3. sigint' \subseteq Clients /\ sigint \subseteq sigint'
  BY <1>1, <1>2 DEF IInv, TypeOK
<1>4. TypeOK'
  BY <1>1, <1>2, <1>3 DEF IInv, TypeOK, client_vars
<1>5. ServerInv' /\ Closed'
  BY <1>1 DEF IInv, ServerInv, ErrorExitsExplained, Closed, Ended
<1>6. SignalInv'
  <2>1. \A i \in 0..killed'-1 : i = killed \/ i \in 0..killed-1
    BY <1>1, <1>2
  <2> SUFFICES ASSUME NEW i \in 0..killed'-1
               PROVE  \/ clients_data[i] \in sigint' \cup in_handler
                      \/ client_pc[clients_data[i]] \in Ended
    BY <1>1 DEF SignalInv, client_vars
  <2>2. CASE i = killed
    BY <1>1, <2>2
  <2>3. CASE i \in 0..killed-1
    BY <1>3, <2>3 DEF IInv, SignalInv
  <2> QED BY <2>1, <2>2, <2>3
<1> QED BY <1>1, <1>4, <1>5, <1>6, ClosingPreserves

LEMMA ServerSigintPreserves == ASSUME IInv, server_sigint_handler PROVE IInv'
<1>1. /\ server_pc \notin Ended /\ active' = 0 /\ in_handler' = in_handler \cup {Server}
      /\ server_pc' = CASE server_pc = "start" -> "gone"
                        [] server_pc = "closing" -> "cut"
                        [] OTHER -> "closing"
      /\ UNCHANGED <<clients_data, client_count, msg, killed, server_linked,
                     server_queue, client_vars, queue, sigint>>
  BY DEF server_sigint_handler
<1>2. /\ server_pc' \in {"gone", "cut", "closing"}
      /\ server_pc' = "gone" => server_pc = "start"
  BY <1>1
<1>3. TypeOK'
  BY <1>1, <1>2, Constants DEF IInv, TypeOK, client_vars, Ended
<1>4. Closed'
  BY <1>2 DEF Closed, Ended
<1>5. ServerInv'
  <2>1. server_pc' = "gone" => killed' = client_count'
    BY <1>1, <1>2 DEF IInv, ServerInv, Closed, Ended
  <2>2. Server \in in_handler'
    BY <1>1
  <2> QED BY <1>2, <1>4, <2>1, <2>2 DEF ServerInv, ErrorExitsExplained
<1>6. SignalInv'
  BY <1>1 DEF IInv, SignalInv, client_vars
<1> QED BY <1>1, <1>3, <1>4, <1>5, <1>6, ClosingPreserves, Constants

LEMMA StartPreserves == ASSUME IInv, Start PROVE IInv'
<1>1. /\ server_pc = "start" /\ server_pc' = "loop" /\ server_linked' = TRUE
      /\ UNCHANGED <<active, clients_data, client_count, msg, killed,
                     server_queue, client_vars, queue, sigint, in_handler>>
  BY DEF Start
<1>2. TypeOK'
  BY <1>1 DEF IInv, TypeOK, client_vars
<1>3. ServerInv' /\ (Closed' <=> Closed)
  BY <1>1 DEF IInv, ServerInv, ErrorExitsExplained, Closed, Ended
<1>4. SignalInv'
  BY <1>1 DEF IInv, SignalInv, client_vars
<1>5. \A c \in Clients : (Asked(c)' <=> Asked(c)) /\ ~Handled(c)'
  BY <1>1 DEF Asked, Handled
<1>6. OneQuestion'
  BY <1>1, <1>5 DEF IInv, OneQuestion
<1>7. QuitLast'
  BY <1>1 DEF IInv, QuitLast
<1>8. \A m \in Messages : Unhandled(m)' <=> Unhandled(m)
  BY <1>1 DEF Unhandled
<1>9. \A c \in Clients : Quitting(c) => Quitting(c)'
  BY <1>8 DEF Quitting
<1>10. \A c \in Clients : \A m \in Messages : Answered(m, c)' => Answered(m, c)
  BY <1>1 DEF Answered
<1>11. \A c \in Clients : Silent(c) => Silent(c)'
  BY <1>1, <1>5 DEF Silent
<1> QED BY <1>1, <1>2, <1>3, <1>4, <1>6, <1>7, <1>8, <1>9, <1>10, <1>11, ServerMoves
        DEF IInv, AnswersInv

(* A message goes from the server's queue to its hands. *)
LEMMA ReceivePreserves == ASSUME IInv, Receive PROVE IInv'
<1>1. /\ server_pc = "loop" /\ server_pc' = "handle" /\ server_queue # <<>>
      /\ msg' = Head(server_queue) /\ server_queue' = Tail(server_queue)
      /\ UNCHANGED <<active, clients_data, client_count, killed, server_linked,
                     client_vars, queue, sigint, in_handler>>
  BY DEF Receive
<1> DEFINE n == Len(server_queue)
<1>2. /\ server_queue' \in Seq(Messages) /\ Len(server_queue') = n - 1 /\ n \in Nat \ {0}
      /\ msg' = server_queue[1] /\ 1 \in 1..n /\ msg' \in Messages
      /\ \A i \in 1..Len(server_queue') :
           i + 1 \in 1..n /\ server_queue'[i] = server_queue[i+1]
      /\ \A i \in 1..n : i # 1 => /\ i - 1 \in 1..Len(server_queue')
                                  /\ server_queue'[i-1] = server_queue[i]
  BY <1>1, Typed, Removed
<1>3. TypeOK'
  <2>1. Len(server_queue') <= MAX_MSGS
    BY <1>2, Constants DEF IInv, TypeOK
  <2> QED BY <1>1, <1>2, <2>1 DEF IInv, TypeOK, client_vars
<1>4. ServerInv' /\ (Closed' <=> Closed) /\ ~Closed
  BY <1>1, <1>2 DEF IInv, ServerInv, ErrorExitsExplained, Closed, Ended
<1>5. SignalInv'
  BY <1>1 DEF IInv, SignalInv, client_vars
<1>6. ASSUME NEW c \in Clients
      PROVE  /\ ~Handled(c)
             /\ Asked(c)' => Asked(c)
             /\ Handled(c)' => Asked(c)
             /\ Handled(c)' => ~Asked(c)'
  <2>1. ~Handled(c)
    BY <1>1 DEF Handled
  <2>2. Asked(c)' => Asked(c)
    BY <1>2 DEF Asked
  <2>3. Handled(c)' => Question(server_queue[1], c)
    BY <1>2 DEF Handled, Question
  <2>4. ASSUME NEW i \in 1..Len(server_queue'), Question(server_queue[1], c),
               Question(server_queue'[i], c)
        PROVE  FALSE
    <3>1. i + 1 \in 1..n /\ i + 1 # 1 /\ Question(server_queue[i+1], c)
      BY <1>2, <2>4
    <3> QED BY <1>2, <2>4, <3>1 DEF IInv, OneQuestion
  <2>5. Asked(c)' => \E i \in 1..Len(server_queue') : Question(server_queue'[i], c)
    BY DEF Asked, Question
  <2> QED BY <1>2, <2>1, <2>2, <2>3, <2>4, <2>5 DEF Asked
<1>7. OneQuestion'
  <2> SUFFICES ASSUME NEW c \in Clients
               PROVE  /\ \A i, j \in 1..Len(server_queue') :
                           Question(server_queue'[i], c) /\ Question(server_queue'[j], c)
                           => i = j
                      /\ Asked(c)' => ~Handled(c)' /\ queue[c] = <<>>
                      /\ Handled(c)' => queue[c] = <<>>
                      /\ Len(queue[c]) <= 1
    BY <1>1 DEF OneQuestion, Question
  <2>1. OneQuestion
    BY DEF IInv
  <2>2. ASSUME NEW i \in 1..Len(server_queue'), NEW j \in 1..Len(server_queue'),
               Question(server_queue'[i], c), Question(server_queue'[j], c)
        PROVE  i = j
    <3>1. /\ i + 1 \in 1..n /\ j + 1 \in 1..n
          /\ Question(server_queue[i+1], c) /\ Question(server_queue[j+1], c)
      BY <1>2, <2>2
    <3>2. i + 1 = j + 1
      BY <2>1, <3>1 DEF OneQuestion
    <3> QED BY <3>2
  <2> QED BY <1>6, <2>1, <2>2 DEF OneQuestion
<1>8. QuitLast'
  <2>1. QuitLast
    BY DEF IInv
  <2>2. ASSUME NEW i \in 1..Len(server_queue'), NEW j \in 1..Len(server_queue'),
               i < j, server_queue'[i].type = "QUIT",
               server_queue'[i].sender = server_queue'[j].sender
        PROVE  server_queue'[j].type \notin RequestTypes
    <3>1. /\ i + 1 \in 1..n /\ j + 1 \in 1..n /\ i + 1 < j + 1
          /\ server_queue'[i] = server_queue[i+1] /\ server_queue'[j] = server_queue[j+1]
      BY <1>2, <2>2
    <3> QED BY <2>1, <2>2, <3>1 DEF QuitLast
  <2>3. ASSUME msg'.type = "QUIT", NEW j \in 1..Len(server_queue')
        PROVE  ~Question(server_queue'[j], msg'.sender)
    <3>1. /\ j + 1 \in 1..n /\ 1 < j + 1 /\ server_queue'[j] = server_queue[j+1]
      BY <1>2, <2>3
    <3> QED BY <1>2, <2>1, <2>3, <3>1 DEF QuitLast, Question
  <2> QED BY <1>1, <2>2, <2>3 DEF QuitLast, Asked, Question
<1>9. \A m \in Messages : Unhandled(m)' <=> Unhandled(m)
  <2> TAKE m \in Messages
  <2>1. ASSUME NEW i \in 1..n, server_queue[i] = m PROVE Unhandled(m)'
    BY <1>1, <1>2, <2>1 DEF Unhandled
  <2>2. Unhandled(m)' => Unhandled(m)
    BY <1>1, <1>2 DEF Unhandled
  <2> QED BY <1>1, <2>1, <2>2 DEF Unhandled
<1>10. \A c \in Clients : Quitting(c) => Quitting(c)'
  BY <1>9 DEF Quitting
<1>11. \A c \in Clients : \A m \in Messages : Answered(m, c)' => Answered(m, c)
  BY <1>1 DEF Answered
<1>12. \A c \in Clients : Silent(c) => Silent(c)'
  BY <1>1, <1>6 DEF Silent
<1> QED BY <1>1, <1>3, <1>4, <1>5, <1>7, <1>8, <1>9, <1>10, <1>11, <1>12, ServerMoves
        DEF IInv, AnswersInv

(* Steps after which the server takes the next message. *)
LEMMA BackToLoop ==
  ASSUME IInv, ~Closed, back_to_loop, active' \in {0, 1},
         UNCHANGED <<clients_data, client_count, killed, server_linked, server_queue,
                     client_vars, queue, sigint, in_handler>>,
         server_pc = "handle",
         \A c \in Clients : ~Handled(c),
         msg.type # "QUIT"
  PROVE  IInv'
<1>1. server_pc' = "loop" /\ msg' = NoMessage
  BY DEF back_to_loop
<1>2. TypeOK'
  BY <1>1 DEF IInv, TypeOK, client_vars
<1>3. ServerInv' /\ (Closed' <=> Closed)
  BY <1>1 DEF IInv, ServerInv, ErrorExitsExplained, Closed, Ended
<1>4. SignalInv'
  BY DEF IInv, SignalInv, client_vars
<1>5. \A c \in Clients : (Asked(c)' <=> Asked(c)) /\ ~Handled(c)'
  BY <1>1 DEF Asked, Handled
<1>6. OneQuestion'
  BY <1>5 DEF IInv, OneQuestion
<1>7. QuitLast'
  BY <1>1 DEF IInv, QuitLast
<1>8. \A m \in Messages : Unhandled(m)' => Unhandled(m)
  BY <1>1 DEF Unhandled
<1>9. \A c \in Clients : Quitting(c) => Quitting(c)'
  BY DEF Quitting, Unhandled
<1>10. \A c \in Clients : \A m \in Messages : Answered(m, c)' => Answered(m, c)
  BY <1>1 DEF Answered
<1>11. \A c \in Clients : Silent(c) => Silent(c)'
  BY <1>5 DEF Silent
<1> QED BY <1>2, <1>3, <1>4, <1>6, <1>7, <1>8, <1>9, <1>10, <1>11, ServerMoves
        DEF IInv, AnswersInv

LEMMA HandleEndPreserves ==
  ASSUME IInv, dispatch_request, handle_end PROVE IInv'
<1>1. /\ server_pc = "handle" /\ msg.type = "END" /\ active' = 0 /\ back_to_loop
      /\ UNCHANGED <<clients_data, client_count, killed, server_linked, server_queue,
                     client_vars, queue, sigint, in_handler>>
  BY DEF dispatch_request, handle_end
<1>2. ~Closed /\ \A c \in Clients : ~Handled(c)
  BY <1>1 DEF Closed, Ended, Handled, Question, RequestTypes
<1> QED BY <1>1, <1>2, BackToLoop

(* The sender of a MIRROR or TIME is in the table: it is always answered. *)
LEMMA HandleQuestionPreserves ==
  ASSUME IInv, dispatch_request, handle_question PROVE IInv'
<1>1. /\ server_pc = "handle" /\ msg.type \in {"MIRROR", "TIME"}
      /\ msg.sender \in registered => server_pc' = "reply" /\ msg' = msg
      /\ UNCHANGED <<active, clients_data, client_count, killed, server_linked,
                     server_queue, client_vars, queue, sigint, in_handler>>
  BY DEF dispatch_request, handle_question
<1>2. msg \in Messages /\ Expected(msg) /\ msg.sender \in Clients
  <2>1. msg \in Messages
    BY <1>1 DEF IInv, ServerInv
  <2> QED BY <1>1, <2>1, MessageFields DEF IInv, RequestsInv, Unhandled
<1>3. /\ msg.sender \in registered /\ session_num[msg.sender] >= 0
      /\ server_pc' = "reply" /\ msg' = msg
  BY <1>1, <1>2 DEF Expected
<1>4. TypeOK'
  BY <1>1, <1>3 DEF IInv, TypeOK, client_vars
<1>5. ServerInv' /\ (Closed' <=> Closed)
  BY <1>1, <1>2, <1>3 DEF IInv, ServerInv, ErrorExitsExplained, Closed, Ended, RequestTypes
<1>6. SignalInv'
  BY <1>1 DEF IInv, SignalInv, client_vars
<1>7. \A c \in Clients : (Asked(c)' <=> Asked(c)) /\ (Handled(c)' <=> Handled(c))
  BY <1>1, <1>3 DEF Asked, Handled
<1>8. OneQuestion'
  BY <1>1, <1>7 DEF IInv, OneQuestion
<1>9. QuitLast'
  BY <1>1, <1>3 DEF IInv, QuitLast
<1>10. \A m \in Messages : Unhandled(m)' => Unhandled(m)
  BY <1>1, <1>3 DEF Unhandled
<1>11. \A c \in Clients : Quitting(c) => Quitting(c)'
  BY <1>1, <1>3 DEF Quitting, Unhandled
<1>12. Due(msg, msg.sender)
  BY <1>1, <1>3 DEF Due, RequestTypes
<1>13. \A c \in Clients : \A m \in Messages : Answered(m, c)' => Due(m, c)
  BY <1>1, <1>3, <1>12 DEF Answered, IInv, AnswersInv
<1>14. \A c \in Clients : Silent(c) => Silent(c)'
  BY <1>1, <1>7 DEF Silent
<1> QED BY <1>1, <1>4, <1>5, <1>6, <1>8, <1>9, <1>10, <1>11, <1>13, <1>14, ServerMoves

(* The answer goes from the server's hands to the client's empty queue. *)
LEMMA ReplyPreserves == ASSUME IInv, Reply PROVE IInv'
<1> DEFINE d == msg.sender
<1>1. /\ server_pc = "reply" /\ server_pc' = "loop" /\ msg' = NoMessage
      /\ queue' = [queue EXCEPT ![d] = Append(queue[d], msg)]
      /\ UNCHANGED <<active, clients_data, client_count, killed, server_linked,
                     server_queue, client_vars, sigint, in_handler>>
  BY DEF Reply, back_to_loop
<1>2. msg \in Messages /\ msg.type \in RequestTypes /\ d \in Clients
  BY <1>1, MessageFields DEF IInv, ServerInv
<1>3. Handled(d) /\ queue[d] = <<>> /\ ~Asked(d)
  BY <1>1, <1>2 DEF IInv, OneQuestion, Handled, Question
<1>4. /\ queue' \in [Clients -> Seq(Messages)]
      /\ queue'[d] = <<msg>> /\ Len(queue'[d]) = 1 /\ Head(queue'[d]) = msg
      /\ queue'[d] # <<>>
      /\ \A c \in Clients \ {d} : queue'[c] = queue[c]
  <2>1. queue \in [Clients -> Seq(Messages)]
    BY DEF IInv, TypeOK
  <2>2. Append(queue[d], msg) = <<msg>>
    BY <1>3
  <2>3. <<msg>> \in Seq(Messages) /\ Len(<<msg>>) = 1 /\ Head(<<msg>>) = msg
    BY <1>2
  <2> QED BY <1>1, <1>2, <2>1, <2>2, <2>3
<1>5. TypeOK'
  <2>1. \A c \in Clients \ {d} : Len(queue'[c]) <= MAX_MSGS
    BY <1>4 DEF IInv, TypeOK
  <2>2. Len(queue'[d]) <= MAX_MSGS
    BY <1>4, Constants
  <2> QED BY <1>1, <1>4, <2>1, <2>2 DEF IInv, TypeOK, client_vars
<1>6. ServerInv' /\ (Closed' <=> Closed)
  BY <1>1 DEF IInv, ServerInv, ErrorExitsExplained, Closed, Ended
<1>7. SignalInv'
  BY <1>1 DEF IInv, SignalInv, client_vars
<1>8. \A c \in Clients : (Asked(c)' <=> Asked(c)) /\ ~Handled(c)'
  BY <1>1 DEF Asked, Handled
<1>9. OneQuestion'
  <2> SUFFICES ASSUME NEW c \in Clients
               PROVE  /\ \A i, j \in 1..Len(server_queue) :
                           Question(server_queue[i], c) /\ Question(server_queue[j], c)
                           => i = j
                      /\ Asked(c) => queue'[c] = <<>>
                      /\ Len(queue'[c]) <= 1
    BY <1>1, <1>8 DEF OneQuestion
  <2>1. \A i, j \in 1..Len(server_queue) :
          Question(server_queue[i], c) /\ Question(server_queue[j], c) => i = j
    BY DEF IInv, OneQuestion
  <2>2. CASE c = d
    <3>1. Len(queue'[c]) = 1 /\ ~Asked(c)
      BY <1>3, <1>4, <2>2
    <3> QED BY <2>1, <3>1
  <2>3. CASE c # d
    BY <1>4, <2>1, <2>3 DEF IInv, OneQuestion
  <2> QED BY <2>2, <2>3
<1>10. QuitLast'
  BY <1>1 DEF IInv, QuitLast
<1>11. \A m \in Messages : Unhandled(m)' <=> Unhandled(m)
  BY <1>1 DEF Unhandled
<1>12. \A c \in Clients : Quitting(c) => Quitting(c)'
  BY <1>11 DEF Quitting
<1>13. \A c \in Clients : \A m \in Messages : Answered(m, c)' => Answered(m, c)
  BY <1>1, <1>4 DEF Answered
<1>14. \A c \in Clients : Silent(c) => Silent(c)'
  BY <1>3, <1>4, <1>8 DEF Silent
<1> QED BY <1>1, <1>5, <1>6, <1>7, <1>9, <1>10, <1>11, <1>12, <1>13, <1>14, ServerMoves
        DEF IInv, AnswersInv

-------------------------------------------------------------------------------
(* The steps that change the table. *)

(* What the REGISTER in the server's hands says. *)
LEMMA Registering ==
  ASSUME IInv, server_pc = "handle", msg.type = "REGISTER"
  PROVE  /\ msg \in Messages /\ msg.sender \in Clients
         /\ msg.sender \notin registered /\ session_num[msg.sender] = -2
         /\ msg.sender \in linked \cup in_handler
         /\ queue[msg.sender] = <<>> /\ ~Asked(msg.sender) /\ Handled(msg.sender)
<1>1. msg \in Messages /\ msg.sender \in Clients
  BY MessageFields DEF IInv, ServerInv
<1>2. Expected(msg)
  BY <1>1 DEF IInv, RequestsInv, Unhandled
<1>3. Handled(msg.sender)
  BY DEF Handled, Question, RequestTypes
<1>4. queue[msg.sender] = <<>> /\ ~Asked(msg.sender)
  BY <1>1, <1>3 DEF IInv, OneQuestion
<1> QED BY <1>1, <1>2, <1>3, <1>4 DEF Expected

LEMMA RefusePreserves ==
  ASSUME IInv, server_pc = "handle", msg.type = "REGISTER", server_pc' = "reply",
         msg' = Message("REGISTER", msg.sender, -1),
         UNCHANGED <<active, clients_data, client_count, killed, server_linked,
                     server_queue, client_vars, queue, sigint, in_handler>>
  PROVE  IInv'
<1> DEFINE d == msg.sender
<1>1. /\ d \in Clients /\ d \notin registered /\ session_num[d] = -2
      /\ queue[d] = <<>> /\ ~Asked(d) /\ Handled(d)
  BY Registering
<1>2. /\ msg' \in Messages /\ msg'.type = "REGISTER" /\ msg'.sender = d
      /\ msg'.session = -1
  <2>1. -1 \in -1..MAX_CLIENTS-1 /\ "REGISTER" \in Types
    BY Constants DEF Types
  <2> QED BY <1>1, <2>1, MessageFields
<1>3. TypeOK'
  BY <1>2 DEF IInv, TypeOK, client_vars
<1>4. ServerInv' /\ (Closed' <=> Closed)
  BY <1>2 DEF IInv, ServerInv, ErrorExitsExplained, Closed, Ended, RequestTypes
<1>5. SignalInv'
  BY DEF IInv, SignalInv, client_vars
<1>6. \A c \in Clients : (Asked(c)' <=> Asked(c)) /\ (Handled(c)' <=> Handled(c))
  BY <1>2 DEF Asked, Handled, Question
<1>7. OneQuestion'
  BY <1>6 DEF IInv, OneQuestion
<1>8. QuitLast'
  BY DEF IInv, QuitLast
<1>9. \A m \in Messages : Unhandled(m)' => Unhandled(m)
  BY DEF Unhandled
<1>10. \A c \in Clients : Quitting(c) => Quitting(c)'
  BY DEF Quitting, Unhandled
<1>11. ASSUME NEW c \in Clients, NEW m \in Messages, Answered(m, c)'
       PROVE  Due(m, c)
  <2>1. CASE server_pc' = "reply" /\ msg' = m /\ m.sender = c
    BY <1>1, <1>2, <2>1 DEF Due, RequestTypes
  <2>2. CASE queue[c] # <<>> /\ Head(queue[c]) = m
    BY <2>2 DEF IInv, AnswersInv, Answered
  <2> QED BY <1>11, <2>1, <2>2 DEF Answered
<1>12. \A c \in Clients : Silent(c) => Silent(c)'
  BY <1>6 DEF Silent
<1> QED BY <1>3, <1>4, <1>5, <1>7, <1>8, <1>9, <1>10, <1>11, <1>12, ServerMoves

LEMMA AdmitPreserves ==
  ASSUME IInv, server_pc = "handle", msg.type = "REGISTER", server_pc' = "reply",
         client_count <= MAX_CLIENTS - 1,
         clients_data' = [clients_data EXCEPT ![client_count] = msg.sender],
         client_count' = client_count + 1,
         msg' = Message("REGISTER", msg.sender, client_count),
         UNCHANGED <<active, killed, server_linked, server_queue, client_vars, queue,
                     sigint, in_handler>>
  PROVE  /\ IInv' /\ registered' = registered \cup {msg.sender}
<1>1. PICK d \in Clients : d = msg.sender
  BY Registering
<1>2. /\ d \notin registered /\ session_num[d] = -2
      /\ queue[d] = <<>> /\ ~Asked(d) /\ Handled(d)
  BY <1>1, Registering
<1>3. PICK n \in 0..MAX_CLIENTS-1 : n = client_count
  BY Typed, Constants
<1>4. /\ msg' \in Messages /\ msg'.type = "REGISTER" /\ msg'.sender = d
      /\ msg'.session = n /\ n \in Int
  <2>1. n \in -1..MAX_CLIENTS-1 /\ "REGISTER" \in Types /\ n \in Int
    BY Constants DEF Types
  <2> QED BY <1>1, <1>3, <2>1, MessageFields
<1>5. UNCHANGED <<client_pc, session_num, linked>> /\ server_pc # "reply"
  BY DEF client_vars
<1>6. /\ clients_data' \in [Places -> Clients \cup {NoClient}]
      /\ clients_data'[n] = d
      /\ \A i \in 0..n-1 : clients_data'[i] = clients_data[i]
      /\ client_count' = n + 1 /\ n + 1 \in 0..MAX_CLIENTS
      /\ \A i \in 0..n : i = n \/ i \in 0..n-1
      /\ \A i \in 0..n-1 : i \in 0..n /\ clients_data[i] # d
  <2>1. clients_data \in [Places -> Clients \cup {NoClient}] /\ n \in Places
    BY DEF IInv, TypeOK, Places
  <2>2. \A i \in 0..n-1 : i \in Places /\ i # n
    BY Constants DEF Places
  <2>3. \A i \in 0..n-1 : clients_data[i] # d
    BY <1>2, <1>3 DEF registered
  <2>4. n + 1 \in 0..MAX_CLIENTS /\ \A i \in 0..n : i = n \/ i \in 0..n-1
    BY Constants
  <2> QED BY <1>1, <1>3, <2>1, <2>2, <2>3, <2>4
<1>7. killed = 0 /\ ~Closed /\ ~Closed'
  BY DEF IInv, ServerInv, Closed, Ended
<1>8. TypeOK'
  <2>1. killed' \in 0..client_count'
    BY <1>6, <1>7
  <2> QED BY <1>4, <1>5, <1>6, <2>1 DEF IInv, TypeOK, client_vars
<1>9. ServerInv'
  BY <1>4, <1>7 DEF ServerInv, ErrorExitsExplained, RequestTypes
<1>10. SignalInv'
  BY <1>7 DEF SignalInv
<1>11. client_count'-1 = n
  BY <1>6
<1>12. TableInv'
  BY <1>3, <1>6, <1>11 DEF IInv, TableInv
<1>13. registered' = registered \cup {d}
  <2>1. registered' = {clients_data'[i] : i \in 0..n}
    BY <1>11 DEF registered
  <2>2. registered = {clients_data[i] : i \in 0..n-1}
    BY <1>3 DEF registered
  <2>3. n \in 0..n
    OBVIOUS
  <2> QED BY <1>6, <2>1, <2>2, <2>3
<1>14. /\ \A c \in Clients \ {d} : \A s \in Int : Below(c, s)' <=> Below(c, s)
       /\ Below(d, n)'
  <2>1. \A i \in 0..n : i <= n
    OBVIOUS
  <2>2. \A c \in Clients \ {d} : \A s \in Int : Below(c, s)' <=> Below(c, s)
    BY <1>3, <1>6, <1>11 DEF Below
  <2>3. Below(d, n)'
    BY <1>11, <2>1 DEF Below
  <2> QED BY <2>2, <2>3
<1>15. \A c \in Clients : (Asked(c)' <=> Asked(c)) /\ (Handled(c)' <=> Handled(c))
  BY <1>1, <1>4 DEF Asked, Handled, Question
<1>16. OneQuestion'
  BY <1>15 DEF IInv, OneQuestion
<1>17. QuitLast'
  BY DEF IInv, QuitLast
<1>18. RequestsInv'
  <2> SUFFICES ASSUME NEW m \in Messages, Unhandled(m)' PROVE Expected(m)'
    BY DEF RequestsInv
  <2>1. Unhandled(m) /\ (m.type \in RequestTypes => m.sender # d)
    BY <1>2 DEF Unhandled, Asked, Question
  <2>2. Expected(m)
    BY <2>1 DEF IInv, RequestsInv
  <2> QED BY <1>5, <1>13, <2>1, <2>2 DEF Expected, RequestTypes
<1>19. AnswersInv'
  <2> SUFFICES ASSUME NEW c \in Clients, NEW m \in Messages, Answered(m, c)'
               PROVE  Due(m, c)'
    BY DEF AnswersInv
  <2>1. CASE m.sender = c /\ msg' = m
    <3>1. m.type = "REGISTER" /\ c = d /\ m.session = n /\ ~(n < 0)
      BY <1>4, <2>1
    <3> QED BY <1>2, <1>5, <1>13, <1>14, <3>1 DEF Due, RequestTypes
  <2>2. CASE queue[c] # <<>> /\ Head(queue[c]) = m
    <3>1. Due(m, c) /\ c # d /\ m.session \in Int
      BY <1>2, <2>2, MessageFields, Constants DEF IInv, AnswersInv, Answered
    <3> QED BY <1>5, <1>13, <1>14, <3>1 DEF Due
  <2> QED BY <2>1, <2>2 DEF Answered
<1>20. PlacesInv'
  <2>1. ASSUME NEW c \in Clients \ {d} PROVE PlaceInv(c)'
    <3>1. PlaceInv(c) /\ session_num[c] \in Int
      BY Constants DEF IInv, PlacesInv, TypeOK
    <3>2. Silent(c) => Silent(c)'
      BY <1>15 DEF Silent
    <3>3. Quitting(c) => Quitting(c)'
      BY DEF Quitting, Unhandled
    <3> QED BY <1>5, <1>7, <1>13, <1>14, <3>1, <3>2, <3>3, PlaceKept
  <2>2. /\ ~Silent(d) /\ PlaceInv(d)
    BY <1>2 DEF Silent, IInv, PlacesInv
  <2>3. client_pc[d] \notin {"start", "REGISTER"} \cup Asking \cup {"mirrored", "told", "QUIT"}
    BY <1>2, <2>2 DEF PlaceInv
  <2>4. PlaceInv(d)'
    BY <1>2, <1>5, <2>2, <2>3 DEF PlaceInv
  <2> QED BY <2>1, <2>4 DEF PlacesInv
<1> QED BY <1>1, <1>8, <1>9, <1>10, <1>12, <1>13, <1>16, <1>17, <1>18, <1>19, <1>20 DEF IInv

LEMMA HandleRegisterPreserves ==
  ASSUME IInv, dispatch_request, handle_register PROVE IInv'
<1>1. /\ server_pc = "handle" /\ msg.type = "REGISTER"
      /\ UNCHANGED <<active, killed, server_linked, server_queue, client_vars, queue,
                     sigint, in_handler>>
  BY DEF dispatch_request, handle_register
<1>2. CASE /\ msg.sender \notin linked /\ server_pc' = "closing"
           /\ UNCHANGED <<clients_data, client_count, msg>>
  <2>1. msg.sender \in in_handler /\ Closed'
    BY <1>1, <1>2, Registering DEF Closed
  <2>2. TypeOK'
    BY <1>1, <1>2 DEF IInv, TypeOK, client_vars
  <2>3. msg # NoMessage
    BY <1>1, MessageFields
  <2>4. ServerInv'
    BY <1>1, <1>2, <2>1, <2>3 DEF ServerInv, ErrorExitsExplained
  <2>5. SignalInv'
    BY <1>1, <1>2 DEF IInv, SignalInv, client_vars
  <2> QED BY <1>1, <1>2, <2>1, <2>2, <2>4, <2>5, ClosingPreserves
<1>3. CASE /\ table_full /\ server_pc' = "reply"
           /\ msg' = Message("REGISTER", msg.sender, -1)
           /\ UNCHANGED <<clients_data, client_count>>
  BY <1>1, <1>3, RefusePreserves
<1>4. CASE /\ ~table_full /\ server_pc' = "reply"
           /\ clients_data' = [clients_data EXCEPT ![client_count] = msg.sender]
           /\ client_count' = client_count + 1
           /\ msg' = Message("REGISTER", msg.sender, session_given)
  <2>1. client_count <= MAX_CLIENTS - 1
    BY <1>4, Typed, Constants DEF table_full
  <2> QED BY <1>1, <1>4, <2>1, AdmitPreserves DEF session_given
<1> QED BY <1>2, <1>3, <1>4 DEF handle_register

(* handle_quit removes the entry of the sender, if there is one: entries   *)
(* only move down, and nobody else's is lost.                              *)
LEMMA QuitRemoves ==
  ASSUME IInv, dispatch_request, handle_quit
  PROVE  /\ clients_data' \in [Places -> Clients \cup {NoClient}]
         /\ client_count' \in 0..client_count
         /\ registered' = registered \ {msg.sender}
         /\ TableInv'
         /\ \A c \in Clients : \A s \in Int : Below(c, s) => Below(c, s)'
<1> DEFINE n == client_count  d == msg.sender
<1>1. /\ TableInv /\ n \in 0..MAX_CLIENTS /\ n \in Nat
      /\ clients_data \in [Places -> Clients \cup {NoClient}]
  BY Constants DEF IInv, TypeOK
<1>2. CASE d \notin registered
  <2>1. UNCHANGED <<clients_data, client_count>>
    BY <1>2 DEF handle_quit
  <2> QED BY <1>1, <1>2, <2>1, TableKept DEF TableInv
<1>3. CASE d \in registered
  <2>1. PICK k \in 0..n-1 : /\ clients_data[k] = d
                            /\ \A j \in 0..k-1 : clients_data[j] # d
                            /\ k = first(d)
    <3>1. PICK i \in 0..n-1 : clients_data[i] = d
      BY <1>3 DEF registered
    <3>2. \A j \in 0..i-1 : j \in 0..n-1 /\ j # i
      BY <1>1
    <3>3. \A j \in 0..i-1 : clients_data[j] # d
      BY <1>1, <3>1, <3>2 DEF TableInv
    <3> QED BY <3>1, <3>3 DEF first
  <2>2. /\ clients_data' = [j \in Places |-> IF k <= j /\ j < n - 1 THEN clients_data[j+1]
                                                                   ELSE clients_data[j]]
        /\ client_count' = n - 1
    BY <1>3, <2>1 DEF handle_quit, remove
  <2> DEFINE old(j) == IF k <= j THEN j + 1 ELSE j
  <2>3. \A j \in 0..n-2 : /\ old(j) \in 0..n-1 /\ old(j) # k /\ j <= old(j)
                          /\ j \in Places /\ j < n - 1
    BY <1>1, <2>1, Constants DEF Places
  <2>4. \A i, j \in 0..n-2 : old(i) = old(j) => i = j
    BY <1>1, <2>1
  <2>5. \A i \in 0..n-1 : i # k => \E j \in 0..n-2 : old(j) = i
    <3> TAKE i \in 0..n-1
    <3>1. CASE i < k
      <4>1. i \in 0..n-2 /\ old(i) = i
        BY <1>1, <2>1, <3>1
      <4> QED BY <4>1
    <3>2. CASE i > k
      <4>1. i-1 \in 0..n-2 /\ old(i-1) = i
        BY <1>1, <2>1, <3>2
      <4> QED BY <4>1
    <3> QED BY <1>1, <2>1, <3>1, <3>2
  <2>6. \A j \in 0..n-2 : clients_data'[j] = clients_data[old(j)]
    BY <2>2, <2>3
  <2>7. client_count'-1 = n-2 /\ client_count' \in 0..n
    BY <1>1, <2>1, <2>2
  <2>8. clients_data' \in [Places -> Clients \cup {NoClient}]
    <3>1. \A j \in Places : j < n - 1 => j + 1 \in Places
      BY <1>1, Constants DEF Places
    <3> QED BY <1>1, <2>2, <3>1
  <2> HIDE DEF old
  <2>9. TableInv'
    <3>1. \A j \in 0..n-2 : clients_data'[j] \in Clients
      BY <1>1, <2>3, <2>6 DEF TableInv
    <3>2. ASSUME NEW i \in 0..n-2, NEW j \in 0..n-2, clients_data'[i] = clients_data'[j]
          PROVE  i = j
      <4>1. old(i) = old(j)
        BY <1>1, <2>3, <2>6, <3>2 DEF TableInv
      <4> QED BY <2>4, <4>1
    <3> QED BY <2>7, <3>1, <3>2 DEF TableInv
  <2>10. registered' = registered \ {d}
    <3>1. registered' = {clients_data'[j] : j \in 0..n-2}
      BY <2>7 DEF registered
    <3>2. registered = {clients_data[i] : i \in 0..n-1}
      BY DEF registered
    <3>3. \A i \in 0..n-1 : i # k => clients_data[i] # d
      BY <1>1, <2>1 DEF TableInv
    <3>4. ASSUME NEW j \in 0..n-2 PROVE clients_data'[j] \in registered \ {d}
      BY <2>3, <2>6, <3>2, <3>3
    <3>5. ASSUME NEW c \in registered \ {d} PROVE c \in registered'
      <4>1. PICK i \in 0..n-1 : c = clients_data[i] /\ i # k
        BY <2>1, <3>2, <3>5
      <4>2. PICK j \in 0..n-2 : old(j) = i
        BY <2>5, <4>1
      <4> QED BY <2>6, <3>1, <4>1, <4>2
    <3> QED BY <3>1, <3>4, <3>5
  <2>11. ASSUME NEW c \in Clients, NEW s \in Int, Below(c, s) PROVE Below(c, s)'
    <3> SUFFICES ASSUME NEW j \in 0..n-2, clients_data'[j] = c PROVE j <= s
      BY <2>7 DEF Below
    <3>1. old(j) \in 0..n-1 /\ clients_data[old(j)] = c /\ j <= old(j)
      BY <2>3, <2>6
    <3>2. old(j) <= s
      BY <2>11, <3>1 DEF Below
    <3> QED BY <3>1, <3>2
  <2> QED BY <2>7, <2>8, <2>9, <2>10, <2>11
<1> QED BY <1>2, <1>3

LEMMA HandleQuitPreserves ==
  ASSUME IInv, dispatch_request, handle_quit PROVE IInv'
<1>1. /\ server_pc = "handle" /\ server_pc' = "loop" /\ msg.type = "QUIT"
      /\ msg' = NoMessage
      /\ UNCHANGED <<active, killed, server_linked, server_queue, client_vars, queue,
                     sigint, in_handler>>
      /\ UNCHANGED <<client_pc, session_num, linked>>
  BY DEF dispatch_request, handle_quit, back_to_loop, client_vars
<1>2. PICK d \in Clients : d = msg.sender
  BY <1>1, MessageFields DEF IInv, ServerInv
<1>3. /\ session_num[d] >= 0 /\ client_pc[d] \in {"unlink"} \cup Ended
      /\ ~Asked(d) /\ session_num[d] \in Int
  <2>1. msg \in Messages /\ Unhandled(msg)
    BY <1>1 DEF IInv, ServerInv, Unhandled
  <2> QED BY <1>1, <1>2, <2>1, Constants
          DEF IInv, RequestsInv, Expected, QuitLast, TypeOK
<1>4. /\ clients_data' \in [Places -> Clients \cup {NoClient}]
      /\ client_count' \in 0..client_count
      /\ registered' = registered \ {d}
      /\ TableInv'
      /\ \A c \in Clients : \A s \in Int : Below(c, s) => Below(c, s)'
  BY <1>2, QuitRemoves
<1>5. killed = 0 /\ ~Closed /\ ~Closed' /\ client_count' \in 0..MAX_CLIENTS
      /\ killed' \in 0..client_count'
  <2>1. killed = 0 /\ ~Closed /\ ~Closed'
    BY <1>1 DEF IInv, ServerInv, Closed, Ended
  <2> QED BY <1>1, <1>4, <2>1, Typed, Constants
<1>6. TypeOK'
  BY <1>1, <1>4, <1>5 DEF IInv, TypeOK, client_vars
<1>7. ServerInv' /\ SignalInv'
  BY <1>1, <1>5 DEF ServerInv, ErrorExitsExplained, SignalInv
<1>8. \A c \in Clients : (Asked(c)' <=> Asked(c)) /\ ~Handled(c)'
  BY <1>1 DEF Asked, Handled
<1>9. OneQuestion'
  BY <1>1, <1>8 DEF IInv, OneQuestion
<1>10. QuitLast'
  BY <1>1 DEF IInv, QuitLast
<1>11. /\ \A m \in Messages : Unhandled(m)' => Unhandled(m)
       /\ \A c \in Clients \ {d} : Quitting(c) => Quitting(c)'
       /\ \A m \in Messages : Unhandled(m)' /\ m.type \in RequestTypes => m.sender # d
  <2>1. \A m \in Messages : Unhandled(m)' => Unhandled(m)
    BY <1>1 DEF Unhandled
  <2>2. \A c \in Clients \ {d} : Quitting(c) => Quitting(c)'
    BY <1>1, <1>2 DEF Quitting, Unhandled
  <2>3. \A m \in Messages : Unhandled(m)' /\ m.type \in RequestTypes => m.sender # d
    BY <1>1, <1>3 DEF Unhandled, Asked, Question
  <2> QED BY <2>1, <2>2, <2>3
<1>12. RequestsInv'
  <2> SUFFICES ASSUME NEW m \in Messages, Unhandled(m)' PROVE Expected(m)'
    BY DEF RequestsInv
  <2>1. Expected(m)
    BY <1>11 DEF IInv, RequestsInv
  <2> QED BY <1>1, <1>4, <1>11, <2>1 DEF Expected, RequestTypes
<1>13. AnswersInv'
  <2> SUFFICES ASSUME NEW c \in Clients, NEW m \in Messages, Answered(m, c)'
               PROVE  Due(m, c)'
    BY DEF AnswersInv
  <2>1. Due(m, c) /\ m.session \in Int
    <3>1. Answered(m, c)
      BY <1>1 DEF Answered
    <3> QED BY <3>1, MessageFields, Constants DEF IInv, AnswersInv
  <2>2. c = d => m.type # "REGISTER"
    BY <1>3, <2>1 DEF Due
  <2> QED BY <1>1, <1>4, <2>1, <2>2 DEF Due
<1>14. PlacesInv'
  <2>1. ASSUME NEW c \in Clients \ {d} PROVE PlaceInv(c)'
    <3>1. PlaceInv(c) /\ session_num[c] \in Int
      BY Constants DEF IInv, PlacesInv, TypeOK
    <3>2. Silent(c) => Silent(c)'
      BY <1>1, <1>8 DEF Silent
    <3> QED BY <1>1, <1>4, <1>5, <1>11, <3>1, <3>2, PlaceKept
  <2>2. PlaceInv(d)
    BY DEF IInv, PlacesInv
  <2>3. Below(d, session_num[d])'
    <3>1. PICK s \in Int : s = session_num[d]
      BY <1>3
    <3>2. Below(d, s)'
      BY <1>3, <1>4, <2>2, <3>1 DEF PlaceInv
    <3> QED BY <1>1, <3>1, <3>2 DEF Below
  <2>4. PlaceInv(d)'
    <3>1. client_pc[d] \notin {"start", "REGISTER", "session"} \cup Asking
                              \cup {"mirrored", "told", "QUIT"}
      BY <1>3 DEF Asking, Ended
    <3> QED BY <1>1, <1>3, <1>4, <2>2, <2>3, <3>1 DEF PlaceInv
  <2> QED BY <2>1, <2>4 DEF PlacesInv
<1> QED BY <1>4, <1>6, <1>7, <1>9, <1>10, <1>12, <1>13, <1>14 DEF IInv

LEMMA StutterPreserves == IInv /\ UNCHANGED vars => IInv'
<1> SUFFICES ASSUME IInv, UNCHANGED vars PROVE IInv'
  OBVIOUS
<1>1. /\ UNCHANGED <<active, clients_data, client_count, server_pc, msg, killed,
                     server_linked, server_queue, queue, sigint, in_handler>>
      /\ UNCHANGED client_vars
  BY DEF vars, server_vars
<1>2. TypeOK' /\ ServerInv' /\ SignalInv' /\ (Closed' <=> Closed)
  BY <1>1 DEF IInv, TypeOK, ServerInv, ErrorExitsExplained, Closed, SignalInv, client_vars
<1>3. \A c \in Clients : /\ (Asked(c)' <=> Asked(c)) /\ (Handled(c)' <=> Handled(c))
                         /\ Silent(c) => Silent(c)'
                         /\ Quitting(c) => Quitting(c)'
  BY <1>1 DEF Asked, Handled, Silent, Quitting, Unhandled
<1>4. OneQuestion' /\ QuitLast'
  BY <1>1, <1>3 DEF IInv, OneQuestion, QuitLast, Asked
<1>5. \A m \in Messages : Unhandled(m)' => Unhandled(m)
  BY <1>1 DEF Unhandled
<1>6. \A c \in Clients : \A m \in Messages : Answered(m, c)' => Answered(m, c)
  BY <1>1 DEF Answered
<1> QED BY <1>1, <1>2, <1>3, <1>4, <1>5, <1>6, ServerMoves DEF IInv, AnswersInv

LEMMA NextPreserves == IInv /\ [Next]_vars => IInv'
<1> SUFFICES ASSUME IInv, [Next]_vars PROVE IInv'
  OBVIOUS
<1>1. CASE UNCHANGED vars
  BY <1>1, StutterPreserves
<1>2. ASSUME NEW c \in Clients, ClientStep(c) \/ Open(c) \/ ReadRequest(c) \/ Interrupted(c)
      PROVE  IInv'
  BY <1>2, OpenPreserves, ReadRequestPreserves, SendPreserves, ReceiveSessionPreserves,
     ReceiveAnswerPreserves, UnlinkPreserves, ClientSigintPreserves
     DEF ClientStep, Delivered, Interrupted
<1>3. CASE ServerStep
  <2>1. CASE dispatch_request
    BY <2>1, HandleRegisterPreserves, HandleQuestionPreserves, HandleEndPreserves,
       HandleQuitPreserves DEF dispatch_request
  <2> QED BY <1>3, <2>1, StartPreserves, ReceivePreserves, DrainedPreserves,
          ReplyPreserves, KillPreserves, CloseQueuePreserves DEF ServerStep
<1>4. CASE server_sigint_handler
  BY <1>4, ServerSigintPreserves
<1> QED BY <1>1, <1>2, <1>3, <1>4 DEF Next

-------------------------------------------------------------------------------
(* The inductive invariant holds in every reachable state. *)
THEOREM Invariance == Spec => []IInv
BY InitEstablishes, NextPreserves, PTL DEF Spec

(* Every variable keeps its type: the table never holds more than           *)
(* MAX_CLIENTS clients and no queue more messages than it has room for.    *)
THEOREM Typing == Spec => []TypeOK
<1>1. IInv => TypeOK
  BY DEF IInv
<1> QED BY <1>1, Invariance, PTL

(* The server never blocks in the mq_send of an answer: the client's queue *)
(* is empty, however many clients there are and whatever interrupts them.  *)
THEOREM AnswersFindRoom == Spec => []RepliesNeverBlock
<1>1. IInv => RepliesNeverBlock
  <2> SUFFICES ASSUME IInv, server_pc = "reply" PROVE queue[msg.sender] = <<>>
    BY DEF RepliesNeverBlock
  <2>1. msg.sender \in Clients /\ Handled(msg.sender)
    BY MessageFields DEF IInv, ServerInv, Handled, Question
  <2> QED BY <2>1 DEF IInv, OneQuestion
<1> QED BY <1>1, Invariance, PTL

(* A client that waits for an answer to MIRROR or TIME is in the table. *)
THEOREM WaitersKept == Spec => []WaitersAreRegistered
<1>1. IInv => WaitersAreRegistered
  BY DEF IInv, PlacesInv, PlaceInv, WaitersAreRegistered
<1> QED BY <1>1, Invariance, PTL

(* Nobody is in the table twice, and a client's place is at most the       *)
(* session number it was given.                                            *)
THEOREM PlacesMoveDown == Spec => []PlacesOnlyShrink
<1>1. IInv => PlacesOnlyShrink
  <2> SUFFICES ASSUME IInv, NEW i \in 0..client_count-1, session_num[clients_data[i]] >= 0
               PROVE  i <= session_num[clients_data[i]]
    BY DEF PlacesOnlyShrink, IInv, TableInv
  <2>1. clients_data[i] \in Clients
    BY Typed
  <2> QED BY <2>1 DEF IInv, PlacesInv, PlaceInv, Below
<1> QED BY <1>1, Invariance, PTL

(* An entry of a client that ended normally is left only until its QUIT is *)
(* handled, or if it never learned its session number.                     *)
THEOREM LeftoverEntries == Spec => []LeftoversExplained
<1>1. IInv => LeftoversExplained
  <2> SUFFICES ASSUME IInv, NEW c \in registered, client_pc[c] = "gone", ~Closed
               PROVE  \/ session_num[c] = -2
                      \/ pending(c, {"QUIT"}) # {}
                      \/ in_hand(c, {"QUIT"}, "handle")
    BY DEF LeftoversExplained
  <2>1. c \in Clients
    BY Typed
  <2>2. session_num[c] = -2 \/ Quitting(c)
    BY <2>1 DEF IInv, PlacesInv, PlaceInv
  <2>3. ASSUME NEW i \in 1..Len(server_queue), server_queue[i].sender = c,
               server_queue[i].type = "QUIT"
        PROVE  pending(c, {"QUIT"}) # {}
    <3>1. i \in pending(c, {"QUIT"})
      BY <2>3 DEF pending
    <3> QED BY <3>1
  <2> QED BY <2>2, <2>3 DEF Quitting, Unhandled, in_hand
<1> QED BY <1>1, Invariance, PTL

(* The server takes an error exit only for the REGISTER of a client that   *)
(* was interrupted.                                                        *)
THEOREM ErrorExits == Spec => []ErrorExitsExplained
<1>1. IInv => ErrorExitsExplained
  BY DEF IInv, ServerInv
<1> QED BY <1>1, Invariance, PTL

(* When the server has cleaned up, a client that waits for ever was never  *)
(* in its table.                                                           *)
THEOREM Orphans == Spec => []OrphansAreUnregistered
<1>1. IInv => OrphansAreUnregistered
  <2> SUFFICES ASSUME IInv, server_pc = "gone", NEW c \in Clients,
                      client_pc[c] \in Waiting, c \notin sigint
               PROVE  client_pc[c] = "session" /\ c \notin registered
    BY DEF OrphansAreUnregistered
  <2>1. c \notin in_handler /\ client_pc[c] \notin Ended
    BY DEF IInv, PlacesInv, PlaceInv, Waiting, Ended
  <2>2. c \notin registered
    BY <2>1 DEF IInv, ServerInv, SignalInv, registered
  <2>3. client_pc[c] = "session"
    BY <2>2 DEF IInv, PlacesInv, PlaceInv, Waiting
  <2> QED BY <2>2, <2>3
<1> QED BY <1>1, Invariance, PTL

-------------------------------------------------------------------------------
(* The refinement.  What the service shows of a client is one message: its *)
(* question is the unhandled one, its answer the one on its way to it.     *)

ShownRight(c) ==
  /\ \A m \in Messages : Unhandled(m) /\ Question(m, c) => asks(c) = m.type
  /\ (\A m \in Messages : Unhandled(m) => ~Question(m, c)) => asks(c) = "none"
  /\ \A m \in Messages : Answered(m, c) =>
       /\ gets(c) = answered(m)
       /\ answered(m) \in {"ADMITTED", "REFUSED", "MIRROR", "TIME"}
  /\ (\A m \in Messages : ~Answered(m, c)) => gets(c) = "none"

Shown == \A c \in Clients : ShownRight(c)

LEMMA QuestionsShown ==
  ASSUME IInv, NEW c \in Clients
  PROVE  /\ \A m \in Messages : Unhandled(m) /\ Question(m, c) => asks(c) = m.type
         /\ (\A m \in Messages : Unhandled(m) => ~Question(m, c)) => asks(c) = "none"
<1> DEFINE inQueue == pending(c, RequestTypes)
<1>1. asks(c) = IF inQueue # {} THEN server_queue[CHOOSE i \in inQueue : TRUE].type
                ELSE IF in_hand(c, RequestTypes, "handle") THEN msg.type ELSE "none"
  BY DEF asks
<1>2. \A i : i \in inQueue <=> i \in 1..Len(server_queue) /\ Question(server_queue[i], c)
  BY DEF pending, Question
<1>3. in_hand(c, RequestTypes, "handle") <=> server_pc = "handle" /\ Question(msg, c)
  BY DEF in_hand, Question
<1>4. ASSUME NEW i \in inQueue PROVE asks(c) = server_queue[i].type
  <2>1. \A j \in inQueue : j = i
    BY <1>2, <1>4 DEF IInv, OneQuestion
  <2>2. (CHOOSE j \in inQueue : TRUE) = i
    BY <1>4, <2>1
  <2> QED BY <1>1, <1>4, <2>2
<1>5. ASSUME NEW m \in Messages, Unhandled(m), Question(m, c)
      PROVE  asks(c) = m.type
  <2>1. CASE \E i \in 1..Len(server_queue) : server_queue[i] = m
    BY <1>2, <1>4, <1>5, <2>1
  <2>2. CASE server_pc = "handle" /\ msg = m
    <3>1. ~Asked(c)
      BY <1>5, <2>2 DEF IInv, OneQuestion, Handled
    <3>2. inQueue = {}
      BY <1>2, <3>1 DEF Asked
    <3> QED BY <1>1, <1>3, <1>5, <2>2, <3>2
  <2> QED BY <1>5, <2>1, <2>2 DEF Unhandled
<1>6. ASSUME \A m \in Messages : Unhandled(m) => ~Question(m, c)
      PROVE  asks(c) = "none"
  <2>1. inQueue = {}
    BY <1>2, <1>6, Typed DEF Unhandled
  <2>2. ~in_hand(c, RequestTypes, "handle")
    BY <1>3, <1>6 DEF Unhandled, IInv, ServerInv
  <2> QED BY <1>1, <2>1, <2>2
<1> QED BY <1>5, <1>6

LEMMA AnswersShown ==
  ASSUME IInv, NEW c \in Clients
  PROVE  /\ \A m \in Messages : Answered(m, c) =>
              /\ gets(c) = answered(m)
              /\ answered(m) \in {"ADMITTED", "REFUSED", "MIRROR", "TIME"}
         /\ (\A m \in Messages : ~Answered(m, c)) => gets(c) = "none"
<1>1. gets(c) = IF queue[c] # <<>> THEN answered(Head(queue[c]))
                ELSE IF in_hand(c, RequestTypes, "reply") THEN answered(msg) ELSE "none"
  BY DEF gets
<1>2. server_pc = "reply" => msg \in Messages /\ msg.type \in RequestTypes
  BY DEF IInv, ServerInv
<1>3. in_hand(c, RequestTypes, "reply") <=> server_pc = "reply" /\ msg.sender = c
  BY <1>2 DEF in_hand
<1>4. ASSUME NEW m \in Messages, Answered(m, c)
      PROVE  /\ gets(c) = answered(m)
             /\ answered(m) \in {"ADMITTED", "REFUSED", "MIRROR", "TIME"}
  <2>1. m.type \in RequestTypes
    BY <1>4 DEF IInv, AnswersInv, Due
  <2>2. answered(m) \in {"ADMITTED", "REFUSED", "MIRROR", "TIME"}
    BY <2>1 DEF answered, RequestTypes
  <2>3. CASE queue[c] # <<>> /\ Head(queue[c]) = m
    BY <1>1, <2>2, <2>3
  <2>4. CASE server_pc = "reply" /\ msg = m /\ m.sender = c
    <3>1. queue[c] = <<>>
      BY <1>2, <2>4 DEF IInv, OneQuestion, Handled, Question
    <3> QED BY <1>1, <1>3, <2>2, <2>4, <3>1
  <2> QED BY <1>4, <2>3, <2>4 DEF Answered
<1>5. ASSUME \A m \in Messages : ~Answered(m, c) PROVE gets(c) = "none"
  <2>1. queue[c] = <<>>
    <3>1. queue[c] # <<>> => Head(queue[c]) \in Messages
      BY Typed, Removed
    <3> QED BY <1>5, <3>1 DEF Answered
  <2>2. ~in_hand(c, RequestTypes, "reply")
    BY <1>2, <1>3, <1>5 DEF Answered
  <2> QED BY <1>1, <2>1, <2>2
<1> QED BY <1>4, <1>5

LEMMA IsShown == IInv => Shown
BY QuestionsShown, AnswersShown DEF Shown, ShownRight

(* The clients in the table are as many as client_count says. *)
LEMMA TableCounted ==
  ASSUME IInv PROVE Service!Cardinality(registered) = client_count
<1> DEFINE n == client_count
           f == [i \in 1..n |-> clients_data[i-1]]
<1>1. n \in Nat
  BY Typed, Constants
<1>2. \A i \in 1..n : i-1 \in 0..n-1 /\ f[i] = clients_data[i-1]
  BY <1>1
<1>3. f \in [1..n -> registered]
  BY <1>2 DEF registered
<1>4. \A i, j \in 1..n : f[i] = f[j] => i = j
  <2> SUFFICES ASSUME NEW i \in 1..n, NEW j \in 1..n, f[i] = f[j] PROVE i = j
    OBVIOUS
  <2>1. i - 1 = j - 1
    BY <1>2 DEF IInv, TableInv
  <2> QED BY <1>1, <2>1
<1>5. \A c \in registered : \E i \in 1..n : f[i] = c
  <2> SUFFICES ASSUME NEW k \in 0..n-1 PROVE \E i \in 1..n : f[i] = clients_data[k]
    BY DEF registered
  <2>1. k + 1 \in 1..n /\ (k + 1) - 1 = k
    BY <1>1
  <2> QED BY <1>2, <2>1
<1>6. f \in Bijection(1..n, registered)
  BY <1>3, <1>4, <1>5, Fun_IsBij
<1>7. ExistsBijection(1..n, registered)
  BY <1>6 DEF ExistsBijection
<1>8. Cardinality(registered) = client_count
  BY <1>1, <1>7, FS_CountingElements
<1> QED BY <1>8 DEF Cardinality, Service!Cardinality

(* What is shown changes only with the messages it stands for. *)
LEMMA AskKept ==
  ASSUME Shown, Shown', NEW c \in Clients,
         \A m \in Messages : Question(m, c) => (Unhandled(m)' <=> Unhandled(m))
  PROVE  asks(c)' = asks(c)
<1>1. /\ ShownRight(c)
      /\ \A m \in Messages : Unhandled(m)' /\ Question(m, c) => asks(c)' = m.type
      /\ (\A m \in Messages : Unhandled(m)' => ~Question(m, c)) => asks(c)' = "none"
  BY DEF Shown, ShownRight, Question
<1> QED BY <1>1 DEF ShownRight

LEMMA GetKept ==
  ASSUME Shown, Shown', NEW c \in Clients,
         \A m \in Messages : Answered(m, c)' <=> Answered(m, c)
  PROVE  gets(c)' = gets(c)
<1>1. /\ ShownRight(c)
      /\ \A m \in Messages : Answered(m, c)' => gets(c)' = answered(m)
      /\ (\A m \in Messages : ~Answered(m, c)') => gets(c)' = "none"
  BY DEF Shown, ShownRight, answered
<1> QED BY <1>1 DEF ShownRight

(* What the service sees of the state, and what it may do to it. *)
Asks == [c \in Clients |-> asks(c)]
Gets == [c \in Clients |-> gets(c)]
ServiceStep == Service!Next \/ UNCHANGED <<Closed, registered, Asks, Gets>>

LEMMA NothingShown ==
  ASSUME Closed' <=> Closed, registered' = registered,
         \A c \in Clients : asks(c)' = asks(c) /\ gets(c)' = gets(c)
  PROVE  ServiceStep
<1>1. Asks' = Asks
  BY DEF Asks
<1>2. Gets' = Gets
  BY DEF Gets
<1>3. Closed' = Closed
  BY DEF Closed
<1> QED BY <1>1, <1>2, <1>3 DEF ServiceStep

LEMMA QueuesKept ==
  ASSUME UNCHANGED <<server_pc, msg, server_queue, queue>>
  PROVE  \A c \in Clients : asks(c)' = asks(c) /\ gets(c)' = gets(c)
BY DEF asks, gets, pending, in_hand

(* Sending a question is asking it. *)
LEMMA SendAsks ==
  ASSUME IInv, Shown, Shown', NEW c \in Clients, Send(c) PROVE ServiceStep
<1>1. PICK type \in Types, m \in Messages :
        /\ client_pc[c] = type /\ m.type = type /\ m.sender = c
        /\ server_queue' = Append(server_queue, m)
        /\ UNCHANGED <<clients_data, client_count, server_pc, msg, queue>>
  <2>1. 0 \in -1..MAX_CLIENTS-1 /\ client_pc[c] \in Types
    BY Constants DEF Send
  <2>2. /\ Message(client_pc[c], c, 0) \in Messages
        /\ Message(client_pc[c], c, 0).type = client_pc[c]
        /\ Message(client_pc[c], c, 0).sender = c
    BY <2>1, MessageFields
  <2> QED BY <2>1, <2>2 DEF Send, server_vars
<1>2. \A k \in Messages : Unhandled(k)' <=> Unhandled(k) \/ k = m
  BY <1>1, Typed, Appended DEF Unhandled
<1>3. \A d \in Clients : gets(d)' = gets(d)
  BY <1>1 DEF gets, in_hand
<1>4. \A d \in Clients : Question(m, d) \/ asks(d)' = asks(d)
  BY <1>2, AskKept
<1>5. registered' = registered /\ (Closed' <=> Closed)
  BY <1>1 DEF registered, Closed
<1>6. CASE type \in RequestTypes
  <2>1. Silent(c) /\ (type # "REGISTER" => c \in registered)
    BY <1>1, <1>6 DEF IInv, PlacesInv, PlaceInv, RequestTypes, Asking
  <2>2. asks(c) = "none" /\ gets(c) = "none"
    BY <2>1, NothingUnderWay DEF Shown, ShownRight, Question
  <2>3. asks(c)' = type
    <3>1. Unhandled(m)' /\ Question(m, c)
      BY <1>1, <1>2, <1>6 DEF Question
    <3>2. Unhandled(m)' /\ Question(m, c) => asks(c)' = m.type
      BY DEF Shown, ShownRight, Question
    <3> QED BY <1>1, <3>1, <3>2
  <2>4. Asks' = [Asks EXCEPT ![c] = type]
    BY <1>1, <1>4, <2>3 DEF Asks, Question
  <2>5. Gets' = Gets
    BY <1>3 DEF Gets
  <2>6. Service!Ask(c, type)
    BY <1>5, <2>1, <2>2, <2>4, <2>5 DEF Service!Ask, Asks, Gets, Closed
  <2> QED BY <1>6, <2>6 DEF ServiceStep, Service!Next, Service!Questions, RequestTypes
<1>7. CASE type \notin RequestTypes
  <2>1. \A d \in Clients : ~Question(m, d)
    BY <1>1, <1>7 DEF Question
  <2> QED BY <1>3, <1>4, <1>5, <2>1, NothingShown
<1> QED BY <1>6, <1>7

(* Taking an answer from the queue is receiving it. *)
LEMMA ReceiveReceives ==
  ASSUME IInv, Shown, Shown', NEW c \in Clients, queue[c] # <<>>,
         queue' = [queue EXCEPT ![c] = Tail(queue[c])],
         UNCHANGED <<clients_data, client_count, server_pc, msg, server_queue>>
  PROVE  ServiceStep
<1>1. /\ Handled(c) => queue[c] = <<>>
      /\ queue[c] \in Seq(Messages) /\ Len(queue[c]) <= 1
      /\ queue \in [Clients -> Seq(Messages)]
  BY DEF IInv, TypeOK, OneQuestion
<1>2. queue'[c] = <<>> /\ \A d \in Clients \ {c} : queue'[d] = queue[d]
  <2>1. Len(queue'[c]) = Len(queue[c]) - 1 /\ queue'[c] \in Seq(Messages)
    BY <1>1, Removed
  <2>2. Len(queue[c]) \in Nat \ {0}
    BY <1>1, Removed
  <2>3. \A k \in Nat \ {0} : k <= 1 => k - 1 = 0
    OBVIOUS
  <2>4. Len(queue'[c]) = 0
    BY <1>1, <2>1, <2>2, <2>3
  <2> QED BY <1>1, <2>1, <2>4, EmptySeq
<1>3. gets(c) # "none"
  <2>1. Head(queue[c]) \in Messages
    BY <1>1, Removed
  <2>2. Answered(Head(queue[c]), c)
    BY DEF Answered
  <2> QED BY <2>1, <2>2 DEF Shown, ShownRight
<1>4. gets(c)' = "none"
  <2>1. \A m \in Messages : ~Answered(m, c)'
    BY <1>1, <1>2 DEF Answered, Handled, Question, IInv, ServerInv
  <2>2. (\A m \in Messages : ~Answered(m, c)') => gets(c)' = "none"
    BY DEF Shown, ShownRight
  <2> QED BY <2>1, <2>2
<1>5. \A d \in Clients : asks(d)' = asks(d) /\ (d # c => gets(d)' = gets(d))
  BY <1>2 DEF asks, gets, pending, in_hand
<1>6. Asks' = Asks
  BY <1>5 DEF Asks
<1>7. Gets' = [Gets EXCEPT ![c] = "none"]
  BY <1>4, <1>5 DEF Gets
<1>8. registered' = registered /\ (Closed' <=> Closed)
  BY DEF registered, Closed
<1>9. Service!Receive(c)
  BY <1>3, <1>6, <1>7, <1>8 DEF Service!Receive, Asks, Gets, Closed
<1> QED BY <1>9 DEF ServiceStep, Service!Next

(* When the server closes, the question or the answer in its hands is lost. *)
LEMMA ClosingCloses ==
  ASSUME IInv, Shown, Shown', Closed', server_pc' \in {"closing"} \cup Ended,
         UNCHANGED <<clients_data, client_count, server_queue, queue>>
  PROVE  ServiceStep
<1> DEFINE lost == {c \in Clients : Handled(c)}
<1>1. registered' = registered
  BY DEF registered
<1>2. /\ server_pc' \notin {"handle", "reply"}
      /\ \A c \in Clients : ~Handled(c)'
  BY DEF Ended, Handled
<1>3. ASSUME NEW c \in lost PROVE asks(c)' = "none" /\ gets(c)' = "none"
  <2>1. ~Asked(c) /\ queue[c] = <<>>
    BY <1>3 DEF IInv, OneQuestion
  <2>2. \A m \in Messages : Unhandled(m)' => ~Question(m, c)
    BY <1>2, <2>1 DEF Unhandled, Asked
  <2>3. \A m \in Messages : ~Answered(m, c)'
    BY <1>2, <2>1 DEF Answered
  <2>4. /\ (\A m \in Messages : Unhandled(m)' => ~Question(m, c)) => asks(c)' = "none"
        /\ (\A m \in Messages : ~Answered(m, c)') => gets(c)' = "none"
    BY DEF Shown, ShownRight, Question
  <2> QED BY <2>2, <2>3, <2>4
<1>4. ASSUME NEW c \in Clients \ lost PROVE asks(c)' = asks(c) /\ gets(c)' = gets(c)
  <2>1. \A m \in Messages : Question(m, c) => (Unhandled(m)' <=> Unhandled(m))
    BY <1>2, <1>4 DEF Unhandled, Handled
  <2>2. \A m \in Messages : Answered(m, c)' <=> Answered(m, c)
    BY <1>2, <1>4 DEF Answered, Handled, Question, IInv, ServerInv
  <2> QED BY <2>1, <2>2, AskKept, GetKept
<1>5. Asks' = [c \in Clients |-> IF c \in lost THEN "none" ELSE Asks[c]]
  BY <1>3, <1>4 DEF Asks
<1>6. Gets' = [c \in Clients |-> IF c \in lost THEN "none" ELSE Gets[c]]
  BY <1>3, <1>4 DEF Gets
<1>7. (~Closed)' = FALSE /\ lost \in SUBSET Clients
  OBVIOUS
<1>8. Service!Close
  BY <1>1, <1>5, <1>6, <1>7 DEF Service!Close, Asks, Gets
<1> QED BY <1>8 DEF ServiceStep, Service!Next

(* A handler that has an answer in its hands has given it. *)
LEMMA HandlerGives ==
  ASSUME IInv, Shown, Shown', NEW d \in Clients, server_pc = "handle",
         msg.sender = d, msg.type \in RequestTypes,
         server_pc' = "reply", msg' \in Messages, msg'.sender = d,
         NEW a, a = answered(msg'), UNCHANGED <<server_queue, queue>>
  PROVE  /\ asks(d) = msg.type
         /\ ~Closed /\ ~Closed'
         /\ Asks' = [Asks EXCEPT ![d] = "none"]
         /\ Gets' = [Gets EXCEPT ![d] = a]
<1>1. /\ msg \in Messages /\ Unhandled(msg) /\ Question(msg, d)
      /\ Handled(d) /\ ~Asked(d) /\ queue[d] = <<>>
  BY DEF IInv, ServerInv, Unhandled, Question, Handled, OneQuestion
<1>2. asks(d) = msg.type
  BY <1>1 DEF Shown, ShownRight
<1>3. asks(d)' = "none"
  <2>1. \A m \in Messages : Unhandled(m)' => ~Question(m, d)
    BY <1>1 DEF Unhandled, Asked
  <2>2. (\A m \in Messages : Unhandled(m)' => ~Question(m, d)) => asks(d)' = "none"
    BY DEF Shown, ShownRight, Question
  <2> QED BY <2>1, <2>2
<1>4. gets(d)' = a
  <2>1. PICK m \in Messages : m = msg'
    OBVIOUS
  <2>2. Answered(m, d)' /\ answered(m) = a
    BY <2>1 DEF Answered
  <2>3. Answered(m, d)' => gets(d)' = answered(m)
    BY DEF Shown, ShownRight, answered
  <2> QED BY <2>2, <2>3
<1>5. ASSUME NEW c \in Clients \ {d} PROVE asks(c)' = asks(c) /\ gets(c)' = gets(c)
  <2>1. \A m \in Messages : Question(m, c) => (Unhandled(m)' <=> Unhandled(m))
    BY DEF Unhandled, Question
  <2>2. \A m \in Messages : Answered(m, c)' <=> Answered(m, c)
    BY DEF Answered
  <2> QED BY <2>1, <2>2, AskKept, GetKept
<1>6. ~Closed /\ ~Closed'
  BY DEF Closed, Ended
<1> QED BY <1>2, <1>3, <1>4, <1>5, <1>6 DEF Asks, Gets

LEMMA RegisterServes ==
  ASSUME IInv, Shown, Shown', dispatch_request, handle_register PROVE ServiceStep
<1>1. /\ server_pc = "handle" /\ msg.type = "REGISTER" /\ msg.type \in RequestTypes
      /\ UNCHANGED <<active, killed, server_linked, server_queue, client_vars, queue,
                     sigint, in_handler>>
  BY DEF dispatch_request, handle_register, RequestTypes
<1>2. PICK d \in Clients : d = msg.sender
  BY <1>1, Registering
<1>3. d \notin registered /\ Service!Cardinality(registered) = client_count
  BY <1>1, <1>2, Registering, TableCounted
<1>4. /\ -1 \in -1..MAX_CLIENTS-1 /\ "REGISTER" \in Types
      /\ client_count \in 0..MAX_CLIENTS
  BY Typed, Constants DEF Types
<1>5. CASE /\ server_pc' = "closing"
           /\ UNCHANGED <<clients_data, client_count>>
  <2>1. Closed'
    BY <1>5 DEF Closed
  <2> QED BY <1>1, <1>5, <2>1, ClosingCloses
<1>6. CASE /\ table_full /\ server_pc' = "reply"
           /\ msg' = Message("REGISTER", d, -1)
           /\ UNCHANGED <<clients_data, client_count>>
  <2>1. /\ msg' \in Messages /\ msg'.type = "REGISTER" /\ msg'.sender = d
        /\ msg'.session = -1
    BY <1>4, <1>6, MessageFields
  <2>2. answered(msg') = "REFUSED"
    BY <2>1 DEF answered
  <2>3. /\ asks(d) = "REGISTER" /\ ~Closed /\ ~Closed'
        /\ Asks' = [Asks EXCEPT ![d] = "none"]
        /\ Gets' = [Gets EXCEPT ![d] = "REFUSED"]
    BY <1>1, <1>2, <1>6, <2>1, <2>2, HandlerGives
  <2>4. client_count = MAX_CLIENTS
    BY <1>4, <1>6, Constants DEF table_full
  <2>5. registered' = registered
    BY <1>6 DEF registered
  <2>6. Service!Give(d, "REFUSED") /\ Asks[d] = "REGISTER"
    BY <2>3 DEF Service!Give, Asks, Gets, Closed
  <2>7. Service!Refuse(d)
    BY <1>3, <2>4, <2>5, <2>6 DEF Service!Refuse, Asks
  <2> QED BY <2>7 DEF ServiceStep, Service!Next
<1>7. CASE /\ ~table_full /\ server_pc' = "reply"
           /\ clients_data' = [clients_data EXCEPT ![client_count] = d]
           /\ client_count' = client_count + 1
           /\ msg' = Message("REGISTER", d, client_count)
  <2>1. client_count <= MAX_CLIENTS - 1 /\ client_count \in -1..MAX_CLIENTS-1
    BY <1>4, <1>7, Constants DEF table_full
  <2>2. /\ msg' \in Messages /\ msg'.type = "REGISTER" /\ msg'.sender = d
        /\ msg'.session = client_count /\ client_count >= 0
    BY <1>4, <1>7, <2>1, MessageFields
  <2>3. answered(msg') = "ADMITTED"
    BY <1>4, <2>2 DEF answered
  <2>4. /\ asks(d) = "REGISTER" /\ ~Closed /\ ~Closed'
        /\ Asks' = [Asks EXCEPT ![d] = "none"]
        /\ Gets' = [Gets EXCEPT ![d] = "ADMITTED"]
    BY <1>1, <1>2, <1>7, <2>2, <2>3, HandlerGives
  <2>5. registered' = registered \cup {d}
    BY <1>1, <1>2, <1>7, <2>1, AdmitPreserves
  <2>6. client_count < MAX_CLIENTS
    BY <1>4, <2>1, Constants
  <2>7. Service!Give(d, "ADMITTED") /\ Asks[d] = "REGISTER"
    BY <2>4 DEF Service!Give, Asks, Gets, Closed
  <2>8. Service!Admit(d)
    BY <1>3, <2>5, <2>6, <2>7 DEF Service!Admit, Asks
  <2> QED BY <2>8 DEF ServiceStep, Service!Next
<1> QED BY <1>2, <1>5, <1>6, <1>7 DEF handle_register, session_given

LEMMA QuestionServes ==
  ASSUME IInv, Shown, Shown', dispatch_request, handle_question PROVE ServiceStep
<1>1. /\ server_pc = "handle" /\ msg.type \in {"MIRROR", "TIME"}
      /\ msg.sender \in registered => server_pc' = "reply" /\ msg' = msg
      /\ UNCHANGED <<clients_data, client_count, server_queue, queue>>
  BY DEF dispatch_request, handle_question
<1>2. /\ msg \in Messages /\ msg.sender \in Clients /\ msg.sender \in registered
      /\ msg.type \in RequestTypes
  <2>1. msg \in Messages
    BY <1>1 DEF IInv, ServerInv
  <2> QED BY <1>1, <2>1, MessageFields DEF IInv, RequestsInv, Unhandled, Expected, RequestTypes
<1>3. PICK d \in Clients, m \in Messages : d = msg.sender /\ m = msg
  BY <1>2
<1>4. answered(m) = m.type /\ m = msg'
  <2>1. m.type # "REGISTER" /\ m = msg'
    BY <1>1, <1>2, <1>3
  <2> QED BY <2>1 DEF answered
<1>5. /\ asks(d) = m.type /\ ~Closed /\ ~Closed'
      /\ Asks' = [Asks EXCEPT ![d] = "none"]
      /\ Gets' = [Gets EXCEPT ![d] = m.type]
  <2>1. m.type = answered(msg')
    BY <1>4 DEF answered
  <2> QED BY <1>1, <1>2, <1>3, <2>1, HandlerGives
<1>6. registered' = registered
  BY <1>1 DEF registered
<1>7. Service!Answer(d)
  BY <1>1, <1>2, <1>3, <1>5, <1>6 DEF Service!Answer, Service!Give, Asks, Gets, Closed
<1> QED BY <1>7 DEF ServiceStep, Service!Next

LEMMA EndServes ==
  ASSUME IInv, Shown, Shown', dispatch_request, handle_end PROVE ServiceStep
<1>1. /\ server_pc = "handle" /\ server_pc' = "loop" /\ msg.type = "END"
      /\ msg' = NoMessage
      /\ UNCHANGED <<clients_data, client_count, server_queue, queue>>
  BY DEF dispatch_request, handle_end, back_to_loop
<1>2. /\ \A m \in Messages : m.type \in RequestTypes => (Unhandled(m)' <=> Unhandled(m))
      /\ \A c \in Clients : \A m \in Messages : Answered(m, c)' <=> Answered(m, c)
  BY <1>1 DEF Unhandled, Answered, RequestTypes
<1>3. \A c \in Clients : asks(c)' = asks(c) /\ gets(c)' = gets(c)
  BY <1>2, AskKept, GetKept DEF Question
<1>4. registered' = registered /\ (Closed' <=> Closed)
  BY <1>1 DEF registered, Closed, Ended
<1> QED BY <1>3, <1>4, NothingShown

(* A QUIT is handled after all its sender asked: the sender leaves. *)
LEMMA QuitLeaves ==
  ASSUME IInv, Shown, Shown', dispatch_request, handle_quit PROVE ServiceStep
<1>1. /\ server_pc = "handle" /\ server_pc' = "loop" /\ msg.type = "QUIT"
      /\ msg' = NoMessage
      /\ UNCHANGED <<server_queue, queue>>
  BY DEF dispatch_request, handle_quit, back_to_loop
<1>2. PICK d \in Clients : d = msg.sender
  BY <1>1, MessageFields DEF IInv, ServerInv
<1>3. registered' = registered \ {d} /\ ~Closed /\ ~Closed'
  BY <1>1, <1>2, QuitRemoves DEF Closed, Ended
<1>4. /\ \A m \in Messages : m.type \in RequestTypes => (Unhandled(m)' <=> Unhandled(m))
      /\ \A c \in Clients : \A m \in Messages : Answered(m, c)' <=> Answered(m, c)
  BY <1>1 DEF Unhandled, Answered, RequestTypes
<1>5. \A c \in Clients : asks(c)' = asks(c) /\ gets(c)' = gets(c)
  BY <1>4, AskKept, GetKept DEF Question
<1>6. CASE d \notin registered
  BY <1>3, <1>5, <1>6, NothingShown
<1>7. CASE d \in registered
  <2>1. ~Asked(d)
    BY <1>1, <1>2 DEF IInv, QuitLast
  <2>2. \A m \in Messages : Unhandled(m) => ~Question(m, d)
    BY <1>1, <2>1 DEF Unhandled, Asked, Question, RequestTypes
  <2>3. asks(d) = "none"
    BY <2>2 DEF Shown, ShownRight
  <2>4. Asks' = Asks
    BY <1>5 DEF Asks
  <2>5. Gets' = Gets
    BY <1>5 DEF Gets
  <2>6. Service!Leave(d)
    BY <1>3, <1>7, <2>3, <2>4, <2>5 DEF Service!Leave, Asks, Gets, Closed
  <2> QED BY <2>6 DEF ServiceStep, Service!Next
<1> QED BY <1>6, <1>7

(* A message that moves between the server's hands and a queue is no step. *)
LEMMA ReceiveUnseen ==
  ASSUME IInv, Shown, Shown', Receive PROVE ServiceStep
<1>1. /\ server_pc = "loop" /\ server_pc' = "handle" /\ server_queue # <<>>
      /\ msg' = Head(server_queue) /\ server_queue' = Tail(server_queue)
      /\ UNCHANGED <<clients_data, client_count, queue>>
  BY DEF Receive
<1> DEFINE n == Len(server_queue)
<1>2. /\ msg' = server_queue[1] /\ 1 \in 1..n
      /\ \A i \in 1..Len(server_queue') :
           i + 1 \in 1..n /\ server_queue'[i] = server_queue[i+1]
      /\ \A i \in 1..n : i # 1 => /\ i - 1 \in 1..Len(server_queue')
                                  /\ server_queue'[i-1] = server_queue[i]
  BY <1>1, Typed, Removed
<1>3. \A m \in Messages : Unhandled(m)' <=> Unhandled(m)
  <2> TAKE m \in Messages
  <2>1. ASSUME NEW i \in 1..n, server_queue[i] = m PROVE Unhandled(m)'
    BY <1>1, <1>2, <2>1 DEF Unhandled
  <2>2. Unhandled(m)' => Unhandled(m)
    BY <1>1, <1>2 DEF Unhandled
  <2> QED BY <1>1, <2>1, <2>2 DEF Unhandled
<1>4. \A c \in Clients : \A m \in Messages : Answered(m, c)' <=> Answered(m, c)
  BY <1>1 DEF Answered
<1>5. \A c \in Clients : asks(c)' = asks(c) /\ gets(c)' = gets(c)
  BY <1>3, <1>4, AskKept, GetKept
<1>6. registered' = registered /\ (Closed' <=> Closed)
  BY <1>1 DEF registered, Closed, Ended
<1> QED BY <1>5, <1>6, NothingShown

LEMMA ReplyUnseen ==
  ASSUME IInv, Shown, Shown', Reply PROVE ServiceStep
<1>1. /\ server_pc = "reply" /\ server_pc' = "loop"
      /\ queue' = [queue EXCEPT ![msg.sender] = Append(queue[msg.sender], msg)]
      /\ UNCHANGED <<clients_data, client_count, server_queue>>
  BY DEF Reply, back_to_loop
<1>2. PICK d \in Clients, k \in Messages : d = msg.sender /\ k = msg
  BY <1>1, MessageFields DEF IInv, ServerInv
<1>3. queue[d] = <<>> /\ queue \in [Clients -> Seq(Messages)]
  BY <1>1, <1>2 DEF IInv, TypeOK, OneQuestion, Handled, Question, ServerInv
<1>4. /\ queue'[d] = <<k>> /\ Head(queue'[d]) = k /\ queue'[d] # <<>>
      /\ \A c \in Clients \ {d} : queue'[c] = queue[c]
  <2>1. Append(queue[d], k) = <<k>> /\ Head(<<k>>) = k /\ <<k>> # <<>>
    BY <1>3
  <2> QED BY <1>1, <1>2, <1>3, <2>1
<1>5. \A m \in Messages : Unhandled(m)' <=> Unhandled(m)
  BY <1>1 DEF Unhandled
<1>6. \A c \in Clients : \A m \in Messages : Answered(m, c)' <=> Answered(m, c)
  BY <1>1, <1>2, <1>3, <1>4 DEF Answered
<1>7. \A c \in Clients : asks(c)' = asks(c) /\ gets(c)' = gets(c)
  BY <1>5, <1>6, AskKept, GetKept
<1>8. registered' = registered /\ (Closed' <=> Closed)
  BY <1>1 DEF registered, Closed, Ended
<1> QED BY <1>7, <1>8, NothingShown

LEMMA ServerServes ==
  ASSUME IInv, Shown, Shown', ServerStep \/ server_sigint_handler PROVE ServiceStep
<1>1. CASE Start
  <2>1. /\ server_pc = "start" /\ server_pc' = "loop"
        /\ UNCHANGED <<clients_data, client_count, msg, server_queue, queue>>
    BY <1>1 DEF Start
  <2>2. /\ \A c \in Clients : asks(c)' = asks(c) /\ gets(c)' = gets(c)
        /\ registered' = registered /\ (Closed' <=> Closed)
    BY <2>1 DEF asks, gets, pending, in_hand, registered, Closed, Ended
  <2> QED BY <2>2, NothingShown
<1>2. CASE Drained \/ CloseQueue \/ server_sigint_handler
  <2>1. /\ server_pc' \in {"closing"} \cup Ended \/ server_pc' \in {"gone", "cut"}
        /\ UNCHANGED <<clients_data, client_count, server_queue, queue>>
    BY <1>2 DEF Drained, CloseQueue, server_sigint_handler, Ended, client_vars
  <2>2. Closed' /\ server_pc' \in {"closing"} \cup Ended
    BY <2>1 DEF Closed, Ended
  <2> QED BY <2>1, <2>2, ClosingCloses
<1>3. CASE Kill
  <2>1. UNCHANGED <<clients_data, client_count, server_pc, msg, server_queue, queue>>
    BY <1>3 DEF Kill
  <2>2. registered' = registered /\ (Closed' <=> Closed)
    BY <2>1 DEF registered, Closed
  <2> QED BY <2>1, <2>2, QueuesKept, NothingShown
<1>4. CASE dispatch_request
  BY <1>4, RegisterServes, QuestionServes, EndServes, QuitLeaves DEF dispatch_request
<1> QED BY <1>1, <1>2, <1>3, <1>4, ReceiveUnseen, ReplyUnseen DEF ServerStep

LEMMA ClientServes ==
  ASSUME IInv, Shown, Shown', NEW c \in Clients,
         ClientStep(c) \/ Open(c) \/ ReadRequest(c) \/ Interrupted(c)
  PROVE  ServiceStep
<1>1. CASE Send(c)
  BY <1>1, SendAsks
<1>2. CASE ReceiveSession(c) \/ ReceiveAnswer(c)
  BY <1>2, ReceiveReceives DEF ReceiveSession, ReceiveAnswer, server_vars
<1>3. CASE Unlink(c) \/ Open(c) \/ ReadRequest(c) \/ client_sigint_handler(c)
  <2>1. UNCHANGED <<clients_data, client_count, server_pc, msg, server_queue, queue>>
    BY <1>3 DEF Unlink, Open, ReadRequest, client_sigint_handler, server_vars
  <2>2. registered' = registered /\ (Closed' <=> Closed)
    BY <2>1 DEF registered, Closed
  <2> QED BY <2>1, <2>2, QueuesKept, NothingShown
<1> QED BY <1>1, <1>2, <1>3 DEF ClientStep, Delivered, Interrupted

(* The server with its queues and its clients, interrupted at any point,   *)
(* is the abstract request service: one question and one answer at a time, *)
(* refusals only when the table is full, nothing answered to strangers.    *)
THEOREM Refinement == Spec => ImplementsService
<1>1. Init => Service!Init
  <2> SUFFICES ASSUME Init PROVE Service!Init
    OBVIOUS
  <2>1. /\ server_pc = "start" /\ client_count = 0 /\ server_queue = <<>>
        /\ \A c \in Clients : queue[c] = <<>>
    BY DEF Init
  <2>2. registered = {} /\ ~Closed
    BY <2>1 DEF registered, Closed, Ended
  <2>3. \A c \in Clients : asks(c) = "none" /\ gets(c) = "none"
    <3> TAKE c \in Clients
    <3>1. pending(c, RequestTypes) = {}
      BY <2>1 DEF pending
    <3>2. \A place \in {"handle", "reply"} : ~in_hand(c, RequestTypes, place)
      BY <2>1 DEF in_hand
    <3> QED BY <2>1, <3>1, <3>2 DEF asks, gets
  <2> QED BY <2>2, <2>3 DEF Service!Init
<1>2. IInv /\ Shown /\ Shown' /\ [Next]_vars
        => [Service!Next]_<<~Closed, registered, Asks, Gets>>
  <2> SUFFICES ASSUME IInv, Shown, Shown', [Next]_vars
               PROVE  ServiceStep
    BY DEF ServiceStep
  <2>1. CASE UNCHANGED vars
    <3>1. UNCHANGED <<clients_data, client_count, server_pc, msg, server_queue, queue>>
      BY <2>1 DEF vars, server_vars
    <3>2. registered' = registered /\ (Closed' <=> Closed)
      BY <3>1 DEF registered, Closed
    <3> QED BY <3>1, <3>2, QueuesKept, NothingShown
  <2>2. CASE Next
    BY <2>2, ServerServes, ClientServes DEF Next
  <2> QED BY <2>1, <2>2
<1>3. IInv => Shown
  BY IsShown
<1>4. Spec => [][[Service!Next]_<<~Closed, registered, Asks, Gets>>]_vars
  BY <1>2, <1>3, Invariance, PTL DEF Spec
<1> QED BY <1>1, <1>2, <1>3, Invariance, PTL DEF ImplementsService, Service!Spec, Spec, Asks, Gets
===============================================================================
