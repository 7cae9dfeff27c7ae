---------------------------- MODULE RequestService ----------------------------
(***************************************************************************)
(* What the servers of lab5_message_queues promise, with no queues and no  *)
(* processes: a client asks one question at a time, every question gets at *)
(* most one answer, its own, only members are answered, and nobody is      *)
(* refused while there is a free place.  Once the service is closed        *)
(* questions and answers may be lost.                                      *)
(***************************************************************************)
EXTENDS Integers, FiniteSets

CONSTANTS Clients, MAX_CLIENTS

VARIABLES
  open,         \* the server still handles requests
  members,      \* the registered clients
  question,     \* what each client has asked and nobody has handled
  answer        \* the answer on its way to each client

Questions == {"REGISTER", "MIRROR", "TIME"}
Answers == {"ADMITTED", "REFUSED", "MIRROR", "TIME"}

Init ==
  /\ open = TRUE
  /\ members = {}
  /\ question = [c \in Clients |-> "none"]
  /\ answer = [c \in Clients |-> "none"]

Ask(c, k) ==
  /\ question[c] = "none" /\ answer[c] = "none"
  /\ k # "REGISTER" => c \in members
  /\ question' = [question EXCEPT ![c] = k]
  /\ UNCHANGED <<open, members, answer>>

Give(c, a) ==
  /\ open
  /\ question' = [question EXCEPT ![c] = "none"]
  /\ answer' = [answer EXCEPT ![c] = a]
  /\ UNCHANGED open

Admit(c) ==
  /\ question[c] = "REGISTER"
  /\ c \notin members /\ Cardinality(members) < MAX_CLIENTS
  /\ Give(c, "ADMITTED")
  /\ members' = members \cup {c}

Refuse(c) ==
  /\ question[c] = "REGISTER"
  /\ Cardinality(members) = MAX_CLIENTS
  /\ Give(c, "REFUSED")
  /\ UNCHANGED members

Answer(c) ==
  /\ question[c] \in {"MIRROR", "TIME"} /\ c \in members
  /\ Give(c, question[c])
  /\ UNCHANGED members

Receive(c) ==
  /\ answer[c] # "none"
  /\ answer' = [answer EXCEPT ![c] = "none"]
  /\ UNCHANGED <<open, members, question>>

(* A member leaves when everything it asked has been handled. *)
Leave(c) ==
  /\ open
  /\ c \in members /\ question[c] = "none"
  /\ members' = members \ {c}
  /\ UNCHANGED <<open, question, answer>>

(* Closing the service, or the end of its queues afterwards. *)
Close ==
  /\ open' = FALSE
  /\ \E lost \in SUBSET Clients :
       /\ question' = [c \in Clients |-> IF c \in lost THEN "none" ELSE question[c]]
       /\ answer' = [c \in Clients |-> IF c \in lost THEN "none" ELSE answer[c]]
  /\ UNCHANGED members

Next ==
  \/ \E c \in Clients :
       \/ \E k \in Questions : Ask(c, k)
       \/ Admit(c) \/ Refuse(c) \/ Answer(c) \/ Receive(c) \/ Leave(c)
  \/ Close

Spec == Init /\ [][Next]_<<open, members, question, answer>>
===============================================================================
