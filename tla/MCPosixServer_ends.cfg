CONSTANTS
  c1 = c1
  c2 = c2
  c3 = c3
  Clients = {c1, c2}
  Server = Server
  NoClient = NoClient
  MAX_CLIENTS = 2
  MAX_MSGS = 2
  Lines = 2
  Interruptible = {Server}
CHECK_DEADLOCK FALSE
SPECIFICATION FairSpec
INVARIANTS OrphansAreUnregistered
PROPERTIES RequestsBeforeEndAnswered ClientsEndWithServer
