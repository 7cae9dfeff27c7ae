CONSTANTS
  c1 = c1
  c2 = c2
  c3 = c3
  Clients = {c1, c2, c3}
  Server = Server
  NoClient = NoClient
  MAX_CLIENTS = 2
  MAX_MSGS = 2
  Lines = 1
  Interruptible = {c1, c2, c3}
SYMMETRY ClientSymmetry
CHECK_DEADLOCK FALSE
SPECIFICATION Spec
INVARIANTS RepliesNeverBlock WaitersAreRegistered PlacesOnlyShrink
  LeftoversExplained ErrorExitsExplained
PROPERTIES ImplementsService
