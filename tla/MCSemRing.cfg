CONSTANTS
  p1 = p1
  p2 = p2
  k1 = k1
  k2 = k2
  Producers = {p1, p2}
  Consumers = {k1, k2}
  Main = Main
  N = 2
  LINES = 4
  Signals = TRUE
SPECIFICATION FairSpec
INVARIANTS SlotExclusive FreeSlotsCounted
PROPERTIES ImplementsBuffer EndsWithMessages
CHECK_DEADLOCK FALSE
