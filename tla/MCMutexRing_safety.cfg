CONSTANTS
  p1 = p1
  p2 = p2
  k1 = k1
  k2 = k2
  Producers = {p1, p2}
  Consumers = {k1, k2}
  Main = Main
  Unlocked = Unlocked
  N = 2
  LINES = 4
  Signals = TRUE
SPECIFICATION Spec
SYMMETRY ThreadSymmetry
INVARIANTS OnePlacePerLine SlotExclusive StuckOnlyInWaits
PROPERTIES ImplementsBuffer
CHECK_DEADLOCK FALSE
