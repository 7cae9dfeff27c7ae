CONSTANTS
  p1 = p1
  p2 = p2
  k1 = k1
  k2 = k2
  Producers = {p1}
  Consumers = {k1}
  Main = Main
  Unlocked = Unlocked
  N = 1
  LINES = 1
  Signals = FALSE
SPECIFICATION FairSpec
PROPERTIES Termination
CHECK_DEADLOCK FALSE
