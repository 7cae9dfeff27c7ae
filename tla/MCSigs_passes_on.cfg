CONSTANTS
  Presses = 3
SPECIFICATION Spec
INVARIANTS SignalsPassedOn
CHECK_DEADLOCK FALSE
