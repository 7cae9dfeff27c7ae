CONSTANTS
  L = 4
SPECIFICATION Spec
INVARIANTS InStep SignalsAccounted StuckExplained
CHECK_DEADLOCK FALSE
