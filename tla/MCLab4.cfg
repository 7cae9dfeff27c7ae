CONSTANTS
  Lines <- MCLines
  MaxLines = 4
  BufferLines = 3
  MAX_PROGS_PIPED = 6
  Presses = 5
SPECIFICATION MCSpec
INVARIANTS OneDate
PROPERTIES InOrder OneLineAtATime EveryLineEnds
CHECK_DEADLOCK FALSE
