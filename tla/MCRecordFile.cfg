CONSTANTS
  Keys = {1, 2, 3}
  num_of_records = 3
  MaxLength = 4
  Faults = 2
SPECIFICATION Spec
INVARIANTS LostPerFault SortedStably CopyIsPrefix
CHECK_DEADLOCK FALSE
