CONSTANTS
  L = 1
SPECIFICATION FairSpec
PROPERTIES TerminatesAfterSIGUSR2
CHECK_DEADLOCK FALSE
