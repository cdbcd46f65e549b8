SPECIFICATION Spec
CONSTANTS
  MaxChildren = 1
  Overlap = FALSE
INVARIANT StopIsNotDeadlocked
CHECK_DEADLOCK FALSE
