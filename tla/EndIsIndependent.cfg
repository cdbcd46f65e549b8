SPECIFICATION Spec
CONSTANTS
  Process = {1}
  Request = {r1}
  Cleanup = {k1}
  Faults = FALSE
  None = None
INVARIANT EndIsIndependent
CHECK_DEADLOCK FALSE
