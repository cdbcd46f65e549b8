SPECIFICATION Spec
CONSTANTS
  Workspace = {w1}
  MaxCreates = 2
  MaxDeletes = 1
  Overlap = TRUE
  Sick = FALSE
  None = None
INVARIANT ClosedTabHasNoServer
CHECK_DEADLOCK FALSE
