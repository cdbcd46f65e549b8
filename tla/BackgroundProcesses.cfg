SPECIFICATION FairSpec
CONSTANTS
  Process = {1, 2}
  Request = {r1}
  Cleanup = {k1}
  Faults = TRUE
  None = None
INVARIANTS StoppedIsDead CleanupLeavesNone
PROPERTY WaitsEnd
CHECK_DEADLOCK FALSE
