\* Clients wait for the answer before they touch a folder again.
SPECIFICATION EventsSpec
CONSTANTS
  Workspace = {w1, w2}
  MaxCreates = 3
  MaxDeletes = 2
  Overlap = FALSE
  Sick = FALSE
  None = None
INVARIANTS ViewMatchesMap StreamFollowsWorkspace ConnectedIsTrue EveryChildIsOwned PasswordFitsChild
PROPERTY ReadyGetsStream
CHECK_DEADLOCK FALSE
