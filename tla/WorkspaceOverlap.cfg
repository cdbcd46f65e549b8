\* Clients may overlap anything on one folder; instances may be sick.
SPECIFICATION EventsFairSpec
CONSTANTS
  Workspace = {w1}
  MaxCreates = 3
  MaxDeletes = 2
  Overlap = TRUE
  Sick = TRUE
  None = None
INVARIANTS PortIsLive StartedIsAlive
PROPERTIES StopsEnd DeadStreamIsDropped
CHECK_DEADLOCK FALSE
