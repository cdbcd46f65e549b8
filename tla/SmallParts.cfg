SPECIFICATION PartsSpec
CONSTANTS
  MaxVersion = 4
  Faults = TRUE
  i1 = i1 i2 = i2 s1 = s1 s2 = s2 s3 = s3 p1 = p1 p2 = p2 p3 = p3 p4 = p4
  None = None
  Instance = {i1, i2}
  Session = {s1, s2, s3}
  Part = {p1, p2, p3, p4}
  instanceOf <- MCInstanceOf
  sessionOf <- MCSessionOf
  ProxySession = {x1, x2, x3}
  Sweep = {w1, w2, w3}
  Retries = 5
  Id = {c1, c2}
  MaxProbes = 3
  Client = {c1}
  ParentSession = {s1, s2}
  Slug = {wa, wb}
  Root = Root
  MaxTasks = 5
  Overlap = FALSE
  GitMayFail = FALSE
INVARIANTS WindowDecides QueueMayBeSpoken AudibleCanBeStopped BinaryIsWhole HeardStatusIsTrue ChoiceIsKept
PROPERTIES HeardOnce InUseIsKept IdleIsDisposed
CHECK_DEADLOCK FALSE
