SPECIFICATION Spec
CONSTANTS
  s1 = s1
  s2 = s2
  p1 = p1
  q1 = q1
  Session = {s1, s2}
  Permission = {p1}
  Question = {q1}
  Owner <- OneOwner
  Attachment = {a1}
  MaxEvents = 2
  MaxOnTheWay = 1
  MaxCalls = 2
  None = None
INVARIANTS FlagMeansQueued IndicatorExact
PROPERTY CompactionIsKept
CHECK_DEADLOCK FALSE
