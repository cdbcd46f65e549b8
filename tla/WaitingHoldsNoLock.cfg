SPECIFICATION Spec
CONSTANTS
  s1 = s1
  s2 = s2
  p1 = p1
  q1 = q1
  Session = {s1}
  Permission = {p1}
  Question = {q1}
  Owner <- OneOwner
  Attachment = {a1}
  MaxEvents = 3
  MaxOnTheWay = 2
  MaxCalls = 2
  None = None
INVARIANT WaitingHoldsNoLock
CHECK_DEADLOCK FALSE
