SPECIFICATION Spec
CONSTANTS
  MaxMessages = 2
  Own = {o1}
  Permission = {p1}
  Question = {q1}
  MaxEvents = 4
  MaxOnTheWay = 2
  MaxCalls = 2
  None = None
INVARIANTS LastAssistantExact UsageExact OfferedAtItsCall PromptsEchoed QueuedIsOffered
CHECK_DEADLOCK FALSE
