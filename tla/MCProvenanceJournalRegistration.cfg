SPECIFICATION Spec
CONSTANTS
  Null = Null
  Operations = {o1}
  Intents = {t1}
  Attempts = {a1}
  Mechanisms = {m1}
  Effects = {e1}
  Callers = {"careful"}
  MaxEvents <- MCMaxEvents
  MaxHole = 0
INVARIANTS OneRegistration
CHECK_DEADLOCK FALSE
