SPECIFICATION Spec
CONSTANTS
  Null = Null
  Operations = {o1, o2}
  Intents = {t1, t2}
  Attempts = {a1, a2}
  Mechanisms = {m1}
  Effects = {e1}
  Callers = {"careless", "careful"}
  MaxEvents <- MCMaxEvents
  MaxHole = 2
SYMMETRY AttemptSymmetry
INVARIANTS AcceptanceMeetsContract PrefixesIncomplete AuditTellsRecovery
CHECK_DEADLOCK FALSE
