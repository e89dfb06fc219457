CONSTANTS
  Null = Null
  direct = direct
  again = again
  recovering = recovering
  o = o
  t = t
  a = a
  b = b
  m = m
  w = w
  e = e
  Operations = {o}
  Intents = {t}
  Attempts = {a, b}
  Mechanisms = {m, w}
  Effects = {e}
  Callers = {"careful"}
  MaxEvents <- MCMaxEvents
  MaxHole = 0
  Recorders = {direct, again, recovering}
  HistoryOf <- MCHistoryOf
  MaxCrashes = 2
SPECIFICATION RFairSpec
INVARIANTS OneRunOnly AuditedWasRecorded
PROPERTIES AuditedUnlessCrashed
CHECK_DEADLOCK FALSE
