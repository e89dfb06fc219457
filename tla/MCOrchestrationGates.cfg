CONSTANTS
  Null = Null
  Torn = Torn
  Operators = {"retrying"}
  Unasked = {FALSE}
  MaxFaults = 1
  MaxPhases = 5
SPECIFICATION Spec
INVARIANTS PromotionByItsPhase
CHECK_DEADLOCK FALSE
