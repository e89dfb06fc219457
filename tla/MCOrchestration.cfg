SPECIFICATION FairSpec
CONSTANTS
  Null = Null
  Torn = Torn
  Operators = {"any", "retrying"}
  Unasked = {TRUE, FALSE}
  MaxFaults = 3
  MaxPhases = 7
INVARIANTS TracesAgree JournalOnce HumanAtEveryGate
PROPERTIES RetriedFlowEnds
CHECK_DEADLOCK FALSE
