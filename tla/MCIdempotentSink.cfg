SPECIFICATION FairSpec
CONSTANTS
  Callers = {c1, c2}
  NoCaller = NoCaller
  OperationIds = {o1, o2}
  EffectNames = {publish}
  Payloads = {v1, v2}
  MaxExpirations = 1
INVARIANTS TypeOK AtMostOneEffectPerWindow RecordsMatchEffects AnswersAreTrue
PROPERTIES ImplementsBoundary LockReleased
