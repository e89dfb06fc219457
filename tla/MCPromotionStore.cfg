SPECIFICATION Spec
CONSTANTS
  Actors = {a1, a2}
  NoActor = NoActor
  TransitionIds = {t1}
  NoTransition = NoTransition
  NoSnapshot = NoSnapshot
  Kinds = {"promote", "promote_state_only", "naive_promote", "advance_for_characterization"}
  MaxGeneration = 2
SYMMETRY Symmetry
INVARIANTS TypeOK FencedAppliesToObservedVersion AnswersMatchHistory OpenedStoreHasRow
PROPERTIES ImplementsRegister
