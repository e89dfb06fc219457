SPECIFICATION FairCSpec
CONSTANTS
  left = left
  right = right
  transitionA = transitionA
  transitionB = transitionB
  Actors = {left, right}
  NoActor = NoActor
  TransitionIds = {transitionA, transitionB}
  NoTransition = NoTransition
  NoSnapshot = NoSnapshot
  Kinds = {"promote", "naive_promote"}
  MaxGeneration = 2
  TargetOf <- Target
  TransitionOf <- Transition
CHECK_DEADLOCK FALSE
INVARIANTS ObservationsAgree CompetitionOutcome
PROPERTIES CompetitionEnds
