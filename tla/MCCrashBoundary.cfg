SPECIFICATION FairSpec
CONSTANTS
  Null = Null
  MaxFaults = 2
  MaxResumes = 3
INVARIANTS NothingLost RecordedMeansNoReplay IdempotentOneEffect
PROPERTIES CheckpointedNotRepeated WorkflowPasses
CHECK_DEADLOCK FALSE
