SPECIFICATION Spec
CONSTANTS
  v2 = v2
  Producers = {p1, p2}
  NoProducer = NoProducer
  Relays = {r1, r2}
  DispatchIds = {d1, d2}
  Contents = {v1, v2}
  Writes = {"outbox", "dual_write"}
  Retention = "any_time"
  Foreign <- MCForeign
  MaxGeneration = 2
  MaxExpirations = 1
  MaxCrashes = 1
SYMMETRY Symmetry
INVARIANTS TypeOK RequirementsAccounted AcknowledgedNamesEffect AcknowledgedOnce
PROPERTIES DiscoverableUntilAcknowledged
