SPECIFICATION FairCSpec
CONSTANTS
  d2 = d2
  publish = publish
  v2 = v2
  Producers = {p1}
  NoProducer = NoProducer
  Relays = {r1, r2}
  NoRelay = NoRelay
  DispatchIds = {d1, d2}
  EffectNames = {publish}
  Payloads = {v1, v2}
  Contents <- MCContents
  Writes = {"outbox"}
  Retention = "until_retries_end"
  Foreign <- MCForeign
  MaxGeneration = 2
  MaxExpirations = 1
  MaxCrashes = 1
INVARIANTS OneEffectPerDispatch
PROPERTIES ImplementsDispatch ImplementsContract
