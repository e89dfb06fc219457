----------------------- MODULE DurableDispatchProofs ------------------------
(***************************************************************************)
(* The safety of durable dispatch for any producers, relays, ids and       *)
(* contents, any way of writing and any bounds.                            *)
(***************************************************************************)
EXTENDS DurableDispatch, FiniteSetTheorems, SequenceTheorems, TLAPS

\* Every row of the sink, and every one a record names, is what it says.
RecordsNameEffects ==
  \A row \in records :
    /\ row.effect_sequence \in EffectsOf(row.operation_id)
    /\ effects[row.effect_sequence].fingerprint = row.fingerprint

\* What a relay holds: the content of a committed intent, then an effect of it.
RelayInv ==
  \A r \in Relays :
    /\ relay[r].pc # "idle" =>
         DispatchOf(r) \in Rows /\ outbox[DispatchOf(r)].content = relay[r].content
    /\ relay[r].effect # 0 =>
         /\ relay[r].effect \in EffectsOf(DispatchOf(r))
         /\ effects[relay[r].effect].fingerprint = relay[r].content
    /\ relay[r].pc = "effected" => relay[r].effect # 0
    /\ relay[r].outcome = "acknowledged" => outbox[DispatchOf(r)].status = "acknowledged"

IInv == TypeOK /\ RecordsNameEffects /\ RelayInv /\ AcknowledgedNamesEffect /\ AcknowledgedOnce
-----------------------------------------------------------------------------
\* A row appended to a sequence of rows changes nothing before it.
LEMMA AppendedRow ==
  ASSUME NEW S, NEW s \in Seq(S), NEW e \in S
  PROVE  /\ Append(s, e) \in Seq(S)
         /\ Len(s) \in Nat
         /\ DOMAIN s = 1 .. Len(s)
         /\ DOMAIN Append(s, e) = 1 .. (Len(s) + 1)
         /\ \A i \in DOMAIN s : Append(s, e)[i] = s[i]
         /\ Append(s, e)[Len(s) + 1] = e
BY AppendProperties, LenProperties

LEMMA SomeIntentTyped == SomeIntent \in Intent
<1>1. PICK d \in DispatchIds, v \in Contents : TRUE
  BY IntentsAssumption
<1>2. [dispatch_id |-> d, content |-> v] \in Intent
  BY DEF Intent
<1> QED
  BY <1>2 DEF SomeIntent

LEMMA InitTypeOK == Init => TypeOK
<1> SUFFICES ASSUME Init PROVE TypeOK
  OBVIOUS
<1> USE DEF Init, Sink!Init
<1>1. authority \in [state : AuthorityState, generation : Nat]
  BY DEF AuthorityState, Unopened
<1>2. outbox \in [DispatchIds -> OutboxRow \cup {Absent}]
  OBVIOUS
<1>3. producer \in [Producers -> [pc : {"idle", "updated", "half"}, intent : Intent]]
  BY SomeIntentTyped
<1>4. \A p \in Producers : writer = p <=> producer[p].pc = "updated"
  BY NoProducerAssumption
<1>5. relay \in [Relays -> Attempt]
  BY SomeIntentTyped DEF Attempt, Outcome, Intent
<1>6. effects \in Seq(Sink!EffectRow) /\ records \in SUBSET Sink!RecordRow /\
        window \in [DispatchIds -> Nat]
  OBVIOUS
<1> QED
  BY <1>1, <1>2, <1>3, <1>4, <1>5, <1>6 DEF TypeOK

LEMMA OpenKeepsTypeOK == TypeOK /\ Open => TypeOK'
BY DEF TypeOK, Open, CreateAuthority, SeedIfEmpty, Opened, AuthorityState, Unopened, sink

\* A committed requirement, and the row of its intent.
LEMMA CommittedTyped ==
  ASSUME TypeOK, NEW content \in Contents
  PROVE  /\ PendingRow(content) \in OutboxRow
         /\ Required \in [state : AuthorityState, generation : Nat]
         /\ Required.state \notin Unopened
         /\ Required.generation = authority.generation + 1
BY DEF TypeOK, PendingRow, OutboxRow, Required, AuthorityState, Unopened

LEMMA ProduceKeepsTypeOK ==
  ASSUME TypeOK, NEW p \in Producers, Produce(p)
  PROVE  TypeOK'
<1> USE DEF TypeOK, Becomes, Idle, store, sink
<1>0. IntentOf(p) \in Intent /\ IntentOf(p).dispatch_id \in DispatchIds /\
        IntentOf(p).content \in Contents
  BY DEF IntentOf, Intent
<1>1. ASSUME NEW intent \in Intent, BeginCommit(p, intent) PROVE TypeOK'
  BY <1>1, NoProducerAssumption DEF BeginCommit, Opened
<1>2. ASSUME NEW intent \in Intent, CommitAuthorityOnly(p, intent) PROVE TypeOK'
  <2>1. PICK v \in Contents : TRUE
    BY IntentsAssumption
  <2> QED
    BY <1>2, <2>1, CommittedTyped, NoProducerAssumption DEF CommitAuthorityOnly, Opened
<1>3. CASE CommitWithOutbox(p)
  BY <1>0, <1>3, CommittedTyped, SomeIntentTyped, NoProducerAssumption DEF CommitWithOutbox, Opened
<1>4. CASE RollbackCommit(p)
  BY <1>4, SomeIntentTyped, NoProducerAssumption DEF RollbackCommit, Opened
<1>5. CASE InsertDispatch(p)
  BY <1>0, <1>5, CommittedTyped, SomeIntentTyped, NoProducerAssumption DEF InsertDispatch, Opened
<1>6. CASE LoseDispatch(p)
  BY <1>6, SomeIntentTyped, NoProducerAssumption DEF LoseDispatch, Opened
<1> QED
  BY <1>1, <1>2, <1>3, <1>4, <1>5, <1>6 DEF Produce

\* What the sink commits is typed.
LEMMA AdmittedTyped ==
  ASSUME TypeOK, NEW d \in DispatchIds, NEW content \in Contents, Sink!Admit(d, content)
  PROVE  /\ effects' = Append(effects, [operation_id |-> d, fingerprint |-> content,
                                        window |-> window[d]])
         /\ effects' \in Seq(Sink!EffectRow)
         /\ DOMAIN effects = 1 .. Len(effects) /\ Len(effects) \in Nat
         /\ DOMAIN effects' = 1 .. (Len(effects) + 1)
         /\ Len(effects') = Len(effects) + 1
         /\ \A i \in DOMAIN effects : effects'[i] = effects[i]
         /\ effects'[Len(effects) + 1] = [operation_id |-> d, fingerprint |-> content,
                                          window |-> window[d]]
         /\ records' = records \cup {[operation_id |-> d, fingerprint |-> content,
                                      effect_sequence |-> Len(effects) + 1]}
         /\ records' \in SUBSET Sink!RecordRow
         /\ window' = window
<1> DEFINE row == [operation_id |-> d, fingerprint |-> content, window |-> window[d]]
<1>1. row \in Sink!EffectRow /\ effects \in Seq(Sink!EffectRow) /\ records \in SUBSET Sink!RecordRow
  BY DEF TypeOK, Sink!EffectRow
<1>2. effects' = Append(effects, row) /\ window' = window
      /\ records' = records \cup {[operation_id |-> d, fingerprint |-> content,
                                   effect_sequence |-> Len(effects) + 1]}
  BY DEF Sink!Admit
<1>3. Len(effects) \in Nat
  BY <1>1, LenProperties
<1>4. [operation_id |-> d, fingerprint |-> content, effect_sequence |-> Len(effects) + 1]
        \in Sink!RecordRow
  BY <1>3 DEF Sink!RecordRow
<1> HIDE DEF row
<1>5. /\ Append(effects, row) \in Seq(Sink!EffectRow)
      /\ DOMAIN effects = 1 .. Len(effects)
      /\ DOMAIN Append(effects, row) = 1 .. (Len(effects) + 1)
      /\ \A i \in DOMAIN effects : Append(effects, row)[i] = effects[i]
      /\ Append(effects, row)[Len(effects) + 1] = row
      /\ Len(Append(effects, row)) = Len(effects) + 1
  BY <1>1, AppendedRow, AppendProperties
<1> QED
  BY <1>1, <1>2, <1>3, <1>4, <1>5 DEF row

LEMMA AttemptTyped ==
  ASSUME TypeOK, NEW r \in Relays
  PROVE  relay[r] \in Attempt /\ DispatchOf(r) \in DispatchIds /\ relay[r].content \in Contents
BY DEF TypeOK, Attempt, DispatchOf

LEMMA RelayKeepsTypeOK ==
  ASSUME TypeOK, NEW r \in Relays,
         \/ ApplyEffect(r) \/ Acknowledge(r) \/ CrashRelay(r)
         \/ \E d \in DispatchIds : ReadRecord(r, d) \/ RefuseDispatch(r, d)
  PROVE  TypeOK'
<1>0. relay[r] \in Attempt /\ DispatchOf(r) \in DispatchIds /\ relay[r].content \in Contents
  BY AttemptTyped
<1>1. ASSUME NEW a \in Attempt,
        relay' = [relay EXCEPT ![r] = a] PROVE relay' \in [Relays -> Attempt]
  BY <1>1 DEF TypeOK
<1>2. CASE ApplyEffect(r)
  <2>1. ASSUME Sink!Admit(DispatchOf(r), relay[r].content), Effected(r, "applied", Len(effects'))
        PROVE  /\ relay' \in [Relays -> Attempt]
               /\ effects' \in Seq(Sink!EffectRow) /\ records' \in SUBSET Sink!RecordRow
               /\ window' = window
    <3>1. Len(effects') \in Nat
      BY <1>0, <2>1, AdmittedTyped
    <3>2. relay' \in [Relays -> Attempt]
      BY <1>0, <2>1, <3>1 DEF Effected, Attempt, TypeOK
    <3> QED
      BY <1>0, <2>1, <3>2, AdmittedTyped
  <2>2. ASSUME NEW row \in RecordsOf(DispatchOf(r)), Effected(r, "replayed", row.effect_sequence)
        PROVE  relay' \in [Relays -> Attempt]
    <3>1. row.effect_sequence \in Nat
      BY <2>2 DEF RecordsOf, TypeOK, Sink!RecordRow
    <3> QED
      BY <1>0, <2>2, <3>1 DEF Effected, Attempt, TypeOK
  <2>3. ASSUME Ends(r, "conflict") PROVE relay' \in [Relays -> Attempt]
    BY <1>0, <2>3 DEF Ends, Attempt, Outcome, TypeOK
  <2>4. /\ relay' \in [Relays -> Attempt]
        /\ effects' \in Seq(Sink!EffectRow) /\ records' \in SUBSET Sink!RecordRow
        /\ window' = window
    BY <1>2, <2>1, <2>2, <2>3 DEF ApplyEffect, sink, TypeOK
  <2> QED
    BY <1>2, <2>4 DEF ApplyEffect, TypeOK, store, Opened
<1>3. CASE Acknowledge(r)
  <2>1. relay' \in [Relays -> Attempt]
    <3>1. PICK outcome \in {"acknowledged", "dispatch-not-pending"} : Ends(r, outcome)
      BY <1>3 DEF Acknowledge
    <3>2. [relay[r] EXCEPT !.pc = "idle", !.outcome = outcome] \in Attempt
      BY <1>0 DEF Attempt, Outcome
    <3>3. relay' = [relay EXCEPT ![r] = [relay[r] EXCEPT !.pc = "idle", !.outcome = outcome]]
      BY <3>1 DEF Ends, TypeOK
    <3> QED
      BY <1>1, <3>2, <3>3
  <2>2. outbox' \in [DispatchIds -> OutboxRow \cup {Absent}]
    <3>1. CASE outbox[DispatchOf(r)].status = "pending"
      <4>1. outbox[DispatchOf(r)] \in OutboxRow
        BY <1>0, <3>1 DEF TypeOK, Absent
      <4>2. relay[r].effect \in Nat
        BY <1>0 DEF Attempt
      <4>3. [outbox[DispatchOf(r)] EXCEPT !.status = "acknowledged",
              !.effect = relay[r].effect] \in OutboxRow
        BY <4>1, <4>2 DEF OutboxRow
      <4> QED
        BY <1>0, <1>3, <3>1, <4>3 DEF Acknowledge, TypeOK
    <3>2. CASE outbox[DispatchOf(r)].status # "pending"
      BY <1>3, <3>2 DEF Acknowledge, TypeOK
    <3> QED
      BY <3>1, <3>2
  <2> QED
    BY <1>3, <2>1, <2>2 DEF Acknowledge, TypeOK, Opened, sink
<1>4. CASE CrashRelay(r)
  <2>1. relay' \in [Relays -> Attempt]
    BY <1>0, <1>4 DEF CrashRelay, Started, Attempt, Outcome, TypeOK
  <2> QED
    BY <1>4, <2>1 DEF CrashRelay, TypeOK, store, sink, Opened
<1>5. ASSUME NEW d \in DispatchIds, ReadRecord(r, d) PROVE TypeOK'
  <2>1. outbox[d].content \in Contents
    BY <1>5 DEF ReadRecord, TypeOK, Absent, OutboxRow
  <2>2. relay' \in [Relays -> Attempt]
    BY <1>0, <1>5, <2>1 DEF ReadRecord, Started, Attempt, Outcome, TypeOK
  <2> QED
    BY <1>5, <2>2 DEF ReadRecord, TypeOK, store, sink, Opened
<1>6. ASSUME NEW d \in DispatchIds, RefuseDispatch(r, d) PROVE TypeOK'
  <2>1. relay' \in [Relays -> Attempt]
    BY <1>0, <1>6 DEF RefuseDispatch, Started, Attempt, Outcome, TypeOK
  <2> QED
    BY <1>6, <2>1 DEF RefuseDispatch, TypeOK, store, sink, Opened
<1> QED
  BY <1>2, <1>3, <1>4, <1>5, <1>6

LEMMA SinkUsersKeepTypeOK ==
  ASSUME TypeOK, NEW d \in DispatchIds,
         Expire(d) \/ \E content \in Contents : ForeignApply(d, content)
  PROVE  TypeOK'
<1>1. CASE Expire(d)
  BY <1>1 DEF Expire, Sink!Forget, TypeOK, store, Opened
<1>2. ASSUME NEW content \in Contents, ForeignApply(d, content) PROVE TypeOK'
  BY <1>2, AdmittedTyped DEF ForeignApply, TypeOK, store, Opened
<1> QED
  BY <1>1, <1>2

\* The actors of a step, one relay or producer at most.
LEMMA StepCases ==
  ASSUME [Next]_vars
  PROVE  \/ Open
         \/ \E p \in Producers : Produce(p)
         \/ \E r \in Relays : \/ ApplyEffect(r) \/ Acknowledge(r) \/ CrashRelay(r)
                              \/ \E d \in DispatchIds : ReadRecord(r, d) \/ RefuseDispatch(r, d)
         \/ \E d \in DispatchIds : Expire(d) \/ \E content \in Contents : ForeignApply(d, content)
         \/ UNCHANGED vars
BY DEF Next, Scan

LEMMA NextKeepsTypeOK == TypeOK /\ [Next]_vars => TypeOK'
<1> SUFFICES ASSUME TypeOK, [Next]_vars PROVE TypeOK'
  OBVIOUS
<1>1. CASE UNCHANGED vars
  BY <1>1 DEF TypeOK, vars, Opened
<1> QED
  BY <1>1, StepCases, OpenKeepsTypeOK, ProduceKeepsTypeOK, RelayKeepsTypeOK, SinkUsersKeepTypeOK

\* The state of store, producers, relays and sink is always typed, and the
\* write lock is held by a producer inside its transaction only.
THEOREM DispatchTypeOK == Spec => []TypeOK
<1> QED
  BY InitTypeOK, NextKeepsTypeOK, PTL DEF Spec
-----------------------------------------------------------------------------
\* How the outbox changes: not at all, by a new intent, or by an acknowledgement.
Inserted(d, content) ==
  outbox[d] = Absent /\ outbox' = [outbox EXCEPT ![d] = PendingRow(content)]

AcknowledgedBy(r) ==
  /\ relay[r].pc = "effected"
  /\ outbox[DispatchOf(r)].status = "pending"
  /\ outbox' = [outbox EXCEPT ![DispatchOf(r)].status = "acknowledged",
                              ![DispatchOf(r)].effect = relay[r].effect]

LEMMA OutboxSteps ==
  ASSUME TypeOK, [Next]_vars
  PROVE  \/ UNCHANGED outbox
         \/ \E d \in DispatchIds, content \in Contents : Inserted(d, content) /\
              UNCHANGED <<relay, sink>>
         \/ \E r \in Relays : Acknowledge(r) /\ AcknowledgedBy(r)
<1>1. ASSUME NEW p \in Producers, Produce(p)
      PROVE  \/ UNCHANGED outbox
             \/ \E d \in DispatchIds, content \in Contents : Inserted(d, content) /\
                  UNCHANGED <<relay, sink>>
  <2>1. IntentOf(p).dispatch_id \in DispatchIds /\ IntentOf(p).content \in Contents
    BY DEF TypeOK, IntentOf, Intent
  <2>2. CASE CommitWithOutbox(p) \/ InsertDispatch(p)
    BY <2>1, <2>2 DEF CommitWithOutbox, InsertDispatch, Inserted
  <2> QED
    BY <1>1, <2>2 DEF Produce, BeginCommit, CommitAuthorityOnly, RollbackCommit, LoseDispatch, store
<1>2. ASSUME NEW r \in Relays, Acknowledge(r)
      PROVE  UNCHANGED outbox \/ AcknowledgedBy(r)
  BY <1>2 DEF Acknowledge, AcknowledgedBy
<1> QED
  BY <1>1, <1>2, StepCases DEF Open, CreateAuthority, SeedIfEmpty, ApplyEffect, CrashRelay,
     ReadRecord, RefuseDispatch, Expire, ForeignApply, store, vars

\* An intent stays as it was committed until it is acknowledged, once.
LEMMA NextKeepsRows ==
  ASSUME TypeOK, [Next]_vars, NEW d \in Rows
  PROVE  \/ outbox'[d] = outbox[d]
         \/ /\ outbox[d].status = "pending"
            /\ outbox'[d].status = "acknowledged"
            /\ outbox'[d].content = outbox[d].content
<1>1. ASSUME NEW e \in DispatchIds, NEW content \in Contents, Inserted(e, content)
      PROVE  outbox'[d] = outbox[d]
  BY <1>1 DEF Inserted, Rows, TypeOK
<1>2. ASSUME NEW r \in Relays, AcknowledgedBy(r), DispatchOf(r) = d
      PROVE  /\ outbox[d].status = "pending"
             /\ outbox'[d].status = "acknowledged"
             /\ outbox'[d].content = outbox[d].content
  <2>1. outbox[d] \in OutboxRow /\ outbox \in [DispatchIds -> OutboxRow \cup {Absent}] /\
          d \in DispatchIds
    BY DEF Rows, TypeOK
  <2>2. outbox'[d] = [outbox[d] EXCEPT !.status = "acknowledged", !.effect = relay[r].effect]
    BY <1>2, <2>1 DEF AcknowledgedBy
  <2> QED
    BY <1>2, <2>1, <2>2 DEF AcknowledgedBy, OutboxRow
<1>3. ASSUME NEW r \in Relays, AcknowledgedBy(r), DispatchOf(r) # d
      PROVE  outbox'[d] = outbox[d]
  BY <1>3 DEF AcknowledgedBy, Rows, TypeOK
<1> QED
  BY <1>1, <1>2, <1>3, OutboxSteps

\* Whatever producers, relays and crashes do, a committed intent stays
\* discoverable and unchanged until its one acknowledgement.
THEOREM DispatchDiscoverable == Spec => DiscoverableUntilAcknowledged
<1>1. TypeOK /\ [Next]_vars =>
        [\A d \in Rows :
           \/ outbox'[d] = outbox[d]
           \/ /\ outbox[d].status = "pending"
              /\ outbox'[d].status = "acknowledged"
              /\ outbox'[d].content = outbox[d].content]_vars
  BY NextKeepsRows
<1> QED
  BY <1>1, DispatchTypeOK, PTL DEF Spec, DiscoverableUntilAcknowledged
-----------------------------------------------------------------------------
LEMMA RowsFinite ==
  ASSUME TypeOK
  PROVE  /\ IsFiniteSet(Rows) /\ IsFiniteSet(Halves)
         /\ Cardinality(Rows) \in Nat /\ Cardinality(Halves) \in Nat
         /\ authority.generation \in Nat /\ lost \in Nat
<1>1. Rows \subseteq DispatchIds /\ Halves \subseteq Producers
  BY DEF Rows, Halves
<1> QED
  BY <1>1, FiniteAssumption, FS_Subset, FS_CardinalityType DEF TypeOK

\* Who is between the two halves of a dual write.
LEMMA HalvesSteps ==
  ASSUME TypeOK, NEW p \in Producers, NEW label, NEW intent, Becomes(p, label, intent)
  PROVE  Halves' = IF label = "half" THEN Halves \cup {p} ELSE Halves \ {p}
BY DEF TypeOK, Becomes, Halves

LEMMA RowsSteps ==
  ASSUME TypeOK, NEW d \in DispatchIds, NEW content \in Contents, Inserted(d, content)
  PROVE  /\ Rows' = Rows \cup {d}
         /\ Cardinality(Rows') = Cardinality(Rows) + 1
<1>1. PendingRow(content) # Absent
  <2>1. PendingRow(content).status # Absent.status
    BY DEF PendingRow, Absent
  <2> QED
    BY <2>1
<1>2. Rows' = Rows \cup {d} /\ d \notin Rows
  BY <1>1 DEF Inserted, Rows, TypeOK
<1> QED
  BY <1>2, RowsFinite, FS_AddElement

LEMMA SameRows ==
  ASSUME TypeOK, [Next]_vars, UNCHANGED outbox \/ \E r \in Relays : AcknowledgedBy(r)
  PROVE  Rows' = Rows
<1>1. CASE UNCHANGED outbox
  BY <1>1 DEF Rows
<1>2. ASSUME NEW r \in Relays, AcknowledgedBy(r) PROVE Rows' = Rows
  <2>1. outbox[DispatchOf(r)] # Absent
    BY <1>2 DEF AcknowledgedBy, Absent
  <2>2. outbox'[DispatchOf(r)] # Absent
    <3>1. outbox'[DispatchOf(r)].status \in {"pending", "acknowledged"}
      <4>1. DispatchOf(r) \in Rows /\ outbox[DispatchOf(r)].status = "pending"
        BY <1>2, <2>1, AttemptTyped DEF Rows, AcknowledgedBy
      <4> QED
        BY <4>1, NextKeepsRows
    <3> QED
      BY <3>1 DEF Absent
  <2>3. \A d \in DispatchIds : d # DispatchOf(r) => outbox'[d] = outbox[d]
    BY <1>2 DEF AcknowledgedBy, TypeOK
  <2> QED
    BY <2>1, <2>2, <2>3 DEF Rows
<1> QED
  BY <1>1, <1>2

LEMMA ProduceKeepsAccount ==
  ASSUME TypeOK, RequirementsAccounted, NEW p \in Producers, Produce(p)
  PROVE  RequirementsAccounted'
<1>0. /\ authority.generation = Cardinality(Rows) + Cardinality(Halves) + lost
      /\ IsFiniteSet(Rows) /\ IsFiniteSet(Halves)
      /\ Cardinality(Rows) \in Nat /\ Cardinality(Halves) \in Nat
      /\ authority.generation \in Nat /\ lost \in Nat
  BY RowsFinite DEF RequirementsAccounted
<1>1. IntentOf(p).dispatch_id \in DispatchIds /\ IntentOf(p).content \in Contents
  BY DEF TypeOK, IntentOf, Intent
<1>2. producer[p].pc # "half" => p \notin Halves /\ Halves \ {p} = Halves
  BY DEF Halves
<1>3. producer[p].pc = "half" => p \in Halves /\ Cardinality(Halves \ {p}) = Cardinality(Halves) - 1
  BY <1>0, FS_RemoveElement DEF Halves
<1>4. p \notin Halves => Cardinality(Halves \cup {p}) = Cardinality(Halves) + 1
  BY <1>0, FS_AddElement
<1>5. authority' = Required => authority'.generation = authority.generation + 1
  BY <1>1, CommittedTyped
<1>6. ASSUME NEW intent \in Intent, BeginCommit(p, intent) PROVE RequirementsAccounted'
  <2>1. Halves' = Halves /\ Rows' = Rows
    BY <1>2, <1>6, HalvesSteps DEF BeginCommit, store, Rows
  <2> QED
    BY <1>0, <1>6, <2>1 DEF BeginCommit, store, RequirementsAccounted
<1>7. ASSUME NEW intent \in Intent, CommitAuthorityOnly(p, intent) PROVE RequirementsAccounted'
  <2>1. Halves' = Halves \cup {p} /\ Rows' = Rows /\ p \notin Halves
    BY <1>2, <1>7, HalvesSteps DEF CommitAuthorityOnly, Rows
  <2> QED
    BY <1>0, <1>4, <1>5, <1>7, <2>1 DEF CommitAuthorityOnly, RequirementsAccounted
<1>8. CASE CommitWithOutbox(p)
  <2>1. Halves' = Halves
    BY <1>2, <1>8, HalvesSteps DEF CommitWithOutbox, Idle
  <2>2. Cardinality(Rows') = Cardinality(Rows) + 1
    BY <1>1, <1>8, RowsSteps DEF CommitWithOutbox, Inserted
  <2> QED
    BY <1>0, <1>5, <1>8, <2>1, <2>2 DEF CommitWithOutbox, RequirementsAccounted
<1>9. CASE RollbackCommit(p)
  <2>1. Halves' = Halves /\ Rows' = Rows
    BY <1>2, <1>9, HalvesSteps DEF RollbackCommit, Idle, store, Rows
  <2> QED
    BY <1>0, <1>9, <2>1 DEF RollbackCommit, store, RequirementsAccounted
<1>10. CASE InsertDispatch(p)
  <2>1. Halves' = Halves \ {p}
    BY <1>10, HalvesSteps DEF InsertDispatch, Idle
  <2>2. Cardinality(Rows') = Cardinality(Rows) + 1
    BY <1>1, <1>10, RowsSteps DEF InsertDispatch, Inserted
  <2> QED
    BY <1>0, <1>3, <1>10, <2>1, <2>2 DEF InsertDispatch, RequirementsAccounted
<1>11. CASE LoseDispatch(p)
  <2>1. Halves' = Halves \ {p} /\ Rows' = Rows
    BY <1>11, HalvesSteps DEF LoseDispatch, Idle, store, Rows
  <2> QED
    BY <1>0, <1>3, <1>11, <2>1 DEF LoseDispatch, store, RequirementsAccounted
<1> QED
  BY <1>6, <1>7, <1>8, <1>9, <1>10, <1>11 DEF Produce

LEMMA NextKeepsAccount ==
  ASSUME TypeOK, RequirementsAccounted, [Next]_vars
  PROVE  RequirementsAccounted'
<1>1. CASE Open
  <2>1. authority'.generation = authority.generation
    BY <1>1 DEF Open, CreateAuthority, SeedIfEmpty, TypeOK, Opened, Unopened
  <2> QED
    BY <1>1, <2>1 DEF Open, CreateAuthority, SeedIfEmpty, RequirementsAccounted, Rows, Halves
<1>2. ASSUME UNCHANGED <<authority, producer, lost>>, Rows' = Rows PROVE RequirementsAccounted'
  BY <1>2 DEF RequirementsAccounted, Halves
<1>3. ASSUME NEW r \in Relays,
             \/ ApplyEffect(r) \/ Acknowledge(r) \/ CrashRelay(r)
             \/ \E d \in DispatchIds : ReadRecord(r, d) \/ RefuseDispatch(r, d)
      PROVE  RequirementsAccounted'
  <2>1. UNCHANGED <<authority, producer, lost>>
    BY <1>3 DEF ApplyEffect, Acknowledge, CrashRelay, ReadRecord, RefuseDispatch, store
  <2>2. UNCHANGED outbox \/ AcknowledgedBy(r)
    BY <1>3 DEF ApplyEffect, Acknowledge, AcknowledgedBy, CrashRelay, ReadRecord,
        RefuseDispatch, store
  <2> QED
    BY <1>2, <2>1, <2>2, SameRows
<1>4. ASSUME NEW d \in DispatchIds, Expire(d) \/ \E content \in Contents : ForeignApply(d, content)
      PROVE  RequirementsAccounted'
  BY <1>2, <1>4, SameRows DEF Expire, ForeignApply, store
<1>5. CASE UNCHANGED vars
  BY <1>2, <1>5, SameRows DEF vars
<1> QED
  BY <1>1, <1>3, <1>4, <1>5, StepCases, ProduceKeepsAccount

\* However many producers write in however many ways, a committed requirement
\* has its intent in the outbox, is between its two halves, or was lost there.
THEOREM DispatchRequirementsAccounted == Spec => []RequirementsAccounted
<1>1. Init => RequirementsAccounted
  <2> SUFFICES ASSUME Init PROVE RequirementsAccounted
    OBVIOUS
  <2>1. Rows = {} /\ Halves = {}
    BY DEF Init, Rows, Halves
  <2> QED
    BY <2>1, FS_EmptySet DEF Init, RequirementsAccounted
<1> QED
  BY <1>1, DispatchTypeOK, NextKeepsAccount, PTL DEF Spec
-----------------------------------------------------------------------------
LEMMA SinkSteps ==
  ASSUME [Next]_vars
  PROVE  \/ UNCHANGED sink
         \/ \E d \in DispatchIds : Expire(d)
         \/ \E r \in Relays : ApplyEffect(r) /\ Sink!Admit(DispatchOf(r), relay[r].content)
                            /\ Effected(r, "applied", Len(effects'))
         \/ \E d \in DispatchIds, content \in Contents : ForeignApply(d, content)
BY StepCases DEF Open, CreateAuthority, SeedIfEmpty, Produce, BeginCommit, CommitAuthorityOnly,
   CommitWithOutbox, RollbackCommit, InsertDispatch, LoseDispatch, ApplyEffect, Acknowledge,
   CrashRelay, ReadRecord, RefuseDispatch, store, sink, vars

\* Effects are appended, each with its record, or nothing happens to them.
LEMMA EffectsSteps ==
  ASSUME TypeOK, [Next]_vars
  PROVE  \/ UNCHANGED <<effects, records>>
         \/ UNCHANGED effects /\ records' \subseteq records
         \/ \E d \in DispatchIds, content \in Contents : Sink!Admit(d, content)
<1>1. ASSUME NEW d \in DispatchIds, Expire(d) PROVE UNCHANGED effects /\ records' \subseteq records
  BY <1>1 DEF Expire, Sink!Forget
<1> QED
  BY <1>1, SinkSteps, AttemptTyped DEF sink, ForeignApply

LEMMA EffectsKept ==
  ASSUME TypeOK, [Next]_vars, NEW d, NEW i \in EffectsOf(d)
  PROVE  i \in EffectsOf(d)' /\ effects'[i] = effects[i]
<1>1. ASSUME NEW e \in DispatchIds, NEW content \in Contents, Sink!Admit(e, content)
      PROVE  i \in EffectsOf(d)' /\ effects'[i] = effects[i]
  <2>1. /\ DOMAIN effects = 1 .. Len(effects) /\ Len(effects) \in Nat
        /\ DOMAIN effects' = 1 .. (Len(effects) + 1)
        /\ \A j \in DOMAIN effects : effects'[j] = effects[j]
    BY <1>1, AdmittedTyped
  <2> QED
    BY <2>1 DEF EffectsOf
<1> QED
  BY <1>1, EffectsSteps DEF EffectsOf

LEMMA NextKeepsRecords ==
  ASSUME TypeOK, RecordsNameEffects, [Next]_vars
  PROVE  RecordsNameEffects'
<1> SUFFICES ASSUME NEW row \in records'
             PROVE  /\ row.effect_sequence \in EffectsOf(row.operation_id)'
                    /\ effects'[row.effect_sequence].fingerprint = row.fingerprint
  BY DEF RecordsNameEffects
<1>1. CASE row \in records
  BY <1>1, EffectsKept DEF RecordsNameEffects
<1>2. ASSUME NEW d \in DispatchIds, NEW content \in Contents, Sink!Admit(d, content),
        row \notin records
      PROVE  /\ row.effect_sequence \in EffectsOf(row.operation_id)'
             /\ effects'[row.effect_sequence].fingerprint = row.fingerprint
  <2>1. row = [operation_id |-> d, fingerprint |-> content, effect_sequence |-> Len(effects) + 1]
    <3>1. records' = records \cup {[operation_id |-> d, fingerprint |-> content,
                                     effect_sequence |-> Len(effects) + 1]}
      BY <1>2 DEF Sink!Admit
    <3> QED
      BY <1>2, <3>1
  <2>2. /\ Len(effects) + 1 \in DOMAIN effects'
        /\ effects'[Len(effects) + 1] = [operation_id |-> d, fingerprint |-> content,
                                         window |-> window[d]]
    BY <1>2, AdmittedTyped
  <2> QED
    BY <2>1, <2>2 DEF EffectsOf
<1> QED
  BY <1>1, <1>2, EffectsSteps

\* A relay's attempt changes by its own steps only.
LEMMA MovedRelay ==
  ASSUME TypeOK, [Next]_vars, NEW r \in Relays, relay'[r] # relay[r]
  PROVE  \/ ApplyEffect(r) \/ Acknowledge(r) \/ CrashRelay(r)
         \/ \E d \in DispatchIds : ReadRecord(r, d) \/ RefuseDispatch(r, d)
<1>1. ASSUME NEW s \in Relays, s # r,
             \/ ApplyEffect(s) \/ Acknowledge(s) \/ CrashRelay(s)
             \/ \E d \in DispatchIds : ReadRecord(s, d) \/ RefuseDispatch(s, d)
      PROVE  FALSE
  BY <1>1 DEF TypeOK, ApplyEffect, Effected, Ends, Acknowledge, CrashRelay, Started,
     ReadRecord, RefuseDispatch
<1> QED
  BY <1>1, StepCases DEF Open, CreateAuthority, SeedIfEmpty, Produce, BeginCommit,
     CommitAuthorityOnly, CommitWithOutbox, RollbackCommit, InsertDispatch, LoseDispatch,
     Expire, ForeignApply, vars

\* What its own step leaves in a relay.
LEMMA RelaySteps ==
  ASSUME TypeOK, [Next]_vars, NEW r \in Relays, relay'[r] # relay[r]
  PROVE  \/ /\ ApplyEffect(r)
            /\ DispatchOf(r)' = DispatchOf(r) /\ relay'[r].content = relay[r].content
            /\ relay'[r].outcome \in {relay[r].outcome, "conflict"}
            /\ \/ relay'[r].pc = "effected"
               \/ relay'[r].pc = "idle" /\ relay'[r].effect = relay[r].effect
         \/ /\ Acknowledge(r)
            /\ DispatchOf(r)' = DispatchOf(r) /\ relay'[r].content = relay[r].content
            /\ relay'[r].pc = "idle" /\ relay'[r].effect = relay[r].effect
            /\ relay'[r].outcome = "acknowledged" => AcknowledgedBy(r)
         \/ /\ relay'[r].effect = 0 /\ relay'[r].pc = "idle"
            /\ relay'[r].outcome \in {"crashed", "dispatch-not-pending"}
         \/ /\ relay'[r].effect = 0 /\ relay'[r].pc = "read" /\ relay'[r].outcome = "none"
            /\ UNCHANGED outbox
            /\ outbox[DispatchOf(r)'].status = "pending"
            /\ relay'[r].content = outbox[DispatchOf(r)'].content
<1>0. relay[r] \in Attempt /\ relay \in [Relays -> Attempt]
  BY DEF TypeOK
<1>1. ASSUME NEW decision, NEW n, Effected(r, decision, n)
      PROVE  /\ DispatchOf(r)' = DispatchOf(r) /\ relay'[r].content = relay[r].content
             /\ relay'[r].outcome = relay[r].outcome /\ relay'[r].pc = "effected"
             /\ relay'[r].effect = n
  BY <1>0, <1>1 DEF Effected, DispatchOf, Attempt
<1>2. ASSUME NEW outcome, Ends(r, outcome)
      PROVE  /\ DispatchOf(r)' = DispatchOf(r) /\ relay'[r].content = relay[r].content
             /\ relay'[r].outcome = outcome /\ relay'[r].pc = "idle"
             /\ relay'[r].effect = relay[r].effect
  BY <1>0, <1>2 DEF Ends, DispatchOf, Attempt
<1>3. ASSUME NEW d, NEW content, NEW label, NEW outcome, Started(r, d, content, label, outcome)
      PROVE  /\ DispatchOf(r)' = d /\ relay'[r].content = content
             /\ relay'[r].outcome = outcome /\ relay'[r].pc = label /\ relay'[r].effect = 0
  BY <1>0, <1>3 DEF Started, DispatchOf
<1>4. CASE ApplyEffect(r)
  BY <1>1, <1>2, <1>4 DEF ApplyEffect
<1>5. CASE Acknowledge(r)
  BY <1>2, <1>5 DEF Acknowledge, AcknowledgedBy
<1>6. CASE CrashRelay(r)
  BY <1>3, <1>6 DEF CrashRelay
<1>7. ASSUME NEW d \in DispatchIds, ReadRecord(r, d)
      PROVE  /\ relay'[r].effect = 0 /\ relay'[r].pc = "read" /\ relay'[r].outcome = "none"
             /\ UNCHANGED outbox
             /\ outbox[DispatchOf(r)'].status = "pending"
             /\ relay'[r].content = outbox[DispatchOf(r)'].content
  BY <1>3, <1>7 DEF ReadRecord, store
<1>8. ASSUME NEW d \in DispatchIds, RefuseDispatch(r, d)
      PROVE  /\ relay'[r].effect = 0 /\ relay'[r].pc = "idle"
             /\ relay'[r].outcome \in {"crashed", "dispatch-not-pending"}
  BY <1>3, <1>8 DEF RefuseDispatch
<1> QED
  BY <1>4, <1>5, <1>6, <1>7, <1>8, MovedRelay

\* A relay that the sink has answered holds an effect of what it submitted.
LEMMA AppliedNamesEffect ==
  ASSUME TypeOK, RecordsNameEffects, NEW r \in Relays, ApplyEffect(r), relay'[r].pc = "effected"
  PROVE  /\ relay'[r].effect \in EffectsOf(DispatchOf(r))' /\ relay'[r].effect # 0
         /\ effects'[relay'[r].effect].fingerprint = relay[r].content
<1>0. relay[r] \in Attempt /\ relay \in [Relays -> Attempt]
      /\ DispatchOf(r) \in DispatchIds /\ relay[r].content \in Contents
  BY AttemptTyped DEF TypeOK
<1>1. ASSUME NEW decision, NEW n, Effected(r, decision, n)
      PROVE  relay'[r].effect = n /\ DispatchOf(r)' = DispatchOf(r)
  BY <1>0, <1>1 DEF Effected, Attempt, DispatchOf
<1>2. CASE Sink!Admit(DispatchOf(r), relay[r].content) /\ Effected(r, "applied", Len(effects'))
  <2>1. /\ relay'[r].effect = Len(effects) + 1 /\ Len(effects) \in Nat
        /\ Len(effects) + 1 \in DOMAIN effects'
        /\ effects'[Len(effects) + 1] = [operation_id |-> DispatchOf(r),
             fingerprint |-> relay[r].content,
                                         window |-> window[DispatchOf(r)]]
    BY <1>0, <1>1, <1>2, AdmittedTyped
  <2> QED
    BY <1>1, <1>2, <2>1 DEF EffectsOf
<1>3. ASSUME NEW row \in RecordsOf(DispatchOf(r)), row.fingerprint = relay[r].content,
             Effected(r, "replayed", row.effect_sequence), UNCHANGED sink
      PROVE  /\ relay'[r].effect \in EffectsOf(DispatchOf(r))' /\ relay'[r].effect # 0
             /\ effects'[relay'[r].effect].fingerprint = relay[r].content
  <2>1. row \in records /\ row.operation_id = DispatchOf(r) /\ row.effect_sequence # 0
    BY <1>3 DEF RecordsOf, TypeOK, Sink!RecordRow
  <2>2. relay'[r].effect = row.effect_sequence /\ effects' = effects
    BY <1>1, <1>3 DEF sink
  <2>3. /\ row.effect_sequence \in EffectsOf(DispatchOf(r))
        /\ effects[row.effect_sequence].fingerprint = row.fingerprint
    BY <2>1 DEF RecordsNameEffects
  <2>4. DispatchOf(r)' = DispatchOf(r)
    BY <1>1, <1>3
  <2> QED
    BY <1>3, <2>1, <2>2, <2>3, <2>4 DEF EffectsOf
<1>4. ASSUME Ends(r, "conflict") PROVE FALSE
  BY <1>0, <1>4 DEF Ends, Attempt
<1> QED
  BY <1>2, <1>3, <1>4 DEF ApplyEffect

\* A committed row keeps its content, and its acknowledgement.
LEMMA RowKept ==
  ASSUME TypeOK, [Next]_vars, NEW d \in Rows
  PROVE  /\ d \in Rows' /\ outbox'[d].content = outbox[d].content
         /\ outbox[d].status = "acknowledged" => outbox'[d] = outbox[d]
<1>1. d \in DispatchIds /\ outbox[d] \in OutboxRow
  BY DEF Rows, TypeOK
<1>2. outbox[d].status \in {"pending", "acknowledged"}
  BY <1>1 DEF OutboxRow
<1>3. outbox'[d].status \in {"pending", "acknowledged"}
  BY <1>2, NextKeepsRows
<1>4. outbox'[d] # Absent
  BY <1>3 DEF Absent
<1> QED
  BY <1>1, <1>4, NextKeepsRows DEF Rows

LEMMA PendingIsRow ==
  ASSUME NEW d \in DispatchIds, outbox[d].status \in {"pending", "acknowledged"}
  PROVE  d \in Rows
BY DEF Rows, Absent

LEMMA NextKeepsRelayInv ==
  ASSUME TypeOK, RecordsNameEffects, RelayInv, [Next]_vars
  PROVE  RelayInv'
<1> DEFINE Holds(r) ==
      /\ relay[r].pc # "idle" =>
           DispatchOf(r) \in Rows /\ outbox[DispatchOf(r)].content = relay[r].content
      /\ relay[r].effect # 0 =>
           /\ relay[r].effect \in EffectsOf(DispatchOf(r))
           /\ effects[relay[r].effect].fingerprint = relay[r].content
      /\ relay[r].pc = "effected" => relay[r].effect # 0
      /\ relay[r].outcome = "acknowledged" => outbox[DispatchOf(r)].status = "acknowledged"
<1> SUFFICES ASSUME NEW r \in Relays PROVE Holds(r)'
  BY DEF RelayInv
<1>0. Holds(r)
  BY DEF RelayInv
<1>1. TypeOK'
  BY NextKeepsTypeOK
<1>2. DispatchOf(r) \in DispatchIds /\ DispatchOf(r)' \in DispatchIds
  BY <1>1, AttemptTyped DEF TypeOK, DispatchOf, Attempt
<1>3. DispatchOf(r) \in Rows =>
        /\ DispatchOf(r) \in Rows' /\ outbox'[DispatchOf(r)].content = outbox[DispatchOf(r)].content
        /\ outbox[DispatchOf(r)].status = "acknowledged" =>
             outbox'[DispatchOf(r)] = outbox[DispatchOf(r)]
  BY RowKept
<1>4. relay[r].effect # 0 =>
        /\ relay[r].effect \in DOMAIN effects'
        /\ effects'[relay[r].effect].operation_id = DispatchOf(r)
        /\ effects'[relay[r].effect].fingerprint = relay[r].content
  BY <1>0, EffectsKept DEF EffectsOf
<1>5. relay[r].outcome = "acknowledged" => outbox'[DispatchOf(r)].status = "acknowledged"
  BY <1>0, <1>2, <1>3, PendingIsRow
<1>6. CASE relay'[r] = relay[r]
  BY <1>0, <1>3, <1>4, <1>5, <1>6 DEF DispatchOf, EffectsOf
<1>7. CASE /\ ApplyEffect(r)
           /\ DispatchOf(r)' = DispatchOf(r) /\ relay'[r].content = relay[r].content
           /\ relay'[r].outcome \in {relay[r].outcome, "conflict"}
           /\ \/ relay'[r].pc = "effected"
              \/ relay'[r].pc = "idle" /\ relay'[r].effect = relay[r].effect
  <2>1. relay[r].pc # "idle"
    BY <1>7 DEF ApplyEffect
  <2>2. CASE relay'[r].pc = "effected"
    BY <1>0, <1>3, <1>5, <1>7, <2>1, <2>2, AppliedNamesEffect
  <2>3. CASE relay'[r].pc = "idle" /\ relay'[r].effect = relay[r].effect
    BY <1>4, <1>5, <1>7, <2>3 DEF EffectsOf
  <2> QED
    BY <1>7, <2>2, <2>3
<1>8. CASE /\ Acknowledge(r)
           /\ DispatchOf(r)' = DispatchOf(r) /\ relay'[r].content = relay[r].content
           /\ relay'[r].pc = "idle" /\ relay'[r].effect = relay[r].effect
           /\ relay'[r].outcome = "acknowledged" => AcknowledgedBy(r)
  <2>1. ASSUME AcknowledgedBy(r) PROVE outbox'[DispatchOf(r)].status = "acknowledged"
    <3>1. outbox[DispatchOf(r)] \in OutboxRow
      BY <1>2, <2>1 DEF AcknowledgedBy, TypeOK, Absent
    <3> QED
      BY <1>2, <2>1, <3>1 DEF AcknowledgedBy, TypeOK, OutboxRow
  <2> QED
    BY <1>4, <1>8, <2>1 DEF EffectsOf
<1>9. CASE /\ relay'[r].effect = 0 /\ relay'[r].pc = "idle"
           /\ relay'[r].outcome \in {"crashed", "dispatch-not-pending"}
  BY <1>9
<1>10. CASE /\ relay'[r].effect = 0 /\ relay'[r].pc = "read" /\ relay'[r].outcome = "none"
            /\ UNCHANGED outbox
            /\ outbox[DispatchOf(r)'].status = "pending"
            /\ relay'[r].content = outbox[DispatchOf(r)'].content
  <2>1. DispatchOf(r)' \in Rows
    BY <1>2, <1>10, PendingIsRow
  <2>2. Rows' = Rows
    BY <1>10 DEF Rows
  <2> QED
    BY <1>10, <2>1, <2>2
<1> QED
  BY <1>6, <1>7, <1>8, <1>9, <1>10, RelaySteps

LEMMA NextKeepsAcknowledged ==
  ASSUME TypeOK, RelayInv, AcknowledgedNamesEffect, [Next]_vars
  PROVE  AcknowledgedNamesEffect'
<1> SUFFICES ASSUME NEW d \in DispatchIds, outbox'[d].status = "acknowledged"
             PROVE  /\ outbox'[d].effect \in EffectsOf(d)'
                    /\ effects'[outbox'[d].effect].fingerprint = outbox'[d].content
  BY DEF AcknowledgedNamesEffect, Rows
<1>1. CASE outbox'[d] = outbox[d]
  <2>1. d \in Rows
    BY <1>1, PendingIsRow
  <2>2. /\ outbox[d].effect \in EffectsOf(d)
        /\ effects[outbox[d].effect].fingerprint = outbox[d].content
    BY <1>1, <2>1 DEF AcknowledgedNamesEffect
  <2> QED
    BY <1>1, <2>2, EffectsKept
<1>2. ASSUME NEW e \in DispatchIds, NEW content \in Contents, Inserted(e, content)
      PROVE  outbox'[d] = outbox[d]
  <2>1. CASE e = d
    <3>1. outbox'[d] = PendingRow(content)
      BY <1>2, <2>1 DEF Inserted, TypeOK
    <3> QED
      BY <3>1 DEF PendingRow
  <2>2. CASE e # d
    BY <1>2, <2>2 DEF Inserted, TypeOK
  <2> QED
    BY <2>1, <2>2
<1>3. ASSUME NEW r \in Relays, Acknowledge(r), AcknowledgedBy(r)
      PROVE  /\ outbox'[d].effect \in EffectsOf(d)'
             /\ effects'[outbox'[d].effect].fingerprint = outbox'[d].content
  <2>1. CASE DispatchOf(r) = d
    <3>1. outbox[d] \in OutboxRow
      BY <1>3, <2>1 DEF AcknowledgedBy, TypeOK, Absent
    <3>2. outbox'[d].effect = relay[r].effect /\ outbox'[d].content = outbox[d].content
      BY <1>3, <2>1, <3>1 DEF AcknowledgedBy, TypeOK, OutboxRow
    <3>3. /\ outbox[d].content = relay[r].content
          /\ relay[r].effect \in EffectsOf(d)
          /\ effects[relay[r].effect].fingerprint = relay[r].content
      BY <1>3, <2>1 DEF RelayInv, AcknowledgedBy
    <3> QED
      BY <3>2, <3>3, EffectsKept
  <2>2. CASE DispatchOf(r) # d
    <3>1. outbox'[d] = outbox[d]
      BY <1>3, <2>2 DEF AcknowledgedBy, TypeOK
    <3> QED
      BY <1>1, <3>1
  <2> QED
    BY <2>1, <2>2
<1> QED
  BY <1>1, <1>2, <1>3, OutboxSteps

LEMMA NextKeepsAcknowledgedOnce ==
  ASSUME TypeOK, RelayInv, AcknowledgedOnce, [Next]_vars
  PROVE  AcknowledgedOnce'
<1> SUFFICES ASSUME NEW r \in Relays, NEW s \in Relays, r # s,
                    relay'[r].outcome = "acknowledged", relay'[s].outcome = "acknowledged",
                    DispatchOf(r)' = DispatchOf(s)'
             PROVE  FALSE
  BY DEF AcknowledgedOnce
<1>1. ASSUME NEW q \in Relays, relay'[q].outcome = "acknowledged"
      PROVE  \/ relay[q].outcome = "acknowledged" /\ DispatchOf(q)' = DispatchOf(q)
             \/ Acknowledge(q) /\ AcknowledgedBy(q) /\ DispatchOf(q)' = DispatchOf(q)
  BY <1>1, RelaySteps DEF DispatchOf
<1>2. ASSUME NEW q \in Relays, NEW o \in Relays, AcknowledgedBy(q),
             relay[o].outcome = "acknowledged", DispatchOf(q) = DispatchOf(o)
      PROVE  FALSE
  BY <1>2 DEF AcknowledgedBy, RelayInv
<1>3. ASSUME Acknowledge(r), Acknowledge(s) PROVE FALSE
  <2>1. relay[r].pc = "effected" /\ relay[s].pc = "effected"
    BY <1>3 DEF Acknowledge
  <2>2. relay'[r].pc = "idle" /\ relay'[s] = relay[s]
    BY <1>3 DEF Acknowledge, Ends, TypeOK, Attempt
  <2>3. relay'[s].pc = "idle"
    BY <1>3 DEF Acknowledge, Ends, TypeOK, Attempt
  <2> QED
    BY <2>1, <2>2, <2>3
<1> QED
  BY <1>1, <1>2, <1>3 DEF AcknowledgedOnce

LEMMA InitIInv == Init => IInv
<1> SUFFICES ASSUME Init PROVE IInv
  OBVIOUS
<1>1. records = {} /\ effects = <<>>
  BY DEF Init, Sink!Init
<1>2. \A r \in Relays : relay[r].pc = "idle" /\ relay[r].effect = 0 /\ relay[r].outcome = "none"
  BY DEF Init
<1>3. Rows = {}
  BY DEF Init, Rows
<1> QED
  BY <1>1, <1>2, <1>3, InitTypeOK
     DEF IInv, RecordsNameEffects, RelayInv, AcknowledgedNamesEffect, AcknowledgedOnce

LEMMA NextKeepsIInv == IInv /\ [Next]_vars => IInv'
BY NextKeepsTypeOK, NextKeepsRecords, NextKeepsRelayInv, NextKeepsAcknowledged,
   NextKeepsAcknowledgedOnce DEF IInv

LEMMA SpecIInv == Spec => []IInv
BY InitIInv, NextKeepsIInv, PTL DEF Spec

\* Whatever else happens under the same id, an acknowledged row names a visible
\* effect of its own id and content.
THEOREM DispatchAcknowledgedNamesEffect == Spec => []AcknowledgedNamesEffect
<1>1. IInv => AcknowledgedNamesEffect
  BY DEF IInv
<1> QED
  BY <1>1, SpecIInv, PTL

\* Of any number of overlapping relays one is told it acknowledged a dispatch.
THEOREM DispatchAcknowledgedOnce == Spec => []AcknowledgedOnce
<1>1. IInv => AcknowledgedOnce
  BY DEF IInv
<1> QED
  BY <1>1, SpecIInv, PTL
-----------------------------------------------------------------------------
(* With the record of an id retained until nobody will submit it again *)

\* While a dispatch whose effect is visible may still be submitted, its record is
\* there to replay: this is what keeps its effect the only one.
RetryInv ==
  \A d \in OwnIds :
    /\ \A i, j \in EffectsOf(d) : i = j
    /\ EffectsOf(d) # {} => d \in Rows
    /\ EffectsOf(d) # {} /\ ~RetriesEnded(d) => RecordsOf(d) # {}

\* Nobody takes up the retries of a committed dispatch again once they have ended.
LEMMA RetriesStayEnded ==
  ASSUME TypeOK, [Next]_vars, NEW d \in Rows, RetriesEnded(d)
  PROVE  RetriesEnded(d)'
<1>1. outbox'[d].status # "pending"
  BY NextKeepsRows DEF RetriesEnded
<1>2. ASSUME NEW r \in Relays, relay'[r].pc = "read", DispatchOf(r)' = d PROVE FALSE
  <2>1. CASE relay'[r] = relay[r]
    BY <1>2, <2>1 DEF RetriesEnded, InFlight, DispatchOf
  <2>2. CASE relay'[r] # relay[r]
    BY <1>2, <2>2, RelaySteps DEF RetriesEnded, DispatchOf
  <2> QED
    BY <2>1, <2>2
<1> QED
  BY <1>1, <1>2 DEF RetriesEnded, InFlight

LEMMA AdmittedEffects ==
  ASSUME TypeOK, NEW e \in DispatchIds, NEW content \in Contents, Sink!Admit(e, content),
         NEW d \in DispatchIds
  PROVE  /\ EffectsOf(d)' = IF d = e THEN EffectsOf(d) \cup {Len(effects) + 1} ELSE EffectsOf(d)
         /\ RecordsOf(d) \subseteq RecordsOf(d)'
         /\ RecordsOf(e) = {} /\ RecordsOf(e)' # {}
<1>1. /\ DOMAIN effects = 1 .. Len(effects) /\ Len(effects) \in Nat
      /\ DOMAIN effects' = 1 .. (Len(effects) + 1)
      /\ \A i \in DOMAIN effects : effects'[i] = effects[i]
      /\ effects'[Len(effects) + 1] = [operation_id |-> e, fingerprint |-> content,
                                       window |-> window[e]]
  BY AdmittedTyped
<1>2. EffectsOf(d)' = IF d = e THEN EffectsOf(d) \cup {Len(effects) + 1} ELSE EffectsOf(d)
  BY <1>1 DEF EffectsOf
<1>3. RecordsOf(d) \subseteq RecordsOf(d)' /\ RecordsOf(e) = {} /\ RecordsOf(e)' # {}
  <2>1. records' = records \cup {[operation_id |-> e, fingerprint |-> content,
                                   effect_sequence |-> Len(effects) + 1]}
    BY DEF Sink!Admit
  <2>2. RecordsOf(e) = {}
    BY DEF Sink!Admit, Sink!Retained, RecordsOf
  <2>3. [operation_id |-> e, fingerprint |-> content, effect_sequence |-> Len(effects) + 1]
          \in RecordsOf(e)'
    BY <2>1 DEF RecordsOf
  <2>4. RecordsOf(d) \subseteq RecordsOf(d)'
    BY <2>1 DEF RecordsOf
  <2> QED
    BY <2>2, <2>3, <2>4
<1> QED
  BY <1>2, <1>3

\* An own id has an effect only from a relay that holds its committed intent.
LEMMA FirstEffect ==
  ASSUME IInv, RetryInv, [Next]_vars, NEW r \in Relays, ApplyEffect(r), DispatchOf(r) \in OwnIds,
         Sink!Admit(DispatchOf(r), relay[r].content)
  PROVE  /\ EffectsOf(DispatchOf(r)) = {}
         /\ outbox[DispatchOf(r)].status = "pending"
<1> DEFINE d == DispatchOf(r)
<1>1. d \in DispatchIds /\ relay[r].content \in Contents /\ d \in Rows
  BY AttemptTyped DEF IInv, RelayInv, ApplyEffect
<1>2. ~RetriesEnded(d)
  BY DEF RetriesEnded, InFlight, ApplyEffect
<1>3. EffectsOf(d) = {}
  BY <1>1, <1>2, AdmittedEffects DEF IInv, RetryInv
<1>4. outbox[d] \in OutboxRow
  BY <1>1 DEF IInv, TypeOK, Rows
<1> QED
  BY <1>1, <1>3, <1>4 DEF IInv, AcknowledgedNamesEffect, OutboxRow

LEMMA NextKeepsRetryInv ==
  ASSUME Retention = "until_retries_end", IInv, RetryInv, [Next]_vars
  PROVE  RetryInv'
<1> SUFFICES ASSUME NEW d \in OwnIds
             PROVE  /\ \A i, j \in EffectsOf(d)' : i = j
                    /\ EffectsOf(d)' # {} => d \in Rows'
                    /\ EffectsOf(d)' # {} /\ ~RetriesEnded(d)' => RecordsOf(d)' # {}
  BY DEF RetryInv, OwnIds
<1>0. TypeOK /\ d \in DispatchIds
  BY DEF IInv, OwnIds
<1>1. /\ \A i, j \in EffectsOf(d) : i = j
      /\ EffectsOf(d) # {} => d \in Rows
      /\ EffectsOf(d) # {} /\ ~RetriesEnded(d) => RecordsOf(d) # {}
  BY DEF RetryInv
<1>2. d \in Rows => d \in Rows'
  BY <1>0, RowKept
<1>3. CASE EffectsOf(d)' = EffectsOf(d) /\ RecordsOf(d) \subseteq RecordsOf(d)'
  <2>1. EffectsOf(d)' # {} /\ ~RetriesEnded(d)' => ~RetriesEnded(d)
    BY <1>0, <1>1, <1>3, RetriesStayEnded
  <2> QED
    BY <1>1, <1>2, <1>3, <2>1
<1>4. CASE UNCHANGED sink
  BY <1>3, <1>4 DEF sink, EffectsOf, RecordsOf
<1>5. ASSUME NEW e \in DispatchIds, Expire(e)
      PROVE  /\ \A i, j \in EffectsOf(d)' : i = j
             /\ EffectsOf(d)' # {} => d \in Rows'
             /\ EffectsOf(d)' # {} /\ ~RetriesEnded(d)' => RecordsOf(d)' # {}
  <2>1. EffectsOf(d)' = EffectsOf(d)
    BY <1>5 DEF Expire, Sink!Forget, EffectsOf
  <2>2. CASE e = d
    <3>1. RetriesEnded(d)
      BY <1>5, <2>2 DEF Expire, ExpiryAllowed
    <3>2. RetriesEnded(d)'
      BY <1>5, <3>1 DEF Expire, RetriesEnded, InFlight, DispatchOf, store
    <3> QED
      BY <1>1, <1>2, <2>1, <3>2
  <2>3. CASE e # d
    <3>1. RecordsOf(d) \subseteq RecordsOf(d)'
      BY <1>5, <2>3 DEF Expire, Sink!Forget, RecordsOf
    <3> QED
      BY <1>3, <2>1, <3>1
  <2> QED
    BY <2>2, <2>3
<1>6. ASSUME NEW r \in Relays, ApplyEffect(r), Sink!Admit(DispatchOf(r), relay[r].content)
      PROVE  /\ \A i, j \in EffectsOf(d)' : i = j
             /\ EffectsOf(d)' # {} => d \in Rows'
             /\ EffectsOf(d)' # {} /\ ~RetriesEnded(d)' => RecordsOf(d)' # {}
  <2>0. DispatchOf(r) \in DispatchIds /\ relay[r].content \in Contents
    BY <1>0, AttemptTyped
  <2>1. CASE DispatchOf(r) = d
    <3>1. EffectsOf(d) = {} /\ outbox[d].status = "pending"
      BY <1>6, <2>1, FirstEffect
    <3>2. EffectsOf(d)' = {Len(effects) + 1} /\ RecordsOf(d)' # {}
      BY <1>0, <1>6, <2>0, <2>1, <3>1, AdmittedEffects
    <3>3. d \in Rows'
      BY <1>0, <1>2, <3>1, PendingIsRow
    <3> QED
      BY <3>2, <3>3
  <2>2. CASE DispatchOf(r) # d
    BY <1>0, <1>3, <1>6, <2>0, <2>2, AdmittedEffects
  <2> QED
    BY <2>1, <2>2
<1>7. ASSUME NEW e \in DispatchIds, NEW content \in Contents, ForeignApply(e, content)
      PROVE  /\ \A i, j \in EffectsOf(d)' : i = j
             /\ EffectsOf(d)' # {} => d \in Rows'
             /\ EffectsOf(d)' # {} /\ ~RetriesEnded(d)' => RecordsOf(d)' # {}
  <2>1. e # d /\ Sink!Admit(e, content)
    BY <1>7 DEF ForeignApply, OwnIds
  <2> QED
    BY <1>0, <1>3, <2>1, AdmittedEffects
<1> QED
  BY <1>4, <1>5, <1>6, <1>7, SinkSteps

LEMMA SpecRetryInv ==
  ASSUME Retention = "until_retries_end"
  PROVE  Spec => [](IInv /\ RetryInv)
<1>1. Init => RetryInv
  BY DEF Init, Sink!Init, RetryInv, EffectsOf
<1>2. IInv /\ RetryInv /\ [Next]_vars => RetryInv'
  BY NextKeepsRetryInv
<1> QED
  BY <1>1, <1>2, InitIInv, NextKeepsIInv, PTL DEF Spec

\* When M4 retains a record until the retries of its dispatch have ended, a dispatch
\* has one visible effect whatever relays, crashes and other users of the sink do,
\* and every relay still to acknowledge it, or refused, names that one.
THEOREM DispatchOneEffect ==
  ASSUME Retention = "until_retries_end"
  PROVE  Spec => []OneEffectPerDispatch
<1>1. IInv /\ RetryInv => OneEffectPerDispatch
  <2> SUFFICES ASSUME IInv, RetryInv, NEW d \in OwnIds
               PROVE  /\ \A i, j \in EffectsOf(d) : i = j
                      /\ EffectsOf(d) # {} => d \in Rows
                      /\ \A r \in Relays :
                           /\ DispatchOf(r) = d /\ relay[r].effect # 0
                           /\ outbox[d].status = "acknowledged"
                           => relay[r].effect = outbox[d].effect
    BY DEF OneEffectPerDispatch
  <2>1. (\A i, j \in EffectsOf(d) : i = j) /\ (EffectsOf(d) # {} => d \in Rows)
    BY DEF RetryInv
  <2>2. ASSUME NEW r \in Relays, DispatchOf(r) = d, relay[r].effect # 0,
               outbox[d].status = "acknowledged"
        PROVE  relay[r].effect = outbox[d].effect
    <3>1. relay[r].effect \in EffectsOf(d)
      BY <2>2 DEF IInv, RelayInv
    <3>2. outbox[d].effect \in EffectsOf(d)
      BY <2>2, PendingIsRow DEF IInv, AcknowledgedNamesEffect, OwnIds
    <3> QED
      BY <2>1, <3>1, <3>2
  <2> QED
    BY <2>1, <2>2
<1> QED
  BY <1>1, SpecRetryInv, PTL
-----------------------------------------------------------------------------
\* A step of store, relays and sink is a step of the contract of one own dispatch.
LEMMA NextKeepsContract ==
  ASSUME IInv, RetryInv, [Next]_vars
  PROVE  [Contract!Next]_(Contract!vars)
<1> DEFINE stage == [d \in OwnIds |-> outbox[d].status]
           visible == [d \in OwnIds |-> EffectsOf(d) # {}]
<1>0. TypeOK /\ OwnIds \subseteq DispatchIds
  BY DEF IInv, OwnIds
<1>1. ASSUME UNCHANGED sink PROVE visible' = visible
  BY <1>1 DEF sink, EffectsOf
<1>2. ASSUME NEW d \in DispatchIds, NEW content \in Contents, Inserted(d, content), UNCHANGED sink
      PROVE  [Contract!Next]_(Contract!vars)
  <2>1. \A e \in DispatchIds : outbox'[e].status = IF e = d THEN "pending" ELSE outbox[e].status
    BY <1>0, <1>2 DEF Inserted, PendingRow, TypeOK
  <2>2. CASE d \in OwnIds
    <3>1. stage[d] = "absent" /\ stage' = [stage EXCEPT ![d] = "pending"]
      <4>1. outbox[d].status = "absent"
        BY <1>2 DEF Inserted, Absent
      <4>2. \A e \in OwnIds : outbox'[e].status = IF e = d THEN "pending" ELSE outbox[e].status
        BY <1>0, <2>1
      <4> QED
        BY <2>2, <4>1, <4>2
    <3> QED
      BY <1>1, <1>2, <2>2, <3>1 DEF Contract!Next, Contract!Commit
  <2>3. CASE d \notin OwnIds
    BY <1>0, <1>1, <1>2, <2>1, <2>3 DEF Contract!vars
  <2> QED
    BY <2>2, <2>3
<1>3. ASSUME NEW r \in Relays, Acknowledge(r), AcknowledgedBy(r)
      PROVE  [Contract!Next]_(Contract!vars)
  <2> DEFINE d == DispatchOf(r)
  <2>0. d \in DispatchIds /\ outbox[d] \in OutboxRow /\ UNCHANGED sink
    BY <1>0, <1>3, AttemptTyped DEF AcknowledgedBy, Acknowledge, TypeOK, Absent
  <2>1. \A e \in DispatchIds :
          outbox'[e].status = IF e = d THEN "acknowledged" ELSE outbox[e].status
    BY <1>0, <1>3, <2>0 DEF AcknowledgedBy, TypeOK, OutboxRow
  <2>2. CASE d \in OwnIds
    <3>1. stage[d] = "pending" /\ stage' = [stage EXCEPT ![d] = "acknowledged"]
      BY <1>0, <1>3, <2>1, <2>2 DEF AcknowledgedBy
    <3>2. visible[d]
      BY <1>3, <2>2 DEF IInv, RelayInv, AcknowledgedBy
    <3> QED
      BY <1>1, <2>0, <2>2, <3>1, <3>2 DEF Contract!Next, Contract!Acknowledge
  <2>3. CASE d \notin OwnIds
    BY <1>0, <1>1, <2>0, <2>1, <2>3 DEF Contract!vars
  <2> QED
    BY <2>2, <2>3
<1>4. ASSUME UNCHANGED outbox PROVE [Contract!Next]_(Contract!vars)
  <2>0. stage' = stage
    BY <1>4
  <2>1. ASSUME \A d \in OwnIds : EffectsOf(d)' = EffectsOf(d) PROVE UNCHANGED Contract!vars
    BY <2>0, <2>1 DEF Contract!vars
  <2>2. ASSUME NEW e \in DispatchIds, Expire(e) PROVE UNCHANGED effects
    BY <2>2 DEF Expire, Sink!Forget
  <2>3. ASSUME NEW e \in DispatchIds, NEW content \in Contents, ForeignApply(e, content)
        PROVE  \A d \in OwnIds : EffectsOf(d)' = EffectsOf(d)
    BY <1>0, <2>3, AdmittedEffects DEF ForeignApply, OwnIds
  <2>4. ASSUME NEW r \in Relays, ApplyEffect(r), Sink!Admit(DispatchOf(r), relay[r].content)
        PROVE  [Contract!Next]_(Contract!vars)
    <3> DEFINE d == DispatchOf(r)
    <3>0. d \in DispatchIds /\ relay[r].content \in Contents
      BY <1>0, AttemptTyped
    <3>1. \A e \in OwnIds : EffectsOf(e)' = IF e = d THEN EffectsOf(e) \cup {Len(effects) + 1}
                                           ELSE EffectsOf(e)
      BY <1>0, <2>4, <3>0, AdmittedEffects
    <3>2. CASE d \in OwnIds
      <4>1. EffectsOf(d) = {} /\ outbox[d].status = "pending"
        BY <2>4, <3>2, FirstEffect
      <4>2. ~visible[d] /\ stage[d] = "pending"
        BY <3>2, <4>1
      <4>3. visible' = [visible EXCEPT ![d] = TRUE]
        BY <3>1, <3>2
      <4> QED
        BY <1>0, <2>0, <3>2, <4>2, <4>3 DEF Contract!Next, Contract!TakeEffect
    <3>3. CASE d \notin OwnIds
      BY <2>1, <3>1, <3>3
    <3> QED
      BY <3>2, <3>3
  <2>5. UNCHANGED effects => \A d \in OwnIds : EffectsOf(d)' = EffectsOf(d)
    BY DEF EffectsOf
  <2> QED
    BY <2>1, <2>2, <2>3, <2>4, <2>5, SinkSteps DEF sink
<1> QED
  BY <1>2, <1>3, <1>4, <1>0, OutboxSteps DEF sink

\* Under the same retention, store, relays and sink implement the contract of a
\* dispatch, except for its fairness: an effect only of a pending intent, once, and
\* an acknowledgement only after it.
THEOREM DispatchImplementsContract ==
  ASSUME Retention = "until_retries_end"
  PROVE  Spec => Contract!Init /\ [][Contract!Next]_(Contract!vars)
<1>1. Init => Contract!Init
  <2> SUFFICES ASSUME Init PROVE Contract!Init
    OBVIOUS
  <2>1. \A d \in OwnIds : outbox[d].status = "absent"
    BY DEF Init, Absent, OwnIds
  <2>2. \A d \in OwnIds : EffectsOf(d) = {}
    BY DEF Init, Sink!Init, EffectsOf
  <2> QED
    BY <2>1, <2>2 DEF Contract!Init
<1>2. IInv /\ RetryInv /\ [Next]_vars => [Contract!Next]_(Contract!vars)
  BY NextKeepsContract
<1> QED
  BY <1>1, <1>2, SpecRetryInv, PTL DEF Spec
=============================================================================
