-------------------------- MODULE DurableDispatch ---------------------------
(***************************************************************************)
(* M7: the dispatch store of durable_dispatch.py, its producers, and the   *)
(* relays that bring pending intents to the M4 sink.  Store and sink are   *)
(* two databases: nothing is atomic across them.                           *)
(*                                                                         *)
(* A call of the sink is one step here, an Admit of EffectBoundary or no   *)
(* change: that is what IdempotentSink is shown to implement.              *)
(***************************************************************************)
EXTENDS Naturals, Sequences, FiniteSets

CONSTANTS Producers, Relays, NoProducer,
          DispatchIds,
          Contents,        \* <<effect_name, payload>> of an intent
          Writes,          \* how producers commit: "outbox", "dual_write"
          Retention,       \* when the sink may expire the record of an id
          Foreign,         \* <<id, content>> that others submit to the sink
          MaxGeneration,   \* bound on committed requirements
          MaxExpirations,  \* bound on expirations per id
          MaxCrashes       \* bound on relay crashes

Retentions == {"until_retries_end", "until_acknowledged", "any_time"}

ASSUME IntentsAssumption == DispatchIds # {} /\ Contents # {}
ASSUME FiniteAssumption == IsFiniteSet(DispatchIds) /\ IsFiniteSet(Producers)
ASSUME NoProducerAssumption == NoProducer \notin Producers
ASSUME WritesAssumption == Writes \subseteq {"outbox", "dual_write"}
ASSUME RetentionAssumption == Retention \in Retentions
ASSUME ForeignAssumption == Foreign \subseteq DispatchIds \X Contents
ASSUME BoundsAssumption ==
  MaxGeneration \in Nat /\ MaxExpirations \in Nat /\ MaxCrashes \in Nat

VARIABLES
  authority,  \* the row of table authority: state and generation
  outbox,     \* dispatch id -> its row of table outbox
  writer,     \* the producer inside commit_with_outbox's transaction
  producer,   \* what each producer is doing, and its intent
  relay,      \* the same for each relay, inside dispatch_one
  lost,       \* history: requirements committed whose intent never was
  crashes,    \* history: relay crashes
  effects, records, window   \* the sink

sink == <<effects, records, window>>
store == <<authority, outbox>>
vars == <<authority, outbox, writer, producer, relay, lost, crashes, effects, records, window>>

Sink == INSTANCE EffectBoundary WITH OperationIds <- DispatchIds, Fingerprints <- Contents

\* Table authority is missing, or is there without its row and without table outbox.
Unopened == {"missing", "empty"}
Opened == authority.state \notin Unopened
AuthorityState == Unopened \cup {"candidate", "dispatch-required"}

OutboxRow == [status : {"pending", "acknowledged"}, content : Contents, effect : Nat]
Absent == [status |-> "absent"]
Intent == [dispatch_id : DispatchIds, content : Contents]
Outcome == {"none", "acknowledged", "dispatch-not-pending", "conflict", "crashed"}
Attempt == [pc : {"idle", "read", "effected"}, dispatch_id : DispatchIds, content : Contents,
            decision : {"none", "applied", "replayed"}, effect : Nat, outcome : Outcome]

\* Types of the store, of the sink and of what producers and relays hold; the
\* write lock is held inside a transaction only, and only in an opened store.
TypeOK ==
  /\ authority \in [state : AuthorityState, generation : Nat]
  /\ outbox \in [DispatchIds -> OutboxRow \cup {Absent}]
  /\ writer \in Producers \cup {NoProducer}
  /\ producer \in [Producers -> [pc : {"idle", "updated", "half"}, intent : Intent]]
  /\ \A p \in Producers : writer = p <=> producer[p].pc = "updated"
  /\ ~Opened => writer = NoProducer /\ authority.generation = 0
  /\ relay \in [Relays -> Attempt]
  /\ lost \in Nat /\ crashes \in Nat
  /\ effects \in Seq(Sink!EffectRow)
  /\ records \in SUBSET Sink!RecordRow
  /\ window \in [DispatchIds -> Nat]

\* The store's file does not exist yet.  The intents and attempts of the first
\* state mean nothing: nobody reads them.
SomeIntent == CHOOSE i \in Intent : TRUE
Init ==
  /\ authority = [state |-> "missing", generation |-> 0]
  /\ outbox = [d \in DispatchIds |-> Absent]
  /\ writer = NoProducer
  /\ producer = [p \in Producers |-> [pc |-> "idle", intent |-> SomeIntent]]
  /\ relay = [r \in Relays |->
       [pc |-> "idle", dispatch_id |-> SomeIntent.dispatch_id, content |-> SomeIntent.content,
        decision |-> "none", effect |-> 0, outcome |-> "none"]]
  /\ lost = 0 /\ crashes = 0
  /\ Sink!Init
-----------------------------------------------------------------------------
(* Opening: every process, and again after each death, runs _initialize.  It *)
(* may die in the middle; the next to open goes on from what it finds.        *)

\* CREATE TABLE IF NOT EXISTS authority, which commits by itself.
CreateAuthority ==
  /\ authority.state = "missing"
  /\ authority' = [authority EXCEPT !.state = "empty"]
  /\ UNCHANGED <<outbox, writer, producer, relay, lost, crashes, sink>>

\* INSERT OR IGNORE of the row, which opens a transaction that ends with the
\* CREATE TABLE IF NOT EXISTS outbox: nothing changes when the row is there.
SeedIfEmpty ==
  /\ authority.state = "empty"
  /\ authority' = [state |-> "candidate", generation |-> 0]
  /\ UNCHANGED <<outbox, writer, producer, relay, lost, crashes, sink>>
-----------------------------------------------------------------------------
(* Producers *)

PendingRow(content) == [status |-> "pending", content |-> content, effect |-> 0]
Required == [state |-> "dispatch-required", generation |-> authority.generation + 1]
IntentOf(p) == producer[p].intent
Becomes(p, label, intent) == producer' = [producer EXCEPT ![p] = [pc |-> label, intent |-> intent]]
Idle(p) == Becomes(p, "idle", SomeIntent)

\* commit_with_outbox: BEGIN IMMEDIATE and the UPDATE, which nobody sees yet.
BeginCommit(p, intent) ==
  /\ Opened
  /\ producer[p].pc = "idle" /\ "outbox" \in Writes
  /\ writer = NoProducer
  /\ authority.generation < MaxGeneration
  /\ writer' = p
  /\ Becomes(p, "updated", intent)
  /\ UNCHANGED <<store, relay, lost, crashes, sink>>

\* Mutant: INSERT OR REPLACE takes over the row of an earlier intent.
CommitReplacing(p) ==
  /\ producer[p].pc = "updated"
  /\ authority' = Required
  /\ outbox' = [outbox EXCEPT ![IntentOf(p).dispatch_id] = PendingRow(IntentOf(p).content)]
  /\ writer' = NoProducer
  /\ Idle(p)
  /\ UNCHANGED <<relay, lost, crashes, sink>>

\* Its INSERT and COMMIT.
CommitWithOutbox(p) ==
  /\ producer[p].pc = "updated"
  /\ outbox[IntentOf(p).dispatch_id] = Absent
  /\ authority' = Required
  /\ outbox' = [outbox EXCEPT ![IntentOf(p).dispatch_id] = PendingRow(IntentOf(p).content)]
  /\ writer' = NoProducer
  /\ Idle(p)
  /\ UNCHANGED <<relay, lost, crashes, sink>>

\* Mutant: without BEGIN the UPDATE is already committed.
RollbackKeepingUpdate(p) ==
  /\ producer[p].pc = "updated"
  /\ authority' = Required
  /\ writer' = NoProducer
  /\ Idle(p)
  /\ UNCHANGED <<outbox, relay, lost, crashes, sink>>

\* Mutant: the exception leaves the transaction open.
RollbackHoldingLock(p) ==
  /\ producer[p].pc = "updated"
  /\ Idle(p)
  /\ UNCHANGED <<store, writer, relay, lost, crashes, sink>>

\* A duplicate dispatch id, a failing statement or a crash: the whole
\* transaction is rolled back.
RollbackCommit(p) ==
  /\ producer[p].pc = "updated"
  /\ writer' = NoProducer
  /\ Idle(p)
  /\ UNCHANGED <<store, relay, lost, crashes, sink>>

\* The naive dual write: the requirement first ...
CommitAuthorityOnly(p, intent) ==
  /\ Opened
  /\ producer[p].pc = "idle" /\ "dual_write" \in Writes
  /\ writer = NoProducer
  /\ authority.generation < MaxGeneration
  /\ authority' = Required
  /\ Becomes(p, "half", intent)
  /\ UNCHANGED <<outbox, writer, relay, lost, crashes, sink>>

\* ... its intent in a second transaction ...
InsertDispatch(p) ==
  /\ producer[p].pc = "half"
  /\ writer = NoProducer
  /\ outbox[IntentOf(p).dispatch_id] = Absent
  /\ outbox' = [outbox EXCEPT ![IntentOf(p).dispatch_id] = PendingRow(IntentOf(p).content)]
  /\ Idle(p)
  /\ UNCHANGED <<authority, writer, relay, lost, crashes, sink>>

\* ... or never: a crash in between, a duplicate id, or a busy store.
LoseDispatch(p) ==
  /\ producer[p].pc = "half"
  /\ lost' = lost + 1
  /\ Idle(p)
  /\ UNCHANGED <<store, writer, relay, crashes, sink>>
-----------------------------------------------------------------------------
(* Relays: dispatch_one *)

DispatchOf(r) == relay[r].dispatch_id
Ends(r, outcome) == relay' = [relay EXCEPT ![r].pc = "idle", ![r].outcome = outcome]

Started(r, d, content, label, outcome) ==
  relay' = [relay EXCEPT ![r] = [pc |-> label, dispatch_id |-> d, content |-> content,
                                 decision |-> "none", effect |-> 0, outcome |-> outcome]]

\* Mutant: the relay claims the row by acknowledging it before the effect.
ReadRecordClaiming(r, d) ==
  /\ relay[r].pc = "idle"
  /\ outbox[d].status = "pending"
  /\ Started(r, d, outbox[d].content, "read", "none")
  /\ outbox' = [outbox EXCEPT ![d].status = "acknowledged"]
  /\ UNCHANGED <<authority, writer, producer, lost, crashes, sink>>

\* dispatch_one of an intent it finds pending.
ReadRecord(r, d) ==
  /\ relay[r].pc = "idle"
  /\ outbox[d].status = "pending"
  /\ Started(r, d, outbox[d].content, "read", "none")
  /\ UNCHANGED <<store, writer, producer, lost, crashes, sink>>

\* Of an id that has no row, or an acknowledged one: "dispatch-not-pending".
RefuseDispatch(r, d) ==
  /\ Opened
  /\ relay[r].pc = "idle"
  /\ outbox[d].status # "pending"
  /\ Started(r, d, relay[r].content, "idle", "dispatch-not-pending")
  /\ UNCHANGED <<store, writer, producer, lost, crashes, sink>>

Effected(r, decision, sequence) ==
  relay' = [relay EXCEPT ![r].pc = "effected", ![r].decision = decision, ![r].effect = sequence]

RecordsOf(d) == {row \in records : row.operation_id = d}

\* Mutant: a recorded effect is replayed whatever content was submitted.
ApplyEffectUnchecked(r) ==
  /\ relay[r].pc = "read"
  /\ \/ /\ Sink!Admit(DispatchOf(r), relay[r].content)
        /\ Effected(r, "applied", Len(effects'))
     \/ \E row \in RecordsOf(DispatchOf(r)) :
          /\ Effected(r, "replayed", row.effect_sequence)
          /\ UNCHANGED sink
  /\ UNCHANGED <<store, writer, producer, lost, crashes>>

\* sink.apply with the dispatch id as operation id: applied, replayed or conflict.
ApplyEffect(r) ==
  /\ relay[r].pc = "read"
  /\ \/ /\ Sink!Admit(DispatchOf(r), relay[r].content)
        /\ Effected(r, "applied", Len(effects'))
     \/ \E row \in RecordsOf(DispatchOf(r)) :
          /\ row.fingerprint = relay[r].content
          /\ Effected(r, "replayed", row.effect_sequence)
          /\ UNCHANGED sink
     \/ \E row \in RecordsOf(DispatchOf(r)) :
          /\ row.fingerprint # relay[r].content
          /\ Ends(r, "conflict")
          /\ UNCHANGED sink
  /\ UNCHANGED <<store, writer, producer, lost, crashes>>

\* Mutant: the UPDATE without AND status = 'pending'.
AcknowledgeAny(r) ==
  /\ relay[r].pc = "effected"
  /\ writer = NoProducer
  /\ outbox' = [outbox EXCEPT ![DispatchOf(r)].status = "acknowledged",
                              ![DispatchOf(r)].effect = relay[r].effect]
  /\ Ends(r, "acknowledged")
  /\ UNCHANGED <<authority, writer, producer, lost, crashes, sink>>

\* acknowledge: the UPDATE of a row that is still pending, or, with
\* rowcount # 1, "dispatch-not-pending" after the effect.
Acknowledge(r) ==
  /\ relay[r].pc = "effected"
  /\ writer = NoProducer
  /\ \/ /\ outbox[DispatchOf(r)].status = "pending"
        /\ outbox' = [outbox EXCEPT ![DispatchOf(r)].status = "acknowledged",
                                    ![DispatchOf(r)].effect = relay[r].effect]
        /\ Ends(r, "acknowledged")
     \/ /\ outbox[DispatchOf(r)].status # "pending"
        /\ Ends(r, "dispatch-not-pending")
        /\ UNCHANGED outbox
  /\ UNCHANGED <<authority, writer, producer, lost, crashes, sink>>

\* InjectedCrash, a real one, or an exception of store or sink: before the
\* effect or between it and the acknowledgement.  Nothing is remembered.
CrashRelay(r) ==
  /\ relay[r].pc # "idle"
  /\ crashes < MaxCrashes
  /\ crashes' = crashes + 1
  /\ Started(r, DispatchOf(r), relay[r].content, "idle", "crashed")
  /\ UNCHANGED <<store, writer, producer, lost, sink>>
-----------------------------------------------------------------------------
(* The sink's other users *)

InFlight(d) == \E r \in Relays : relay[r].pc = "read" /\ DispatchOf(r) = d

\* Nobody will submit d again: it is not pending and no relay still holds it.
RetriesEnded(d) == outbox[d].status # "pending" /\ ~InFlight(d)

ExpiryAllowed(d) ==
  CASE Retention = "until_retries_end" -> RetriesEnded(d)
    [] Retention = "until_acknowledged" -> outbox[d].status # "pending"
    [] Retention = "any_time" -> TRUE

Expire(d) ==
  /\ ExpiryAllowed(d)
  /\ window[d] < MaxExpirations
  /\ Sink!Forget(d)
  /\ UNCHANGED <<store, writer, producer, relay, lost, crashes>>

\* Somebody else submits content under an id that is also a dispatch id.
ForeignApply(d, content) ==
  /\ <<d, content>> \in Foreign
  /\ Sink!Admit(d, content)
  /\ UNCHANGED <<store, writer, producer, relay, lost, crashes>>
-----------------------------------------------------------------------------
Produce(p) ==
  \/ \E intent \in Intent : BeginCommit(p, intent) \/ CommitAuthorityOnly(p, intent)
  \/ CommitWithOutbox(p) \/ RollbackCommit(p) \/ InsertDispatch(p) \/ LoseDispatch(p)

Scan(d) == \E r \in Relays : ReadRecord(r, d)

Open == CreateAuthority \/ SeedIfEmpty

Next ==
  \/ Open
  \/ \E p \in Producers : Produce(p)
  \/ \E r \in Relays : ApplyEffect(r) \/ Acknowledge(r) \/ CrashRelay(r)
  \/ \E d \in DispatchIds : \/ Scan(d) \/ Expire(d)
                            \/ \E r \in Relays : RefuseDispatch(r, d)
                            \/ \E content \in Contents : ForeignApply(d, content)

Spec == Init /\ [][Next]_vars

\* "Eventual rescanning by a dispatcher", a relay that goes on unless it crashes,
\* and transactions that end.
FairSpec ==
  /\ Spec
  /\ \A d \in DispatchIds : SF_vars(Scan(d))
  /\ \A r \in Relays : WF_vars(ApplyEffect(r)) /\ SF_vars(Acknowledge(r))
  /\ \A p \in Producers : WF_vars(CommitWithOutbox(p) \/ RollbackCommit(p))
-----------------------------------------------------------------------------
(* Properties *)

Rows == {d \in DispatchIds : outbox[d] # Absent}
Halves == {p \in Producers : producer[p].pc = "half"}
EffectsOf(d) == {i \in DOMAIN effects : effects[i].operation_id = d}

\* Every committed requirement has its intent in the outbox: the transaction of
\* commit_with_outbox never leaves one without the other, and the dual write
\* loses exactly the intents of the producers that died between its halves.
RequirementsAccounted ==
  authority.generation = Cardinality(Rows) + Cardinality(Halves) + lost

\* An intent stays discoverable, unchanged, until it is acknowledged, and is
\* acknowledged for ever, whatever producers, relays and crashes do.
DiscoverableUntilAcknowledged ==
  [][\A d \in Rows :
       \/ outbox'[d] = outbox[d]
       \/ /\ outbox[d].status = "pending"
          /\ outbox'[d].status = "acknowledged"
          /\ outbox'[d].content = outbox[d].content]_vars

\* An acknowledged row names a visible effect of its own id and content, even if
\* the id was also used by others or its record expired at the wrong time.
AcknowledgedNamesEffect ==
  \A d \in Rows : outbox[d].status = "acknowledged" =>
    /\ outbox[d].effect \in EffectsOf(d)
    /\ effects[outbox[d].effect].fingerprint = outbox[d].content

\* The ids nobody else uses: stable operation identity, as M4 asks for it.
OwnIds == {d \in DispatchIds : \A content \in Contents : <<d, content>> \notin Foreign}

\* However often relays retry, crash after the effect or overlap, a dispatch has
\* one visible effect, and only a committed intent has any; the relay refused with
\* "dispatch-not-pending" after its effect, and every relay still to acknowledge,
\* names the effect that the acknowledged row names.
OneEffectPerDispatch ==
  \A d \in OwnIds :
    /\ \A i, j \in EffectsOf(d) : i = j
    /\ EffectsOf(d) # {} => d \in Rows
    /\ \A r \in Relays :
         /\ DispatchOf(r) = d /\ relay[r].effect # 0
         /\ outbox[d].status = "acknowledged"
         => relay[r].effect = outbox[d].effect

\* Of relays that overlap on one dispatch, only one is told it acknowledged it.
AcknowledgedOnce ==
  \A r, s \in Relays :
    /\ relay[r].outcome = "acknowledged" /\ relay[s].outcome = "acknowledged"
    /\ DispatchOf(r) = DispatchOf(s)
    => r = s

\* Store, relays and sink together keep the contract of a dispatch, its
\* liveness included.
Contract == INSTANCE DispatchContract WITH
  DispatchIds <- OwnIds,
  stage <- [d \in OwnIds |-> outbox[d].status],
  visible <- [d \in OwnIds |-> EffectsOf(d) # {}]
ImplementsContract == Contract!Spec
=============================================================================
