-------------------------- MODULE DispatchOverSink --------------------------
(***************************************************************************)
(* M7 over M4: the relays of DurableDispatch call the sink of              *)
(* IdempotentSink statement by statement, each through its own connection, *)
(* with the dispatch id as operation id.  Two databases, two write locks:  *)
(* a relay may wait for one, time out at it, or die with it, while others  *)
(* hold the other.  Shown to implement DurableDispatch, in which the call  *)
(* is one step.                                                            *)
(***************************************************************************)
EXTENDS DurableDispatch

CONSTANTS NoRelay,               \* nobody holds the sink's write lock
          EffectNames, Payloads  \* what intents are made of

ASSUME NoRelayAssumption == NoRelay \notin Relays
ASSUME ContentsAssumption == Contents = EffectNames \X Payloads

VARIABLES holder,                \* of the sink's write lock
          tx, pc, operation, answer

call == <<holder, tx, pc, operation, answer>>
cvars == <<vars, call>>

M4 == INSTANCE IdempotentSink WITH Callers <- Relays, NoCaller <- NoRelay,
                                   OperationIds <- DispatchIds, writer <- holder

\* No relay has called yet: what operation holds is not read.
CInit ==
  /\ Init /\ M4!Init
  /\ operation = [r \in Relays |-> CHOOSE o \in M4!LogicalOperation : TRUE]

\* What a step inside the sink leaves alone.
OutsideSink == <<store, writer, producer, lost>>
-----------------------------------------------------------------------------
\* Mutant: the operation is named after the relay's attempt, not after the dispatch.
OperationOfOther(d) ==
  LET content == outbox[d].content
      other == CHOOSE e \in DispatchIds : e # d
  IN [operation_id |-> other, effect_name |-> content[1], payload |-> content[2]]

\* LogicalOperation(operation_id = dispatch_id, ...) of the record just read.
OperationOf(d) ==
  LET content == outbox[d].content
  IN [operation_id |-> d, effect_name |-> content[1], payload |-> content[2]]

CallSink(r, d) == ReadRecord(r, d) /\ M4!Submit(r, OperationOf(d))

\* Inside apply, up to its COMMIT.
InsideSink(r) ==
  /\ \/ M4!BeginImmediate(r) \/ M4!SelectRecord(r) \/ M4!InsertEffect(r)
     \/ M4!InsertRecord(r) \/ M4!Commit(r)
  /\ UNCHANGED <<OutsideSink, relay, crashes>>

SinkReturns(r) ==
  /\ M4!Return(r)
  /\ Effected(r, answer[r].decision, answer[r].effect_sequence)
  /\ UNCHANGED <<OutsideSink, crashes>>

SinkConflicts(r) ==
  /\ M4!RaiseConflict(r)
  /\ Ends(r, "conflict")
  /\ UNCHANGED <<OutsideSink, crashes>>

\* The sink is busy or a statement raises, and dispatch_one with it, or the relay
\* dies in the call, perhaps after the COMMIT whose answer it never sees.
SinkCallFails(r) ==
  /\ crashes < MaxCrashes
  /\ M4!BusyTimeout(r) \/ M4!FailInTransaction(r) \/ M4!CrashOutside(r)
  /\ crashes' = crashes + 1
  /\ Started(r, DispatchOf(r), relay[r].content, "idle", "crashed")
  /\ UNCHANGED OutsideSink

\* Outside the sink a relay steps as in DurableDispatch.
AtStore(r) ==
  /\ \/ Acknowledge(r)
     \/ relay[r].pc = "effected" /\ CrashRelay(r)
     \/ \E d \in DispatchIds : RefuseDispatch(r, d)
  /\ UNCHANGED call

\* The DELETE of expire waits for the sink's lock.
ExpireRecord(d) ==
  /\ ExpiryAllowed(d)
  /\ M4!Expire(d)
  /\ UNCHANGED <<OutsideSink, relay, crashes>>

\* Others commit between the calls of the relays; what they hold is not followed.
OthersApply(d) ==
  /\ holder = NoRelay
  /\ \E content \in Contents : ForeignApply(d, content)
  /\ tx' = [effects |-> effects', records |-> records']
  /\ UNCHANGED <<holder, pc, operation, answer>>

SinkStep(r) == InsideSink(r) \/ SinkReturns(r) \/ SinkConflicts(r)

CNext ==
  \/ Open /\ UNCHANGED call
  \/ \E p \in Producers : Produce(p) /\ UNCHANGED call
  \/ \E r \in Relays : SinkStep(r) \/ SinkCallFails(r) \/ AtStore(r)
  \/ \E d \in DispatchIds : \/ ExpireRecord(d) \/ OthersApply(d)
                            \/ \E r \in Relays : CallSink(r, d)

CSpec == CInit /\ [][CNext]_cvars

\* As in DurableDispatch, and a relay inside the sink goes on.
FairCSpec ==
  /\ CSpec
  /\ \A d \in DispatchIds : SF_cvars(\E r \in Relays : CallSink(r, d))
  /\ \A r \in Relays : /\ WF_cvars(SinkStep(r))
                       /\ SF_cvars(Acknowledge(r) /\ UNCHANGED call)
  /\ \A p \in Producers :
       WF_cvars((CommitWithOutbox(p) \/ RollbackCommit(p)) /\ UNCHANGED call)
-----------------------------------------------------------------------------
(* Properties *)

\* To DurableDispatch a relay has the effect once the sink has committed, though
\* it is still to be told.
RelayView ==
  [r \in Relays |->
     IF pc[r] = "committed"
     THEN [relay[r] EXCEPT !.pc = "effected", !.decision = answer[r].decision,
                           !.effect = answer[r].effect_sequence]
     ELSE relay[r]]

\* Seen from its COMMIT or its exception, each call of apply by a relay, racing
\* with others, waiting, failing or dying, is one step of DurableDispatch.
Dispatch == INSTANCE DurableDispatch WITH relay <- RelayView
ImplementsDispatch == Dispatch!Spec
=============================================================================
