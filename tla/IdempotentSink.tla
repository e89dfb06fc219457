--------------------------- MODULE IdempotentSink ---------------------------
(***************************************************************************)
(* M4: IdempotentEffectSink of ambiguous_completion.py, statement by       *)
(* statement, called by several callers (processes or threads, each with   *)
(* its own connection to the one SQLite file).                             *)
(*                                                                         *)
(* BEGIN IMMEDIATE takes the write lock; the statements of a transaction   *)
(* work on the writer's private copy tx, which COMMIT publishes and a      *)
(* rollback drops.  A statement may fail, a caller may crash at any point, *)
(* after COMMIT included, when the effect is visible and the answer lost.  *)
(***************************************************************************)
EXTENDS Naturals, Sequences

CONSTANTS Callers,          \* whoever calls apply
          NoCaller,         \* nobody holds the write lock
          OperationIds,
          EffectNames, Payloads,
          MaxExpirations    \* bound: expirations of the record of one id

ASSUME NoCallerAssumption == NoCaller \notin Callers
ASSUME OperationsAssumption == OperationIds # {} /\ EffectNames # {} /\ Payloads # {}
ASSUME MaxExpirationsAssumption == MaxExpirations \in Nat

\* LogicalOperation: a stable id and the immutable content bound to it.
LogicalOperation ==
  [operation_id : OperationIds, effect_name : EffectNames, payload : Payloads]

\* SHA-256 of the JSON list of effect name and payload: equal for equal content
\* whatever the operation id, and different for different content.
operation_fingerprint(op) == <<op.effect_name, op.payload>>

Fingerprints == EffectNames \X Payloads

VARIABLES
  effects,     \* committed rows of effects, in effect_sequence order
  records,     \* committed rows of idempotency_records
  window,      \* history: expirations of each id's record
  writer,      \* the caller holding the write lock, or NoCaller
  tx,          \* the tables as the writer's open transaction sees them
  pc,          \* where each caller is in apply
  operation,   \* the argument of each caller's latest call
  answer       \* what the latest call returned or raised

tables == <<effects, records, window>>
vars == <<effects, records, window, writer, tx, pc, operation, answer>>

EffectRow == [operation_id : OperationIds, fingerprint : Fingerprints, window : Nat]
RecordRow == [operation_id : OperationIds, fingerprint : Fingerprints, effect_sequence : Nat \ {0}]

\* "lost": the call ended without an answer, and the caller cannot know why.
Decision == {"none", "applied", "replayed", "conflict", "lost"}
Result == [decision : Decision, effect_sequence : Nat]
NoResult == [decision |-> "none", effect_sequence |-> 0]

InTransaction == {"begun", "absent", "inserted", "recorded", "replaying", "conflicting"}
PC == {"idle", "called", "committed"} \cup InTransaction

\* Types of the tables, of the lock and of the calls under way.
TypeOK ==
  /\ effects \in Seq(EffectRow)
  /\ records \in SUBSET RecordRow
  /\ window \in [OperationIds -> Nat]
  /\ writer \in Callers \cup {NoCaller}
  /\ tx \in [effects : Seq(EffectRow), records : SUBSET RecordRow]
  /\ pc \in [Callers -> PC]
  /\ operation \in [Callers -> LogicalOperation]
  /\ answer \in [Callers -> Result]

\* _initialize: both tables exist and are empty.  operation means nothing
\* before a caller's first call.
Init ==
  /\ effects = <<>>
  /\ records = {}
  /\ window = [o \in OperationIds |-> 0]
  /\ writer = NoCaller
  /\ tx = [effects |-> <<>>, records |-> {}]
  /\ pc = [c \in Callers |-> "idle"]
  /\ operation \in [Callers -> LogicalOperation]
  /\ answer = [c \in Callers |-> NoResult]
-----------------------------------------------------------------------------
Rows(o) == {r \in tx.records : r.operation_id = o}

Goto(c, label) == pc' = [pc EXCEPT ![c] = label]

\* The end of a transaction: c gives the lock back.
Unlock(c) == writer' = NoCaller

\* Mutant: in autocommit mode the statements already executed stay.
RollbackNothing(c) == /\ Unlock(c)
                      /\ effects' = tx.effects
                      /\ records' = tx.records
                      /\ UNCHANGED <<window, tx>>

\* The context manager's exit on an exception: the writer's copy is dropped.
Rollback(c) == /\ Unlock(c)
               /\ tx' = [effects |-> effects, records |-> records]
               /\ UNCHANGED tables

Ends(c, decision) ==
  /\ Goto(c, "idle")
  /\ answer' = [answer EXCEPT ![c] = [decision |-> decision, effect_sequence |-> 0]]

\* A caller enters apply, for the first time or as a retry.
Submit(c, o) ==
  /\ pc[c] = "idle"
  /\ operation' = [operation EXCEPT ![c] = o]
  /\ answer' = [answer EXCEPT ![c] = NoResult]
  /\ Goto(c, "called")
  /\ UNCHANGED <<tables, writer, tx>>

BeginImmediate(c) ==
  /\ pc[c] = "called"
  /\ writer = NoCaller
  /\ writer' = c
  /\ tx' = [effects |-> effects, records |-> records]
  /\ Goto(c, "begun")
  /\ UNCHANGED <<tables, operation, answer>>

\* sqlite3.connect waits five seconds for the lock, then "database is locked".
BusyTimeout(c) ==
  /\ pc[c] = "called"
  /\ writer # NoCaller
  /\ Ends(c, "lost")
  /\ UNCHANGED <<tables, writer, tx, operation>>
-----------------------------------------------------------------------------
Replay(c, r, decision) ==
  /\ Goto(c, "replaying")
  /\ answer' = [answer EXCEPT ![c] = [decision |-> decision,
                                      effect_sequence |-> r.effect_sequence]]

\* Mutant: the recorded fingerprint is not compared with the submitted one.
SelectRecordUnchecked(c) ==
  /\ pc[c] = "begun"
  /\ \/ /\ Rows(operation[c].operation_id) = {}
        /\ Goto(c, "absent")
        /\ UNCHANGED answer
     \/ \E r \in Rows(operation[c].operation_id) : Replay(c, r, "replayed")
  /\ UNCHANGED <<tables, writer, tx, operation>>

\* SELECT ... WHERE operation_id = ?, and the three ways apply goes on.
SelectRecord(c) ==
  /\ pc[c] = "begun"
  /\ \/ /\ Rows(operation[c].operation_id) = {}
        /\ Goto(c, "absent")
        /\ UNCHANGED answer
     \/ \E r \in Rows(operation[c].operation_id) :
          /\ r.fingerprint # operation_fingerprint(operation[c])
          /\ Goto(c, "conflicting")
          /\ UNCHANGED answer
     \/ \E r \in Rows(operation[c].operation_id) :
          /\ r.fingerprint = operation_fingerprint(operation[c])
          /\ Replay(c, r, "replayed")
  /\ UNCHANGED <<tables, writer, tx, operation>>

EffectOf(c) == [operation_id |-> operation[c].operation_id,
                fingerprint |-> operation_fingerprint(operation[c]),
                window |-> window[operation[c].operation_id]]

\* Mutant: the effect is committed on its own, before its record.
InsertEffectAutocommit(c) ==
  /\ pc[c] = "absent"
  /\ tx' = [tx EXCEPT !.effects = Append(@, EffectOf(c))]
  /\ effects' = tx'.effects
  /\ Goto(c, "inserted")
  /\ UNCHANGED <<records, window, writer, operation, answer>>

InsertEffect(c) ==
  /\ pc[c] = "absent"
  /\ tx' = [tx EXCEPT !.effects = Append(@, EffectOf(c))]
  /\ Goto(c, "inserted")
  /\ UNCHANGED <<tables, writer, operation, answer>>

\* Mutant: the record names the sequence number before the new effect's.
InsertRecordOffByOne(c) ==
  /\ pc[c] = "inserted"
  /\ tx' = [tx EXCEPT !.records = @ \cup
              {[operation_id |-> operation[c].operation_id,
                fingerprint |-> operation_fingerprint(operation[c]),
                effect_sequence |-> Len(effects)]}]
  /\ answer' = [answer EXCEPT ![c] = [decision |-> "applied",
                                      effect_sequence |-> Len(effects)]]
  /\ Goto(c, "recorded")
  /\ UNCHANGED <<tables, writer, operation>>

\* cursor.lastrowid is the sequence number of the row just inserted.
InsertRecord(c) ==
  /\ pc[c] = "inserted"
  /\ tx' = [tx EXCEPT !.records = @ \cup
              {[operation_id |-> operation[c].operation_id,
                fingerprint |-> operation_fingerprint(operation[c]),
                effect_sequence |-> Len(tx.effects)]}]
  /\ answer' = [answer EXCEPT ![c] = [decision |-> "applied",
                                      effect_sequence |-> Len(tx.effects)]]
  /\ Goto(c, "recorded")
  /\ UNCHANGED <<tables, writer, operation>>

\* Leaving the with block publishes the transaction.
Commit(c) ==
  /\ pc[c] \in {"recorded", "replaying"}
  /\ effects' = tx.effects
  /\ records' = tx.records
  /\ Unlock(c)
  /\ Goto(c, "committed")
  /\ UNCHANGED <<window, tx, operation, answer>>

\* Mutant: the exception leaves the transaction open.
RaiseConflictHoldingLock(c) ==
  /\ pc[c] = "conflicting"
  /\ Ends(c, "conflict")
  /\ UNCHANGED <<tables, writer, tx, operation>>

\* raise IdempotencyConflict
RaiseConflict(c) ==
  /\ pc[c] = "conflicting"
  /\ Rollback(c)
  /\ Ends(c, "conflict")
  /\ UNCHANGED operation

Return(c) ==
  /\ pc[c] = "committed"
  /\ Goto(c, "idle")
  /\ UNCHANGED <<tables, writer, tx, operation, answer>>
-----------------------------------------------------------------------------
\* A statement or the COMMIT raises, or the process dies inside the transaction.
FailInTransaction(c) ==
  /\ pc[c] \in InTransaction
  /\ Rollback(c)
  /\ Ends(c, "lost")
  /\ UNCHANGED operation

\* The process dies outside the transaction: before it, or between COMMIT and return.
CrashOutside(c) ==
  /\ pc[c] \in {"called", "committed"}
  /\ Ends(c, "lost")
  /\ UNCHANGED <<tables, writer, tx, operation>>

\* expire: a single DELETE, which needs the write lock for itself.
Expire(o) ==
  /\ writer = NoCaller
  /\ \E r \in records : r.operation_id = o
  /\ window[o] < MaxExpirations
  /\ records' = {r \in records : r.operation_id # o}
  /\ window' = [window EXCEPT ![o] = @ + 1]
  /\ tx' = [effects |-> effects, records |-> records']
  /\ UNCHANGED <<effects, writer, pc, operation, answer>>

Step(c) ==
  \/ BeginImmediate(c) \/ BusyTimeout(c) \/ SelectRecord(c) \/ InsertEffect(c)
  \/ InsertRecord(c) \/ Commit(c) \/ RaiseConflict(c) \/ Return(c)

Next ==
  \/ \E c \in Callers : \/ Step(c) \/ FailInTransaction(c) \/ CrashOutside(c)
                        \/ \E o \in LogicalOperation : Submit(c, o)
  \/ \E o \in OperationIds : Expire(o)

Spec == Init /\ [][Next]_vars

\* A caller inside apply keeps executing it; nobody has to call, crash or expire.
FairSpec == Spec /\ \A c \in Callers : WF_vars(Step(c))
-----------------------------------------------------------------------------
(* Properties *)

\* While the record of an operation id is retained, however many callers
\* retry it and however their calls end, at most one effect is visible for it:
\* two effects of one id always have an expiration between them.
AtMostOneEffectPerWindow ==
  \A i, j \in DOMAIN effects :
    /\ effects[i].operation_id = effects[j].operation_id
    /\ effects[i].window = effects[j].window
    => i = j

\* The two tables never disagree after a crash: a retained record names a
\* visible effect of the current window with its own id and fingerprint, and
\* a visible effect of the current window has a retained record.
RecordsMatchEffects ==
  /\ \A r \in records :
       /\ r.effect_sequence \in DOMAIN effects
       /\ effects[r.effect_sequence] = [operation_id |-> r.operation_id,
                                        fingerprint |-> r.fingerprint,
                                        window |-> window[r.operation_id]]
  /\ \A i \in DOMAIN effects :
       effects[i].window = window[effects[i].operation_id] =>
         \E r \in records : r.effect_sequence = i

\* A caller that was answered, APPLIED or REPLAYED, even as late as after an
\* expiration, was given an effect that is visible, for the id and the content
\* it submitted, and never one bound to other content.
AnswerNamesVisibleEffect ==
  \A c \in Callers :
    pc[c] \in {"idle", "committed"} /\ answer[c].decision \in {"applied", "replayed"} =>
      /\ answer[c].effect_sequence \in DOMAIN effects
      /\ effects[answer[c].effect_sequence].operation_id = operation[c].operation_id
      /\ effects[answer[c].effect_sequence].fingerprint = operation_fingerprint(operation[c])

\* No two callers racing on one id are both told that theirs was the call that
\* applied the effect.
AppliedOnce ==
  \A c, d \in Callers :
    /\ pc[c] \in {"idle", "committed"} /\ answer[c].decision = "applied"
    /\ pc[d] \in {"idle", "committed"} /\ answer[d].decision = "applied"
    /\ answer[c].effect_sequence = answer[d].effect_sequence
    => c = d

\* What the guarantee lets a caller rely on.
AnswersAreTrue == AnswerNamesVisibleEffect /\ AppliedOnce

\* The sink, seen through its committed tables only, behaves as the boundary
\* the guarantee of M4 describes.
Boundary == INSTANCE EffectBoundary
ImplementsBoundary == Boundary!Spec

\* No path through apply, the conflict and the failing ones included, keeps the
\* write lock for ever.
LockReleased == \A c \in Callers : writer = c ~> writer # c
=============================================================================
