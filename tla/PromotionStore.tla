--------------------------- MODULE PromotionStore ---------------------------
(***************************************************************************)
(* M6: PromotionStore of concurrent_promotion.py, the durable record of    *)
(* one authority row, opened, read and promoted by several actors, each    *)
(* call with its own connection to the one SQLite file.                    *)
(*                                                                         *)
(* log is a history variable: log[g] says how generation g came about.     *)
(***************************************************************************)
EXTENDS Naturals, Sequences, FiniteSets

CONSTANTS Actors,
          NoActor,
          TransitionIds,
          NoTransition,
          NoSnapshot,      \* an actor that has observed nothing yet
          Kinds,           \* the operations the actors use
          MaxGeneration    \* bound on accepted transitions

PromotionState == {"candidate", "review", "approved", "rejected"}
Terminal == {"approved", "rejected"}
Unconditional == {"naive_promote", "advance_for_characterization"}
Fenced == {"promote", "promote_state_only"}
Decision == {"none", "applied", "stale-generation", "source-state-mismatch",
             "value-error", "lost"}

\* The row of table authority, and with it AuthoritySnapshot.
Row == [state : PromotionState, generation : Nat,
        last_actor : Actors \cup {NoActor}, last_transition : TransitionIds \cup {NoTransition}]

InitialRow == [state |-> "candidate", generation |-> 0,
               last_actor |-> NoActor, last_transition |-> NoTransition]

ASSUME NoActorAssumption == NoActor \notin Actors
ASSUME NoTransitionAssumption == NoTransition \notin TransitionIds
ASSUME NoSnapshotAssumption == NoSnapshot \notin Row
ASSUME KindsAssumption == Kinds \subseteq Fenced \cup Unconditional
ASSUME MaxGenerationAssumption == MaxGeneration \in Nat

VARIABLES
  table,      \* "missing", "empty" (created, no row) or "ready"
  authority,  \* the committed row; meaningful once the table is ready
  log,        \* history of the accepted changes of the row
  writer,     \* the actor holding the write lock, or NoActor
  pc,
  observed,   \* the snapshot each actor carries
  request,    \* the arguments of its latest call
  local,      \* inside a call: cursor.rowcount and the row read back
  result      \* what its latest call returned or raised

vars == <<table, authority, log, writer, pc, observed, request, local, result>>
database == <<table, authority, log>>

Request == [kind : Fenced \cup Unconditional, transition_id : TransitionIds,
            target_state : PromotionState, observed : Row]
Entry == [kind : Fenced \cup Unconditional, observed : Row, row : Row]
Result == [decision : Decision, authoritative : Row]

NoRequest == [kind |-> "none"]
NoResult == [decision |-> "none", authoritative |-> InitialRow]
NoLocal == [rowcount |-> 0, row |-> InitialRow]

InTransaction == {"begun", "updated"}
InCall == {"called", "committed", "written"} \cup InTransaction
PC == {"closed", "created", "open"} \cup InCall

\* Types; the log has one entry for each generation, and whatever fails or dies,
\* the write lock is held inside a transaction only.
TypeOK ==
  /\ table \in {"missing", "empty", "ready"}
  /\ authority \in Row
  /\ log \in Seq(Entry) /\ Len(log) = authority.generation
  /\ writer \in Actors \cup {NoActor}
  /\ pc \in [Actors -> PC]
  /\ \A a \in Actors : writer = a <=> pc[a] \in InTransaction
  /\ observed \in [Actors -> Row \cup {NoSnapshot}]
  /\ request \in [Actors -> Request \cup {NoRequest}]
  /\ local \in [Actors -> [rowcount : {0, 1}, row : Row]]
  /\ result \in [Actors -> Result]

Init ==
  /\ table = "missing"
  /\ authority = InitialRow
  /\ log = <<>>
  /\ writer = NoActor
  /\ pc = [a \in Actors |-> "closed"]
  /\ observed = [a \in Actors |-> NoSnapshot]
  /\ request = [a \in Actors |-> NoRequest]
  /\ local = [a \in Actors |-> NoLocal]
  /\ result = [a \in Actors |-> NoResult]

Goto(a, label) == pc' = [pc EXCEPT ![a] = label]

\* The variables of a call end with it.
Leave(a, label) == /\ Goto(a, label)
                   /\ local' = [local EXCEPT ![a] = NoLocal]
-----------------------------------------------------------------------------
(* Opening the store: _initialize *)

\* Mutant: who finds the table relies on its creator having filled it.
CreateTableTrusting(a) ==
  /\ pc[a] = "closed"
  /\ \/ table = "missing" /\ writer = NoActor /\ table' = "empty" /\ Goto(a, "created")
     \/ table # "missing" /\ UNCHANGED table /\ Goto(a, "open")
  /\ UNCHANGED <<authority, log, writer, observed, request, local, result>>

\* CREATE TABLE IF NOT EXISTS commits by itself, before the INSERT.
CreateTable(a) ==
  /\ pc[a] = "closed"
  /\ \/ table = "missing" /\ writer = NoActor /\ table' = "empty"
     \/ table # "missing" /\ UNCHANGED table
  /\ Goto(a, "created")
  /\ UNCHANGED <<authority, log, writer, observed, request, local, result>>

\* Mutant: INSERT OR REPLACE.
InsertOrReplace(a) ==
  /\ pc[a] = "created"
  /\ writer = NoActor
  /\ table' = "ready"
  /\ authority' = InitialRow
  /\ Goto(a, "open")
  /\ UNCHANGED <<log, writer, observed, request, local, result>>

\* INSERT OR IGNORE of candidate@0, in a transaction of its own.
InsertOrIgnore(a) ==
  /\ pc[a] = "created"
  /\ writer = NoActor
  /\ table' = "ready"
  /\ authority' = IF table = "empty" THEN InitialRow ELSE authority
  /\ Goto(a, "open")
  /\ UNCHANGED <<log, writer, observed, request, local, result>>

\* snapshot reads the committed row, whoever holds the write lock.
Snapshot(a) ==
  /\ pc[a] = "open"
  /\ observed' = [observed EXCEPT ![a] = authority]
  /\ UNCHANGED <<database, writer, pc, request, local, result>>
-----------------------------------------------------------------------------
(* The calls *)

Valid(kind, seen, target) ==
  kind # "advance_for_characterization" =>
    seen # NoSnapshot /\ seen.state = "candidate" /\ target \in Terminal

\* Bound: only as many calls as can be accepted, and the stale ones.
WithinBound(a, kind) ==
  \/ Len(log) + Cardinality({b \in Actors : pc[b] \in InCall}) < MaxGeneration
  \/ kind = "promote" /\ observed[a].generation < authority.generation

Call(a, kind, t, target) ==
  /\ pc[a] = "open"
  /\ Valid(kind, observed[a], target)
  /\ WithinBound(a, kind)
  /\ request' = [request EXCEPT ![a] =
       [kind |-> kind, transition_id |-> t, target_state |-> target,
        observed |-> IF observed[a] = NoSnapshot THEN InitialRow ELSE observed[a]]]
  /\ result' = [result EXCEPT ![a] = NoResult]
  /\ Goto(a, "called")
  /\ UNCHANGED <<database, writer, observed, local>>

\* _validate_promotion raises ValueError before any connection is made.
RejectCall(a, kind, t, target) ==
  /\ pc[a] = "open"
  /\ observed[a] # NoSnapshot
  /\ ~Valid(kind, observed[a], target)
  /\ result' = [result EXCEPT ![a] = [NoResult EXCEPT !.decision = "value-error"]]
  /\ request' = [request EXCEPT ![a] = NoRequest]
  /\ UNCHANGED <<database, writer, pc, observed, local>>

BeginImmediate(a) ==
  /\ pc[a] = "called"
  /\ request[a].kind \in Fenced
  /\ writer = NoActor
  /\ writer' = a
  /\ Goto(a, "begun")
  /\ UNCHANGED <<database, observed, request, local, result>>

\* The SET clause, the same in every operation.
NewRow(a) == [state |-> request[a].target_state, generation |-> authority.generation + 1,
              last_actor |-> a, last_transition |-> request[a].transition_id]

\* Mutant: the fence compares the source state only.
MatchesState(a) == authority.state = request[a].observed.state

\* Mutant: check, then write: what is compared is the row read before the transaction.
MatchesSnapshot(a) ==
  /\ observed[a].state = request[a].observed.state
  /\ request[a].kind = "promote" => observed[a].generation = request[a].observed.generation

\* The WHERE clause.
Matches(a) ==
  /\ authority.state = request[a].observed.state
  /\ request[a].kind = "promote" => authority.generation = request[a].observed.generation

\* The conditional UPDATE, and the SELECT that reads the row back in the same
\* transaction.
UpdateAndRead(a) ==
  /\ pc[a] = "begun"
  /\ local' = [local EXCEPT ![a] = IF Matches(a) THEN [rowcount |-> 1, row |-> NewRow(a)]
                                   ELSE [rowcount |-> 0, row |-> authority]]
  /\ Goto(a, "updated")
  /\ UNCHANGED <<database, writer, observed, request, result>>

Record(a, row) == log' = Append(log, [kind |-> request[a].kind,
                                      observed |-> request[a].observed, row |-> row])

Commit(a) ==
  /\ pc[a] = "updated"
  /\ authority' = local[a].row
  /\ \/ local[a].rowcount = 1 /\ Record(a, local[a].row)
     \/ local[a].rowcount = 0 /\ UNCHANGED log
  /\ writer' = NoActor
  /\ Goto(a, "committed")
  /\ UNCHANGED <<table, observed, request, local, result>>

DecisionOf(a) ==
  IF local[a].rowcount = 1 THEN "applied"
  ELSE IF request[a].kind = "promote" /\ local[a].row.generation # request[a].observed.generation
       THEN "stale-generation" ELSE "source-state-mismatch"

\* Mutant: the authoritative row is read after the transaction, by snapshot().
ReturnRereading(a) ==
  /\ pc[a] = "committed"
  /\ result' = [result EXCEPT ![a] = [decision |-> DecisionOf(a), authoritative |-> authority]]
  /\ Leave(a, "open")
  /\ UNCHANGED <<database, writer, observed, request>>

Return(a) ==
  /\ pc[a] = "committed"
  /\ result' = [result EXCEPT ![a] = [decision |-> DecisionOf(a), authoritative |-> local[a].row]]
  /\ Leave(a, "open")
  /\ UNCHANGED <<database, writer, observed, request>>

\* naive_promote and advance_for_characterization: one unconditional UPDATE.
WriteUnconditionally(a) ==
  /\ pc[a] = "called"
  /\ request[a].kind \in Unconditional
  /\ writer = NoActor
  /\ authority' = NewRow(a)
  /\ Record(a, NewRow(a))
  /\ Goto(a, "written")
  /\ UNCHANGED <<table, writer, observed, request, local, result>>

\* They return self.snapshot(), read later through another connection: as the
\* authoritative row of the result, or as the snapshot itself.
ReadBack(a) ==
  /\ pc[a] = "written"
  /\ \/ /\ request[a].kind = "naive_promote"
        /\ result' = [result EXCEPT ![a] = [decision |-> "applied", authoritative |-> authority]]
        /\ UNCHANGED observed
     \/ /\ request[a].kind = "advance_for_characterization"
        /\ observed' = [observed EXCEPT ![a] = authority]
        /\ UNCHANGED result
  /\ Goto(a, "open")
  /\ UNCHANGED <<database, writer, request, local>>
-----------------------------------------------------------------------------
(* Timeouts, failures and crashes *)

\* The call raises, mostly sqlite3.OperationalError: its caller is not told the outcome.
Raise(a) == /\ result' = [result EXCEPT ![a] = [NoResult EXCEPT !.decision = "lost"]]
            /\ request' = [request EXCEPT ![a] = NoRequest]

\* timeout=5.0: whoever needs the write lock and does not get it raises.
BusyTimeout(a) ==
  /\ writer # NoActor
  /\ \/ pc[a] = "called" /\ Goto(a, "open")
     \/ pc[a] = "created" /\ Goto(a, "closed")
  /\ Raise(a)
  /\ UNCHANGED <<database, writer, observed, local>>

\* Where a call can raise: at any statement, and in the snapshot() after the UPDATE of an
\* unconditional call; but nothing follows the COMMIT of a fenced one.
Raising == InCall \ {"committed"}

\* Mutant: the connection of a failed transaction is kept open.
FailHoldingLock(a) ==
  /\ pc[a] \in Raising
  /\ Leave(a, "open")
  /\ Raise(a)
  /\ UNCHANGED <<database, writer, observed>>

\* The context manager rolls back what is not committed.  A change that is, stays in force
\* although its caller is told of an error.
Fail(a) ==
  /\ pc[a] \in Raising
  /\ writer' = IF writer = a THEN NoActor ELSE writer
  /\ Leave(a, "open")
  /\ Raise(a)
  /\ UNCHANGED <<database, observed>>

\* The process dies.  SQLite rolls its transaction back; what it had observed is
\* kept, as by an actor that carries its snapshot durably.
Crash(a) ==
  /\ pc[a] # "closed"
  /\ Leave(a, "closed")
  /\ writer' = IF writer = a THEN NoActor ELSE writer
  /\ result' = [result EXCEPT ![a] = NoResult]
  /\ request' = [request EXCEPT ![a] = NoRequest]
  /\ UNCHANGED <<database, observed>>
-----------------------------------------------------------------------------
Open(a) == CreateTable(a) \/ InsertOrIgnore(a)

Step(a) ==
  \/ BeginImmediate(a) \/ BusyTimeout(a) \/ UpdateAndRead(a) \/ Commit(a) \/ Return(a)
  \/ WriteUnconditionally(a) \/ ReadBack(a)

Calls(a) == \E kind \in Kinds, t \in TransitionIds, target \in PromotionState :
              Call(a, kind, t, target) \/ RejectCall(a, kind, t, target)

Next == \E a \in Actors : \/ Open(a) \/ Snapshot(a) \/ Calls(a) \/ Step(a)
                          \/ Fail(a) \/ Crash(a)

Spec == Init /\ [][Next]_vars
-----------------------------------------------------------------------------
(* Properties *)

RowAt(g) == IF g = 0 THEN InitialRow ELSE log[g].row

\* A fenced promotion is accepted only as the successor of the very version its
\* actor observed, whatever unfenced writers and ABA cycles did in between;
\* hence at most one is accepted from one observed generation.
FencedAppliesToObservedVersion ==
  \A g \in DOMAIN log : log[g].kind = "promote" => log[g].observed = RowAt(g - 1)

\* A fenced call was told what happened: APPLIED comes with the row its own
\* transition made of the observed one; STALE_GENERATION with the row of a later
\* generation than the observed one, so that no retry with the same observation can
\* still be accepted.
FencedAnswer(a) ==
  LET r == result[a] IN
  /\ r.decision = "applied" =>
       /\ r.authoritative = RowAt(request[a].observed.generation + 1)
       /\ r.authoritative.last_actor = a
       /\ r.authoritative.last_transition = request[a].transition_id
  /\ r.decision = "stale-generation" =>
       /\ r.authoritative.generation > request[a].observed.generation
       /\ r.authoritative.generation <= authority.generation
       /\ r.authoritative = RowAt(r.authoritative.generation)

\* A change by the request of a has made one of the generations up to g.
WrittenBy(a, g) ==
  \E n \in DOMAIN log :
    /\ n <= g /\ n > request[a].observed.generation
    /\ log[n].row.last_actor = a /\ log[n].row.last_transition = request[a].transition_id

\* naive_promote was told less: its change was made, after what it had observed, but the
\* row it is given is that of its own generation or of any later one.
NaiveAnswer(a) ==
  LET row == result[a].authoritative IN
  result[a].decision = "applied" =>
    /\ WrittenBy(a, row.generation)
    /\ row.generation <= authority.generation /\ row = RowAt(row.generation)

\* What a call was told is what happened, whatever was committed between the decision
\* and the answer.
AnswersMatchHistory ==
  \A a \in Actors :
    pc[a] = "open" =>
      /\ request[a].kind = "promote" => FencedAnswer(a)
      /\ request[a].kind = "naive_promote" => NaiveAnswer(a)

\* "assert row is not None": whoever has opened the store finds the row, also when
\* the process that created the table died before filling it.
OpenedStoreHasRow ==
  \A a \in Actors : pc[a] \notin {"closed", "created"} => table = "ready"

\* promote is one atomic compare-and-set: the calls in flight and their answers
\* behave as those of the register that decides each of them in a single step.
\* Hence opening again never resets the row, no change skips or repeats a
\* generation, and promote never answers SOURCE_STATE_MISMATCH.
Pending(a) == [kind |-> request[a].kind, transition_id |-> request[a].transition_id,
               target_state |-> request[a].target_state,
               observed_generation |-> request[a].observed.generation]

Register == INSTANCE PromotionRegister WITH
  row <- authority,
  status <- [a \in Actors |-> IF pc[a] \in {"called", "begun", "updated"} THEN "pending"
                              ELSE IF pc[a] \in {"committed", "written"} THEN "decided"
                              ELSE "idle"],
  verdict <- [a \in Actors |-> IF pc[a] = "committed" THEN DecisionOf(a)
                               ELSE IF pc[a] = "written" THEN "applied" ELSE "none"],
  request <- [a \in Actors |-> IF pc[a] \in InCall THEN Pending(a) ELSE NoRequest]
ImplementsRegister == Register!Spec
=============================================================================
