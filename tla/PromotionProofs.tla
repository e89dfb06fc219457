-------------------------- MODULE PromotionProofs ---------------------------
(***************************************************************************)
(* The safety of the promotion store for any actors, transitions and kinds *)
(* of call: the fence, the answers of fenced calls, the row of an opened   *)
(* store, and that the calls are those of PromotionRegister; and of the    *)
(* competition of two threads over it: what they observe at the barrier,   *)
(* and what they are told, fenced or not, whichever of their calls raise.  *)
(*                                                                         *)
(* The proofs about the store do not use CompetitorsAssumption: they hold  *)
(* for any set of actors.                                                  *)
(***************************************************************************)
EXTENDS Competition, SequenceTheorems, FiniteSetTheorems, TLAPS

\* The log ends with the committed row; a table that is not ready holds nothing.
LogInv ==
  /\ authority = RowAt(Len(log))
  /\ table # "ready" => log = <<>>
  /\ \A a \in Actors : pc[a] = "created" => table # "missing"

\* Calls have a request, and closed actors none; a fenced one is of a candidate.
CallInv ==
  \A a \in Actors :
    /\ pc[a] \in InCall => request[a] \in Request
    /\ pc[a] \in {"closed", "created"} => request[a] = NoRequest
    /\ pc[a] \in {"begun", "updated", "committed"} => request[a].kind \in Fenced
    /\ request[a].kind \in Fenced => request[a].observed.state = "candidate"

\* A row that has been the committed one is that of its generation for ever.
Known(row) == row.generation <= Len(log) /\ row = RowAt(row.generation)

SeenInv ==
  \A a \in Actors :
    /\ observed[a] # NoSnapshot => Known(observed[a])
    /\ request[a] \in Request => Known(request[a].observed)

\* What the writer read and changed is still there when it commits.
LocalInv ==
  \A a \in Actors : pc[a] = "updated" =>
    \/ local[a].rowcount = 1 /\ Matches(a) /\ local[a].row = NewRow(a)
    \/ local[a].rowcount = 0 /\ ~Matches(a) /\ local[a].row = authority

\* A decision and its row, told to a as the answer to its request.
Truthful(a, decision, row) ==
  /\ decision = "applied" =>
       /\ request[a].observed.generation < Len(log)
       /\ row = RowAt(request[a].observed.generation + 1)
       /\ row.last_actor = a /\ row.last_transition = request[a].transition_id
  /\ decision = "stale-generation" =>
       /\ row.generation > request[a].observed.generation
       /\ Known(row)

ToldInv ==
  \A a \in Actors : request[a].kind = "promote" =>
    /\ pc[a] = "committed" => Truthful(a, DecisionOf(a), local[a].row)
    /\ pc[a] = "open" => Truthful(a, result[a].decision, result[a].authoritative)

IInv ==
  /\ TypeOK /\ LogInv /\ CallInv /\ SeenInv /\ LocalInv /\ ToldInv
  /\ OpenedStoreHasRow /\ FencedAppliesToObservedVersion
-----------------------------------------------------------------------------
\* The constants of PromotionStore that are rows, requests or results.
LEMMA Constants ==
  /\ InitialRow \in Row /\ NoSnapshot \notin Row /\ NoActor \notin Actors
  /\ NoRequest \notin Request /\ NoRequest.kind = "none"
  /\ NoResult \in Result /\ NoResult.decision = "none"
  /\ NoLocal \in [rowcount : {0, 1}, row : Row]
<1>1. InitialRow \in Row
  BY DEF InitialRow, Row, PromotionState
<1>2. NoRequest \notin Request
  BY DEF NoRequest, Request, Fenced, Unconditional
<1> QED
  BY <1>1, <1>2, NoSnapshotAssumption, NoActorAssumption
  DEF NoRequest, NoResult, NoLocal, Result, Decision

\* The typed pieces of a request that is being decided.
LEMMA Pieces ==
  ASSUME IInv, NEW a \in Actors
  PROVE  /\ Len(log) \in Nat /\ Len(log) = authority.generation
         /\ InitialRow \in Row /\ authority \in Row /\ Known(authority) /\ Known(InitialRow)
         /\ local[a].row \in Row
         /\ request[a] \in Request =>
              /\ request[a].observed \in Row /\ NewRow(a) \in Row
              /\ NewRow(a).generation = Len(log) + 1
<1>1. Len(log) \in Nat /\ Len(log) = authority.generation /\ authority \in Row
  BY DEF IInv, TypeOK
<1>2. Known(authority) /\ Known(InitialRow)
  <2>1. Known(authority)
    BY <1>1 DEF IInv, LogInv, Known
  <2>2. Known(InitialRow)
    BY <1>1 DEF Known, RowAt, InitialRow
  <2> QED
    BY <2>1, <2>2
<1>3. ASSUME request[a] \in Request
      PROVE  NewRow(a) \in Row /\ NewRow(a).generation = Len(log) + 1
  BY <1>1, <1>3 DEF NewRow, Request, Row
<1> QED
  BY <1>1, <1>2, <1>3, Constants DEF IInv, TypeOK, Request

\* An entry appended to the log leaves every earlier row where it was.
LEMMA LogAppended ==
  ASSUME log \in Seq(Entry), NEW e \in Entry, log' = Append(log, e)
  PROVE  /\ log' \in Seq(Entry) /\ Len(log) \in Nat /\ Len(log') = Len(log) + 1
         /\ DOMAIN log = 1 .. Len(log) /\ DOMAIN log' = 1 .. (Len(log) + 1)
         /\ log'[Len(log) + 1] = e
         /\ \A g \in DOMAIN log : log'[g] = log[g]
         /\ \A g \in 0 .. Len(log) : RowAt(g)' = RowAt(g)
<1>1. /\ log' \in Seq(Entry) /\ Len(log) \in Nat /\ Len(log') = Len(log) + 1
      /\ DOMAIN log = 1 .. Len(log) /\ DOMAIN log' = 1 .. (Len(log) + 1)
      /\ log'[Len(log) + 1] = e
      /\ \A g \in DOMAIN log : log'[g] = log[g]
  BY AppendProperties
<1>2. \A g \in 0 .. Len(log) : RowAt(g)' = RowAt(g)
  BY <1>1 DEF RowAt
<1> QED
  BY <1>1, <1>2

\* What is known and was told truthfully stays so when the log grows.
LEMMA KnownStays ==
  ASSUME log \in Seq(Entry), NEW e \in Entry, log' = Append(log, e)
  PROVE  \A row \in Row : Known(row) => Known(row)'
  BY LogAppended DEF Known, Row

LEMMA TruthStays ==
  ASSUME log \in Seq(Entry), NEW e \in Entry, log' = Append(log, e),
         NEW a \in Actors, request[a] \in Request, UNCHANGED request
  PROVE  \A decision \in Decision, row \in Row :
           Truthful(a, decision, row) => Truthful(a, decision, row)'
<1>1. request[a].observed.generation \in Nat
  BY DEF Request, Row
<1> QED
  BY <1>1, LogAppended, KnownStays DEF Truthful

LEMMA InitIInv == Init => IInv
<1> SUFFICES ASSUME Init PROVE IInv
  OBVIOUS
<1>1. TypeOK
  BY Constants DEF Init, TypeOK, PC, InTransaction, InitialRow
<1>2. LogInv /\ CallInv /\ OpenedStoreHasRow
  BY DEF Init, NoRequest, Fenced, LogInv, CallInv, OpenedStoreHasRow, InCall, InTransaction, RowAt
<1>3. SeenInv /\ LocalInv /\ ToldInv
  BY Constants DEF Init, SeenInv, LocalInv, ToldInv
<1>4. FencedAppliesToObservedVersion
  BY DEF Init, FencedAppliesToObservedVersion
<1> QED
  BY <1>1, <1>2, <1>3, <1>4 DEF IInv
-----------------------------------------------------------------------------
(***************************************************************************)
(* The steps that leave the committed row and its log alone.               *)
(***************************************************************************)
LEMMA CreateTableKeepsIInv ==
  ASSUME IInv, NEW a \in Actors, CreateTable(a)
  PROVE  IInv'
<1> USE DEF Goto, Leave, Raise, database
<1>1. UNCHANGED <<authority, log>>
  BY DEF CreateTable
<1>2. TypeOK'
  BY <1>1, Constants DEF IInv, TypeOK, CreateTable, PC, InCall, InTransaction, Result,
     Decision
<1>3. LogInv' /\ OpenedStoreHasRow'
  BY <1>1 DEF IInv, LogInv, OpenedStoreHasRow, RowAt, CreateTable, InCall,
     InTransaction, TypeOK
<1>4. CallInv'
  BY DEF IInv, TypeOK, CallInv, NoRequest, Fenced, Unconditional, CreateTable,
     InCall, InTransaction
<1>5. SeenInv'
  BY <1>1, Constants DEF IInv, TypeOK, SeenInv, Known, RowAt, CreateTable
<1>6. LocalInv'
  BY <1>1 DEF IInv, TypeOK, LocalInv, Matches, NewRow, CreateTable
<1>7. ToldInv'
  BY <1>1, Constants DEF IInv, TypeOK, ToldInv, Truthful, Known, RowAt, DecisionOf, CreateTable
<1>8. FencedAppliesToObservedVersion'
  BY <1>1 DEF IInv, FencedAppliesToObservedVersion, RowAt
<1> QED
  BY <1>2, <1>3, <1>4, <1>5, <1>6, <1>7, <1>8 DEF IInv

LEMMA InsertOrIgnoreKeepsIInv ==
  ASSUME IInv, NEW a \in Actors, InsertOrIgnore(a)
  PROVE  IInv'
<1> USE DEF Goto, Leave, Raise, database
<1>1. UNCHANGED <<authority, log>>
  BY DEF IInv, LogInv, RowAt, TypeOK, InsertOrIgnore
<1>2. TypeOK'
  BY <1>1, Constants DEF IInv, TypeOK, InsertOrIgnore, PC, InCall, InTransaction, Result,
     Decision
<1>3. LogInv' /\ OpenedStoreHasRow'
  BY <1>1 DEF IInv, LogInv, OpenedStoreHasRow, RowAt, InsertOrIgnore, InCall,
     InTransaction, TypeOK
<1>4. CallInv'
  BY DEF IInv, TypeOK, CallInv, NoRequest, Fenced, Unconditional, InsertOrIgnore,
     InCall, InTransaction
<1>5. SeenInv'
  BY <1>1, Constants DEF IInv, TypeOK, SeenInv, Known, RowAt, InsertOrIgnore
<1>6. LocalInv'
  BY <1>1 DEF IInv, TypeOK, LocalInv, Matches, NewRow, InsertOrIgnore
<1>7. ToldInv'
  BY <1>1, Constants DEF IInv, TypeOK, CallInv, ToldInv, Truthful, Known, RowAt,
     DecisionOf, InsertOrIgnore
<1>8. FencedAppliesToObservedVersion'
  BY <1>1 DEF IInv, FencedAppliesToObservedVersion, RowAt
<1> QED
  BY <1>2, <1>3, <1>4, <1>5, <1>6, <1>7, <1>8 DEF IInv

LEMMA SnapshotKeepsIInv ==
  ASSUME IInv, NEW a \in Actors, Snapshot(a)
  PROVE  IInv'
<1> USE DEF Goto, Leave, Raise, database
<1>1. UNCHANGED <<authority, log>>
  BY DEF Snapshot
<1>2. TypeOK'
  BY <1>1, Constants DEF IInv, TypeOK, Snapshot, PC, InCall, InTransaction, Result,
     Decision
<1>3. LogInv' /\ OpenedStoreHasRow'
  BY <1>1 DEF IInv, LogInv, OpenedStoreHasRow, RowAt, Snapshot, InCall,
     InTransaction, TypeOK
<1>4. CallInv'
  BY DEF IInv, TypeOK, CallInv, NoRequest, Fenced, Unconditional, Snapshot,
     InCall, InTransaction
<1>5. SeenInv'
  BY <1>1, Pieces DEF IInv, TypeOK, SeenInv, Known, RowAt, Snapshot
<1>6. LocalInv'
  BY <1>1 DEF IInv, TypeOK, LocalInv, Matches, NewRow, Snapshot
<1>7. ToldInv'
  BY <1>1, Constants DEF IInv, TypeOK, ToldInv, Truthful, Known, RowAt, DecisionOf, Snapshot
<1>8. FencedAppliesToObservedVersion'
  BY <1>1 DEF IInv, FencedAppliesToObservedVersion, RowAt
<1> QED
  BY <1>2, <1>3, <1>4, <1>5, <1>6, <1>7, <1>8 DEF IInv

LEMMA CallKeepsIInv ==
  ASSUME IInv, NEW a \in Actors, NEW kind \in Fenced \cup Unconditional,
         NEW t \in TransitionIds, NEW target \in PromotionState,
         Call(a, kind, t, target)
  PROVE  IInv'
<1> USE DEF Goto, Leave, Raise, database
<1> DEFINE seen == IF observed[a] = NoSnapshot THEN InitialRow ELSE observed[a]
<1>0. /\ request'[a] = [kind |-> kind, transition_id |-> t, target_state |-> target,
                        observed |-> seen]
      /\ request'[a] \in Request /\ Known(seen)
  BY Pieces DEF IInv, TypeOK, SeenInv, Call, Request
<1>1. UNCHANGED <<authority, log>>
  BY DEF Call
<1>2. TypeOK'
  BY <1>0, <1>1, Constants DEF IInv, TypeOK, Call, PC, InCall, InTransaction
<1>3. LogInv' /\ OpenedStoreHasRow'
  BY <1>1 DEF IInv, LogInv, OpenedStoreHasRow, RowAt, Call, InCall,
     InTransaction, TypeOK
<1>4. CallInv'
  BY <1>0 DEF IInv, TypeOK, CallInv, Fenced, Valid, Call, InCall, InTransaction
<1>5. SeenInv'
  BY <1>0, <1>1, Pieces DEF IInv, TypeOK, SeenInv, Known, RowAt, Call
<1>6. LocalInv'
  BY <1>1 DEF IInv, TypeOK, LocalInv, Matches, NewRow, Call
<1>7. ToldInv'
  BY <1>1, Constants DEF IInv, TypeOK, ToldInv, Truthful, Known, RowAt, DecisionOf, Call
<1>8. FencedAppliesToObservedVersion'
  BY <1>1 DEF IInv, FencedAppliesToObservedVersion, RowAt
<1> QED
  BY <1>2, <1>3, <1>4, <1>5, <1>6, <1>7, <1>8 DEF IInv

LEMMA RejectCallKeepsIInv ==
  ASSUME IInv, NEW a \in Actors, NEW kind \in Fenced \cup Unconditional,
         NEW t \in TransitionIds, NEW target \in PromotionState,
         RejectCall(a, kind, t, target)
  PROVE  IInv'
<1> USE DEF Goto, Leave, Raise, database
<1>1. UNCHANGED <<authority, log>>
  BY DEF RejectCall
<1>2. TypeOK'
  BY <1>1, Constants DEF IInv, TypeOK, RejectCall, PC, InCall, InTransaction, Result,
     Decision
<1>3. LogInv' /\ OpenedStoreHasRow'
  BY <1>1 DEF IInv, LogInv, OpenedStoreHasRow, RowAt, RejectCall, InCall,
     InTransaction, TypeOK
<1>4. CallInv'
  BY DEF IInv, TypeOK, CallInv, NoRequest, Fenced, Unconditional, RejectCall,
     InCall, InTransaction
<1>5. SeenInv'
  BY <1>1, Constants DEF IInv, TypeOK, SeenInv, Known, RowAt, RejectCall
<1>6. LocalInv'
  BY <1>1 DEF IInv, TypeOK, LocalInv, Matches, NewRow, RejectCall
<1>7. ToldInv'
  BY <1>1, Constants DEF IInv, TypeOK, ToldInv, Truthful, Known, RowAt, DecisionOf, RejectCall
<1>8. FencedAppliesToObservedVersion'
  BY <1>1 DEF IInv, FencedAppliesToObservedVersion, RowAt
<1> QED
  BY <1>2, <1>3, <1>4, <1>5, <1>6, <1>7, <1>8 DEF IInv

LEMMA BeginImmediateKeepsIInv ==
  ASSUME IInv, NEW a \in Actors, BeginImmediate(a)
  PROVE  IInv'
<1> USE DEF Goto, Leave, Raise, database
<1>1. UNCHANGED <<authority, log>>
  BY DEF BeginImmediate
<1>2. TypeOK'
  BY <1>1, Constants DEF IInv, TypeOK, BeginImmediate, PC, InCall, InTransaction, Result,
     Decision
<1>3. LogInv' /\ OpenedStoreHasRow'
  BY <1>1 DEF IInv, LogInv, OpenedStoreHasRow, RowAt, BeginImmediate, InCall,
     InTransaction, TypeOK
<1>4. CallInv'
  BY DEF IInv, TypeOK, CallInv, NoRequest, Fenced, Unconditional, BeginImmediate,
     InCall, InTransaction
<1>5. SeenInv'
  BY <1>1, Constants DEF IInv, TypeOK, SeenInv, Known, RowAt, BeginImmediate
<1>6. LocalInv'
  BY <1>1 DEF IInv, TypeOK, LocalInv, Matches, NewRow, BeginImmediate
<1>7. ToldInv'
  BY <1>1, Constants DEF IInv, TypeOK, ToldInv, Truthful, Known, RowAt, DecisionOf, BeginImmediate
<1>8. FencedAppliesToObservedVersion'
  BY <1>1 DEF IInv, FencedAppliesToObservedVersion, RowAt
<1> QED
  BY <1>2, <1>3, <1>4, <1>5, <1>6, <1>7, <1>8 DEF IInv

LEMMA UpdateAndReadKeepsIInv ==
  ASSUME IInv, NEW a \in Actors, UpdateAndRead(a)
  PROVE  IInv'
<1> USE DEF Goto, Leave, Raise, database
<1>1. UNCHANGED <<authority, log>>
  BY DEF UpdateAndRead
<1>2. TypeOK'
  <2>1. request[a] \in Request
    BY DEF IInv, CallInv, UpdateAndRead, InCall, InTransaction
  <2>2. local' \in [Actors -> [rowcount : {0, 1}, row : Row]]
    BY <2>1, Pieces DEF IInv, TypeOK, UpdateAndRead
  <2> QED
    BY <1>1, <2>2 DEF IInv, TypeOK, UpdateAndRead, PC, InCall, InTransaction
<1>3. LogInv' /\ OpenedStoreHasRow'
  BY <1>1 DEF IInv, LogInv, OpenedStoreHasRow, RowAt, UpdateAndRead, InCall,
     InTransaction, TypeOK
<1>4. CallInv'
  BY DEF IInv, TypeOK, CallInv, NoRequest, Fenced, Unconditional, UpdateAndRead,
     InCall, InTransaction
<1>5. SeenInv'
  BY <1>1, Constants DEF IInv, TypeOK, SeenInv, Known, RowAt, UpdateAndRead
<1>6. LocalInv'
  BY <1>1 DEF IInv, TypeOK, LocalInv, Matches, NewRow, UpdateAndRead
<1>7. ToldInv'
  BY <1>1, Constants DEF IInv, TypeOK, ToldInv, Truthful, Known, RowAt, DecisionOf, UpdateAndRead
<1>8. FencedAppliesToObservedVersion'
  BY <1>1 DEF IInv, FencedAppliesToObservedVersion, RowAt
<1> QED
  BY <1>2, <1>3, <1>4, <1>5, <1>6, <1>7, <1>8 DEF IInv

LEMMA ReturnKeepsIInv ==
  ASSUME IInv, NEW a \in Actors, Return(a)
  PROVE  IInv'
<1> USE DEF Goto, Leave, Raise, database
<1>1. UNCHANGED <<authority, log>>
  BY DEF Return
<1>2. TypeOK'
  <2>1. [decision |-> DecisionOf(a), authoritative |-> local[a].row] \in Result
    BY Pieces DEF DecisionOf, Decision, Result
  <2> QED
    BY <1>1, <2>1, Constants DEF IInv, TypeOK, Return, PC, InCall, InTransaction
<1>3. LogInv' /\ OpenedStoreHasRow'
  BY <1>1 DEF IInv, LogInv, OpenedStoreHasRow, RowAt, Return, InCall,
     InTransaction, TypeOK
<1>4. CallInv'
  BY DEF IInv, TypeOK, CallInv, NoRequest, Fenced, Unconditional, Return,
     InCall, InTransaction
<1>5. SeenInv'
  BY <1>1, Constants DEF IInv, TypeOK, SeenInv, Known, RowAt, Return
<1>6. LocalInv'
  BY <1>1 DEF IInv, TypeOK, LocalInv, Matches, NewRow, Return
<1>7. ToldInv'
  BY <1>1, Constants DEF IInv, TypeOK, ToldInv, Truthful, Known, RowAt, DecisionOf, Return
<1>8. FencedAppliesToObservedVersion'
  BY <1>1 DEF IInv, FencedAppliesToObservedVersion, RowAt
<1> QED
  BY <1>2, <1>3, <1>4, <1>5, <1>6, <1>7, <1>8 DEF IInv

LEMMA ReadBackKeepsIInv ==
  ASSUME IInv, NEW a \in Actors, ReadBack(a)
  PROVE  IInv'
<1> USE DEF Goto, Leave, Raise, database
<1>1. UNCHANGED <<authority, log>>
  BY DEF ReadBack
<1>2. TypeOK'
  <2>1. [decision |-> "applied", authoritative |-> authority] \in Result
    BY Pieces DEF Decision, Result
  <2>2. observed' \in [Actors -> Row \cup {NoSnapshot}] /\ result' \in [Actors -> Result]
    BY <2>1, Pieces DEF IInv, TypeOK, ReadBack
  <2> QED
    BY <1>1, <2>2 DEF IInv, TypeOK, ReadBack, PC, InCall, InTransaction
<1>3. LogInv' /\ OpenedStoreHasRow'
  BY <1>1 DEF IInv, LogInv, OpenedStoreHasRow, RowAt, ReadBack, InCall,
     InTransaction, TypeOK
<1>4. CallInv'
  BY DEF IInv, TypeOK, CallInv, NoRequest, Fenced, Unconditional, ReadBack,
     InCall, InTransaction
<1>5. SeenInv'
  BY <1>1, Pieces DEF IInv, TypeOK, SeenInv, Known, RowAt, ReadBack
<1>6. LocalInv'
  BY <1>1 DEF IInv, TypeOK, LocalInv, Matches, NewRow, ReadBack
<1>7. ToldInv'
  BY <1>1, Constants DEF IInv, TypeOK, ToldInv, Truthful, Known, RowAt, DecisionOf, ReadBack
<1>8. FencedAppliesToObservedVersion'
  BY <1>1 DEF IInv, FencedAppliesToObservedVersion, RowAt
<1> QED
  BY <1>2, <1>3, <1>4, <1>5, <1>6, <1>7, <1>8 DEF IInv

LEMMA BusyTimeoutKeepsIInv ==
  ASSUME IInv, NEW a \in Actors, BusyTimeout(a)
  PROVE  IInv'
<1> USE DEF Goto, Leave, Raise, database
<1>1. UNCHANGED <<authority, log>>
  BY DEF BusyTimeout
<1>2. TypeOK'
  BY <1>1, Constants DEF IInv, TypeOK, BusyTimeout, PC, InCall, InTransaction, Result,
     Decision
<1>3. LogInv' /\ OpenedStoreHasRow'
  BY <1>1 DEF IInv, LogInv, OpenedStoreHasRow, RowAt, BusyTimeout, InCall,
     InTransaction, TypeOK
<1>4. CallInv'
  BY DEF IInv, TypeOK, CallInv, NoRequest, Fenced, Unconditional, BusyTimeout,
     InCall, InTransaction
<1>5. SeenInv'
  BY <1>1, Constants DEF IInv, TypeOK, SeenInv, Known, RowAt, BusyTimeout
<1>6. LocalInv'
  BY <1>1 DEF IInv, TypeOK, LocalInv, Matches, NewRow, BusyTimeout
<1>7. ToldInv'
  BY <1>1, Constants DEF IInv, TypeOK, ToldInv, Truthful, Known, RowAt, DecisionOf, BusyTimeout
<1>8. FencedAppliesToObservedVersion'
  BY <1>1 DEF IInv, FencedAppliesToObservedVersion, RowAt
<1> QED
  BY <1>2, <1>3, <1>4, <1>5, <1>6, <1>7, <1>8 DEF IInv

LEMMA FailKeepsIInv ==
  ASSUME IInv, NEW a \in Actors, Fail(a)
  PROVE  IInv'
<1> USE DEF Goto, Leave, Raise, Raising, database
<1>1. UNCHANGED <<authority, log>>
  BY DEF Fail
<1>2. TypeOK'
  BY <1>1, Constants DEF IInv, TypeOK, Fail, PC, InCall, InTransaction, Result,
     Decision
<1>3. LogInv' /\ OpenedStoreHasRow'
  BY <1>1 DEF IInv, LogInv, OpenedStoreHasRow, RowAt, Fail, InCall,
     InTransaction, TypeOK
<1>4. CallInv'
  BY DEF IInv, TypeOK, CallInv, NoRequest, Fenced, Unconditional, Fail,
     InCall, InTransaction
<1>5. SeenInv'
  BY <1>1, Constants DEF IInv, TypeOK, SeenInv, Known, RowAt, Fail
<1>6. LocalInv'
  BY <1>1 DEF IInv, TypeOK, LocalInv, Matches, NewRow, Fail
<1>7. ToldInv'
  BY <1>1, Constants DEF IInv, TypeOK, ToldInv, Truthful, Known, RowAt, DecisionOf, Fail
<1>8. FencedAppliesToObservedVersion'
  BY <1>1 DEF IInv, FencedAppliesToObservedVersion, RowAt
<1> QED
  BY <1>2, <1>3, <1>4, <1>5, <1>6, <1>7, <1>8 DEF IInv

LEMMA CrashKeepsIInv ==
  ASSUME IInv, NEW a \in Actors, Crash(a)
  PROVE  IInv'
<1> USE DEF Goto, Leave, Raise, database
<1>1. UNCHANGED <<authority, log>>
  BY DEF Crash
<1>2. TypeOK'
  BY <1>1, Constants DEF IInv, TypeOK, Crash, PC, InCall, InTransaction, Result,
     Decision
<1>3. LogInv' /\ OpenedStoreHasRow'
  BY <1>1 DEF IInv, LogInv, OpenedStoreHasRow, RowAt, Crash, InCall,
     InTransaction, TypeOK
<1>4. CallInv'
  BY DEF IInv, TypeOK, CallInv, NoRequest, Fenced, Unconditional, Crash,
     InCall, InTransaction
<1>5. SeenInv'
  BY <1>1, Constants DEF IInv, TypeOK, SeenInv, Known, RowAt, Crash
<1>6. LocalInv'
  BY <1>1 DEF IInv, TypeOK, LocalInv, Matches, NewRow, Crash
<1>7. ToldInv'
  BY <1>1, Constants DEF IInv, TypeOK, ToldInv, Truthful, Known, RowAt, DecisionOf, Crash
<1>8. FencedAppliesToObservedVersion'
  BY <1>1 DEF IInv, FencedAppliesToObservedVersion, RowAt
<1> QED
  BY <1>2, <1>3, <1>4, <1>5, <1>6, <1>7, <1>8 DEF IInv

(***************************************************************************)
(* The steps that may change the row.                                      *)
(***************************************************************************)
\* The commit of an accepted change, fenced or not: the log grows by its entry.
LEMMA AcceptedKeepsIInv ==
  ASSUME IInv, NEW a \in Actors, request[a] \in Request, table = "ready",
         pc[a] \in InCall, Record(a, NewRow(a)), authority' = NewRow(a),
         \A b \in Actors \ {a} : pc[b] # "updated",
         NEW label \in {"committed", "written"}, Goto(a, label),
         label = "committed" =>
           /\ request[a].kind \in Fenced /\ Matches(a)
           /\ local[a].rowcount = 1 /\ local[a].row = NewRow(a),
         label = "written" => request[a].kind # "promote",
         writer' = NoActor, \A b \in Actors \ {a} : writer # b,
         UNCHANGED <<table, observed, request, local, result>>
  PROVE  IInv'
<1> USE DEF Goto
<1> DEFINE e == [kind |-> request[a].kind, observed |-> request[a].observed,
                 row |-> NewRow(a)]
<1>1. /\ log \in Seq(Entry) /\ e \in Entry /\ log' = Append(log, e)
      /\ authority.generation = Len(log) /\ NewRow(a).generation = Len(log) + 1
  BY Pieces DEF IInv, TypeOK, Record, Request, Entry
<1> HIDE DEF e
<1>2. \A b \in Actors : pc'[b] = IF b = a THEN label ELSE pc[b]
  BY DEF IInv, TypeOK
<1>3. TypeOK'
  <2>1. authority' \in Row /\ log' \in Seq(Entry) /\ Len(log') = authority'.generation
    BY <1>1, LogAppended, Pieces
  <2>2. \A b \in Actors : (writer = b <=> pc[b] \in InTransaction)'
    BY <1>2, NoActorAssumption DEF IInv, TypeOK, InTransaction
  <2> QED
    BY <2>1, <2>2 DEF IInv, TypeOK, PC, InCall
<1>4. LogInv'
  <2>1. authority' = RowAt(Len(log))'
    BY <1>1, LogAppended DEF RowAt, e
  <2> QED
    BY <1>2, <2>1 DEF IInv, LogInv
<1>5. CallInv' /\ OpenedStoreHasRow'
  BY <1>2 DEF IInv, CallInv, OpenedStoreHasRow, InCall
<1>6. SeenInv'
  BY <1>1, KnownStays DEF IInv, TypeOK, SeenInv, Request
<1>7. LocalInv'
  BY <1>2 DEF LocalInv
<1>8. ToldInv'
  <2> SUFFICES ASSUME NEW b \in Actors, request[b].kind = "promote"
               PROVE  /\ pc'[b] = "committed" => Truthful(b, DecisionOf(b), local[b].row)'
                      /\ pc'[b] = "open" =>
                           Truthful(b, result[b].decision, result[b].authoritative)'
    BY DEF ToldInv
  <2>0. request[b] \in Request
    BY Constants DEF IInv, TypeOK
  <2>1. CASE b # a
    <3>1. /\ DecisionOf(b) \in Decision /\ DecisionOf(b)' = DecisionOf(b)
          /\ local[b].row \in Row
          /\ result[b].decision \in Decision /\ result[b].authoritative \in Row
      BY Pieces DEF IInv, TypeOK, DecisionOf, Decision, Result
    <3>2. /\ pc[b] = "committed" => Truthful(b, DecisionOf(b), local[b].row)
          /\ pc[b] = "open" => Truthful(b, result[b].decision, result[b].authoritative)
      BY DEF IInv, ToldInv
    <3>3. \A decision \in Decision, row \in Row :
            Truthful(b, decision, row) => Truthful(b, decision, row)'
      BY <1>1, <2>0, TruthStays
    <3>4. pc'[b] = "committed" => Truthful(b, DecisionOf(b), local[b].row)'
      BY <1>2, <2>1, <3>1, <3>2, <3>3 DEF Truthful
    <3>5. pc'[b] = "open" => Truthful(b, result[b].decision, result[b].authoritative)'
      BY <1>2, <2>1, <3>1, <3>2, <3>3 DEF Truthful
    <3> QED
      BY <3>4, <3>5
  <2>2. CASE b = a
    <3>1. label = "committed" /\ DecisionOf(a)' = "applied" /\ local'[a].row = NewRow(a)
      BY <2>2 DEF DecisionOf
    <3>2. request[a].observed.generation = Len(log)
      BY <1>1, <2>2, <3>1 DEF Matches
    <3>3. RowAt(request[a].observed.generation + 1)' = NewRow(a)
      BY <1>1, <3>2, LogAppended DEF RowAt, e
    <3> QED
      BY <1>1, <1>2, <2>2, <3>1, <3>2, <3>3, LogAppended DEF Truthful, NewRow
  <2> QED
    BY <2>1, <2>2
<1>9. FencedAppliesToObservedVersion'
  <2> SUFFICES ASSUME NEW g \in DOMAIN log', log'[g].kind = "promote"
               PROVE  log'[g].observed = RowAt(g - 1)'
    BY DEF FencedAppliesToObservedVersion
  <2>1. CASE g \in DOMAIN log
    BY <1>1, <2>1, LogAppended DEF IInv, FencedAppliesToObservedVersion
  <2>2. CASE g = Len(log) + 1
    <3>1. request[a].kind = "promote" /\ log'[g].observed = request[a].observed
      BY <1>1, <2>2, LogAppended DEF e
    <3>2. request[a].observed.generation = Len(log) /\ Known(request[a].observed)
      BY <1>1, <3>1 DEF Matches, IInv, SeenInv
    <3>3. g - 1 = Len(log) /\ RowAt(g - 1)' = RowAt(g - 1)
      BY <1>1, <2>2, LogAppended
    <3> QED
      BY <3>1, <3>2, <3>3 DEF Known
  <2> QED
    BY <1>1, <2>1, <2>2, LogAppended
<1> QED
  BY <1>3, <1>4, <1>5, <1>6, <1>7, <1>8, <1>9 DEF IInv

LEMMA CommitKeepsIInv ==
  ASSUME IInv, NEW a \in Actors, Commit(a)
  PROVE  IInv'
<1> USE DEF Goto
<1>1. /\ request[a] \in Request /\ request[a].kind \in Fenced
      /\ table = "ready" /\ pc[a] = "updated" /\ writer = a
      /\ \A b \in Actors \ {a} : pc[b] \notin InTransaction
  BY DEF IInv, TypeOK, CallInv, OpenedStoreHasRow, Commit, InCall, InTransaction
<1>2. CASE local[a].rowcount = 1
  <2>1. Matches(a) /\ local[a].row = NewRow(a)
    BY <1>1, <1>2 DEF IInv, LocalInv
  <2>2. /\ Record(a, NewRow(a)) /\ authority' = NewRow(a)
        /\ writer' = NoActor /\ Goto(a, "committed")
        /\ UNCHANGED <<table, observed, request, local, result>>
    BY <1>2, <2>1 DEF Commit
  <2>3. /\ pc[a] \in InCall
        /\ \A b \in Actors \ {a} : pc[b] # "updated" /\ writer # b
    BY <1>1 DEF InCall, InTransaction
  <2> HIDE DEF Goto
  <2> QED
    BY <1>1, <1>2, <2>1, <2>2, <2>3, AcceptedKeepsIInv
<1>3. CASE local[a].rowcount = 0
  <2>1. ~Matches(a) /\ local[a].row = authority /\ UNCHANGED <<authority, log>>
    BY <1>1, <1>3 DEF IInv, LocalInv, Commit
  <2>2. TypeOK'
    BY <1>1, <2>1, NoActorAssumption DEF IInv, TypeOK, Commit, PC, InCall, InTransaction
  <2>3. LogInv' /\ CallInv' /\ OpenedStoreHasRow'
    BY <1>1, <2>1 DEF IInv, TypeOK, LogInv, CallInv, OpenedStoreHasRow, RowAt, Commit, InCall
  <2>4. SeenInv' /\ LocalInv'
    BY <1>1, <2>1 DEF IInv, TypeOK, SeenInv, Known, RowAt, LocalInv, Commit, InTransaction
  <2>5. ToldInv'
    <3>1. /\ Known(authority) /\ authority.generation = Len(log)
          /\ request[a].observed.generation \in Nat
          /\ request[a].observed.generation <= Len(log)
      BY <1>1, Pieces DEF IInv, SeenInv, Known, Request, Row
    <3>2. request[a].kind = "promote" => Truthful(a, DecisionOf(a), local[a].row)'
      BY <1>3, <2>1, <3>1, Pieces DEF Commit, Truthful, Known, RowAt, DecisionOf
    <3>3. ASSUME NEW b \in Actors \ {a}
          PROVE  request'[b].kind = "promote" =>
                   /\ pc'[b] = "committed" => Truthful(b, DecisionOf(b), local[b].row)'
                   /\ pc'[b] = "open" =>
                        Truthful(b, result[b].decision, result[b].authoritative)'
      BY <2>1 DEF IInv, TypeOK, ToldInv, Commit, Truthful, Known, RowAt, DecisionOf
    <3> QED
      BY <3>2, <3>3 DEF IInv, TypeOK, ToldInv, Commit, DecisionOf
  <2>6. FencedAppliesToObservedVersion'
    BY <2>1 DEF IInv, FencedAppliesToObservedVersion, RowAt
  <2> QED
    BY <2>2, <2>3, <2>4, <2>5, <2>6 DEF IInv
<1> QED
  BY <1>2, <1>3 DEF Commit

LEMMA WriteKeepsIInv ==
  ASSUME IInv, NEW a \in Actors, WriteUnconditionally(a)
  PROVE  IInv'
<1>1. /\ request[a] \in Request /\ table = "ready" /\ request[a].kind # "promote"
      /\ \A b \in Actors : pc[b] \notin InTransaction
  BY NoActorAssumption
  DEF IInv, TypeOK, CallInv, OpenedStoreHasRow, WriteUnconditionally, InCall, InTransaction,
      Unconditional
<1> QED
  BY <1>1, AcceptedKeepsIInv, NoActorAssumption
  DEF WriteUnconditionally, InCall, InTransaction

LEMMA NextKeepsIInv == IInv /\ [Next]_vars => IInv'
<1> SUFFICES ASSUME IInv, [Next]_vars PROVE IInv'
  OBVIOUS
<1>1. CASE UNCHANGED vars
  <2> USE <1>1 DEF vars
  <2>1. TypeOK' /\ LogInv' /\ CallInv' /\ OpenedStoreHasRow'
    BY DEF IInv, TypeOK, LogInv, CallInv, OpenedStoreHasRow, RowAt
  <2>2. SeenInv' /\ LocalInv' /\ ToldInv' /\ FencedAppliesToObservedVersion'
    BY DEF IInv, SeenInv, LocalInv, ToldInv, FencedAppliesToObservedVersion, Truthful, Known,
       RowAt, Matches, NewRow, DecisionOf
  <2> QED
    BY <2>1, <2>2 DEF IInv
<1>2. CASE Next
  <2>1. PICK a \in Actors :
          Open(a) \/ Snapshot(a) \/ Calls(a) \/ Step(a) \/ Fail(a) \/ Crash(a)
    BY <1>2 DEF Next
  <2>2. CASE Open(a)
    BY <2>2, CreateTableKeepsIInv, InsertOrIgnoreKeepsIInv DEF Open
  <2>3. CASE Calls(a)
    BY <2>3, CallKeepsIInv, RejectCallKeepsIInv, KindsAssumption DEF Calls
  <2>4. CASE Step(a)
    BY <2>4, BeginImmediateKeepsIInv, BusyTimeoutKeepsIInv, UpdateAndReadKeepsIInv,
       CommitKeepsIInv, ReturnKeepsIInv, WriteKeepsIInv, ReadBackKeepsIInv DEF Step
  <2> QED
    BY <2>1, <2>2, <2>3, <2>4, SnapshotKeepsIInv, FailKeepsIInv, CrashKeepsIInv
<1> QED
  BY <1>1, <1>2

LEMMA SpecIInv == Spec => []IInv
  BY InitIInv, NextKeepsIInv, PTL DEF Spec
-----------------------------------------------------------------------------
\* The store's variables keep their types; the log has an entry for each
\* generation, and only who is in a transaction holds the write lock.
THEOREM StoreTypeOK == Spec => []TypeOK
<1>1. IInv => TypeOK
  BY DEF IInv
<1> QED
  BY <1>1, SpecIInv, PTL

\* A fenced promotion is accepted only as the successor of the version observed.
THEOREM StoreFence == Spec => []FencedAppliesToObservedVersion
<1>1. IInv => FencedAppliesToObservedVersion
  BY DEF IInv
<1> QED
  BY <1>1, SpecIInv, PTL

\* Whoever has opened the store finds its row.
THEOREM StoreHasRow == Spec => []OpenedStoreHasRow
<1>1. IInv => OpenedStoreHasRow
  BY DEF IInv
<1> QED
  BY <1>1, SpecIInv, PTL

(***************************************************************************)
(* What naive_promote is told, of the change it has committed.             *)
(***************************************************************************)
NaiveOf(a) ==
  request[a].kind = "naive_promote" =>
    /\ pc[a] = "written" => WrittenBy(a, Len(log))
    /\ pc[a] = "open" /\ result[a].decision = "applied" =>
         /\ Known(result[a].authoritative)
         /\ WrittenBy(a, result[a].authoritative.generation)

NaiveInv == \A a \in Actors : NaiveOf(a)

\* The change of a call stays in the log, which only grows.
LEMMA NaiveStays ==
  ASSUME IInv, NEW b \in Actors, NaiveOf(b),
         UNCHANGED log \/ \E e \in Entry : log' = Append(log, e),
         pc'[b] = pc[b], request'[b] = request[b], result'[b] = result[b]
  PROVE  NaiveOf(b)'
<1>1. log \in Seq(Entry) /\ Len(log) \in Nat /\ result[b].authoritative \in Row
  BY DEF IInv, TypeOK, Result
<1>2. CASE UNCHANGED log
  BY <1>2 DEF NaiveOf, WrittenBy, Known, RowAt
<1>3. ASSUME NEW e \in Entry, log' = Append(log, e) PROVE NaiveOf(b)'
  <2>1. Known(result[b].authoritative) => Known(result[b].authoritative)'
    BY <1>1, <1>3, LogAppended DEF Known, Row
  <2>2. \A g \in Nat, h \in Nat : WrittenBy(b, g) /\ g <= h => WrittenBy(b, h)'
    BY <1>1, <1>3, LogAppended DEF WrittenBy
  <2>3. Len(log) <= Len(log') /\ Len(log') \in Nat /\ result[b].authoritative.generation \in Nat
    BY <1>1, <1>3, LogAppended DEF Row
  <2> QED
    BY <1>1, <2>1, <2>2, <2>3 DEF NaiveOf
<1> QED
  BY <1>2, <1>3

LEMMA StepKeepsNaive ==
  ASSUME IInv, NaiveInv, NEW a \in Actors,
         \/ Open(a) \/ Snapshot(a) \/ Step(a) \/ Fail(a) \/ Crash(a)
         \/ \E kind \in Fenced \cup Unconditional, t \in TransitionIds, target \in PromotionState :
              Call(a, kind, t, target) \/ RejectCall(a, kind, t, target)
  PROVE  NaiveInv'
<1> USE DEF Goto, Leave, Raise, database
<1>1. UNCHANGED log \/ \E e \in Entry : log' = Append(log, e)
  <2>1. CASE Commit(a) /\ local[a].rowcount = 1
    <3>1. request[a] \in Request
      BY <2>1 DEF IInv, CallInv, Commit, InCall, InTransaction
    <3> QED
      BY <2>1, <3>1 DEF IInv, TypeOK, Commit, Record, Request, Entry
  <2>2. CASE WriteUnconditionally(a)
    <3>1. request[a] \in Request
      BY <2>2 DEF IInv, CallInv, WriteUnconditionally, InCall
    <3> QED
      BY <2>2, <3>1, Pieces DEF WriteUnconditionally, Record, Request, Entry
  <2> QED
    BY <2>1, <2>2 DEF IInv, TypeOK, Open, CreateTable, InsertOrIgnore, Snapshot, Step,
       BeginImmediate, BusyTimeout, UpdateAndRead, Commit, Return, ReadBack, Fail, Crash, Call,
       RejectCall
<1>2. \A b \in Actors \ {a} : pc'[b] = pc[b] /\ request'[b] = request[b] /\ result'[b] = result[b]
  BY DEF IInv, TypeOK, Open, CreateTable, InsertOrIgnore, Snapshot, Step, BeginImmediate,
     BusyTimeout, UpdateAndRead, Commit, Return, WriteUnconditionally, ReadBack, Fail, Crash, Call,
     RejectCall
<1>3. NaiveOf(a)'
  <2>1. CASE WriteUnconditionally(a)
    <3>1. /\ request[a] \in Request /\ Known(request[a].observed) /\ UNCHANGED request
          /\ request[a].observed.generation \in Nat /\ pc'[a] = "written"
      BY <2>1 DEF IInv, TypeOK, CallInv, SeenInv, WriteUnconditionally, InCall, Request, Row
    <3>2. PICK e \in Entry : log' = Append(log, e) /\ e.row = NewRow(a)
      BY <2>1, <3>1, Pieces DEF WriteUnconditionally, Record, Request, Entry
    <3>3. /\ Len(log') \in DOMAIN log' /\ Len(log') > request[a].observed.generation
          /\ log'[Len(log')].row = NewRow(a)
      BY <3>1, <3>2, LogAppended DEF Known, IInv, TypeOK
    <3>4. NewRow(a).last_actor = a /\ NewRow(a).last_transition = request[a].transition_id
      BY DEF NewRow
    <3>5. WrittenBy(a, Len(log))'
      BY <3>1, <3>2, <3>3, <3>4, LogAppended DEF WrittenBy, IInv, TypeOK
    <3> QED
      BY <3>1, <3>5 DEF NaiveOf
  <2>2. CASE ReadBack(a)
    <3>1. Known(authority) /\ authority.generation = Len(log)
      BY Pieces
    <3>2. /\ UNCHANGED <<log, request>>
          /\ request[a].kind = "naive_promote" => result'[a].authoritative = authority
      BY <2>2 DEF IInv, TypeOK, ReadBack
    <3>3. request[a].kind = "naive_promote" => WrittenBy(a, Len(log))
      BY <2>2 DEF NaiveInv, NaiveOf, ReadBack
    <3> QED
      BY <2>2, <3>1, <3>2, <3>3 DEF IInv, TypeOK, NaiveOf, WrittenBy, Known, RowAt, ReadBack
  <2>3. CASE Snapshot(a)
    BY <2>3, NaiveStays DEF NaiveInv, Snapshot
  <2> QED
    BY <2>1, <2>2, <2>3 DEF IInv, TypeOK, CallInv, NaiveOf, NoRequest, Fenced, Open, CreateTable,
       InsertOrIgnore, Step, BeginImmediate, BusyTimeout, UpdateAndRead, Commit, Return, Fail,
       Crash, Call, RejectCall
<1> QED
  BY <1>1, <1>2, <1>3, NaiveStays DEF NaiveInv

LEMMA NextKeepsNaive == IInv /\ NaiveInv /\ [Next]_vars => NaiveInv'
<1> SUFFICES ASSUME IInv, NaiveInv, [Next]_vars PROVE NaiveInv'
  OBVIOUS
<1>1. CASE UNCHANGED vars
  BY <1>1 DEF vars, NaiveInv, NaiveOf, WrittenBy, Known, RowAt
<1>2. CASE Next
  BY <1>2, StepKeepsNaive, KindsAssumption DEF Next, Calls
<1> QED
  BY <1>1, <1>2

LEMMA AnswersMatch == IInv /\ NaiveInv => AnswersMatchHistory
<1> SUFFICES ASSUME IInv, NaiveInv, NEW a \in Actors, pc[a] = "open"
             PROVE  /\ request[a].kind = "promote" => FencedAnswer(a)
                    /\ request[a].kind = "naive_promote" => NaiveAnswer(a)
  BY DEF AnswersMatchHistory
<1>1. request[a].kind = "promote" => FencedAnswer(a)
  BY DEF IInv, TypeOK, ToldInv, Truthful, Known, FencedAnswer
<1>2. request[a].kind = "naive_promote" => NaiveAnswer(a)
  BY DEF IInv, TypeOK, NaiveInv, NaiveOf, Known, NaiveAnswer
<1> QED
  BY <1>1, <1>2

\* What a fenced call was told is what happened, and what naive_promote was told is its
\* own change, with the row of that or of a later generation.
THEOREM StoreAnswers == Spec => []AnswersMatchHistory
<1>1. Init => NaiveInv
  BY DEF Init, NaiveInv, NaiveOf, NoRequest
<1> QED
  BY <1>1, NextKeepsNaive, AnswersMatch, SpecIInv, PTL DEF Spec
-----------------------------------------------------------------------------
(***************************************************************************)
(* The refinement: status, verdict and pending request of each actor.      *)
(***************************************************************************)
StatusOf(a) == IF pc[a] \in {"called", "begun", "updated"} THEN "pending"
               ELSE IF pc[a] \in {"committed", "written"} THEN "decided" ELSE "idle"
VerdictOf(a) == IF pc[a] = "committed" THEN DecisionOf(a)
                ELSE IF pc[a] = "written" THEN "applied" ELSE "none"
RequestOf(a) == IF pc[a] \in InCall THEN Pending(a) ELSE NoRequest

\* The step of one actor leaves the register's view of the others alone.
OneMoves(a) ==
  \A b \in Actors \ {a} : /\ pc'[b] = pc[b] /\ local'[b] = local[b]
                          /\ request'[b] = request[b]

LEMMA OthersStay ==
  ASSUME NEW a \in Actors, OneMoves(a)
  PROVE  /\ \A b \in Actors \ {a} : /\ StatusOf(b)' = StatusOf(b)
                                  /\ VerdictOf(b)' = VerdictOf(b)
                                  /\ RequestOf(b)' = RequestOf(b)
         /\ [b \in Actors |-> StatusOf(b)]' =
              [[b \in Actors |-> StatusOf(b)] EXCEPT ![a] = StatusOf(a)']
         /\ [b \in Actors |-> VerdictOf(b)]' =
              [[b \in Actors |-> VerdictOf(b)] EXCEPT ![a] = VerdictOf(a)']
         /\ [b \in Actors |-> RequestOf(b)]' =
              [[b \in Actors |-> RequestOf(b)] EXCEPT ![a] = RequestOf(a)']
<1>1. \A b \in Actors \ {a} : /\ StatusOf(b)' = StatusOf(b)
                            /\ VerdictOf(b)' = VerdictOf(b)
                            /\ RequestOf(b)' = RequestOf(b)
  BY DEF OneMoves, StatusOf, VerdictOf, RequestOf, Pending, DecisionOf
<1> QED
  BY <1>1

\* A step that decides nothing, starts nothing and ends nothing.
LEMMA Stutters ==
  ASSUME NEW a \in Actors, OneMoves(a), UNCHANGED authority,
         StatusOf(a)' = StatusOf(a), VerdictOf(a)' = VerdictOf(a),
         RequestOf(a)' = RequestOf(a)
  PROVE  UNCHANGED Register!vars
<1>1. \A b \in Actors : /\ StatusOf(b)' = StatusOf(b) /\ VerdictOf(b)' = VerdictOf(b)
                       /\ RequestOf(b)' = RequestOf(b)
  BY OthersStay
<1> QED
  BY <1>1 DEF Register!vars, StatusOf, VerdictOf, RequestOf

\* A step that ends the call of a, its answer received or lost.
LEMMA Finishes ==
  ASSUME NEW a \in Actors, OneMoves(a), UNCHANGED authority,
         pc[a] \in InCall, pc'[a] \notin InCall
  PROVE  Register!Finish(a)
<1>1. /\ StatusOf(a) # "idle" /\ StatusOf(a)' = "idle" /\ VerdictOf(a)' = "none"
      /\ RequestOf(a)' = NoRequest
  BY DEF StatusOf, VerdictOf, RequestOf, InCall, InTransaction
<1> QED
  BY <1>1, OthersStay DEF Register!Finish, StatusOf, VerdictOf, RequestOf, NoRequest

\* A step that decides a pending call with one answer.
LEMMA Decides ==
  ASSUME NEW a \in Actors, NEW answer, OneMoves(a), StatusOf(a) = "pending",
         StatusOf(a)' = "decided", RequestOf(a)' = RequestOf(a), VerdictOf(a)' = answer
  PROVE  Register!Decide(a, answer)
<1>1. \A b \in Actors : RequestOf(b)' = RequestOf(b)
  BY OthersStay
<1> QED
  BY <1>1, OthersStay DEF Register!Decide, StatusOf, VerdictOf, RequestOf

\* The register allows the call that a makes: it observed a generation there was.
LEMMA CallInvokes ==
  ASSUME IInv, NEW a \in Actors, NEW kind \in Fenced \cup Unconditional,
         NEW t \in TransitionIds, NEW target \in PromotionState,
         Call(a, kind, t, target), OneMoves(a)
  PROVE  Register!Invoke(a)
<1>1. pc[a] = "open" /\ pc'[a] = "called" /\ UNCHANGED authority
  BY DEF IInv, TypeOK, Call, Goto, database
<1>2. Pending(a)' \in Register!Request
  <2> DEFINE seen == IF observed[a] = NoSnapshot THEN InitialRow ELSE observed[a]
  <2>1. Known(seen) /\ seen \in Row /\ Len(log) = authority.generation
    BY Pieces DEF IInv, TypeOK, SeenInv
  <2>2. request'[a] = [kind |-> kind, transition_id |-> t, target_state |-> target,
                       observed |-> seen]
    BY DEF IInv, TypeOK, Call
  <2>3. seen.generation \in 0 .. authority.generation
    BY <2>1, Pieces DEF Known, Row
  <2> QED
    BY <2>2, <2>3 DEF Pending, Register!Request, Fenced, Unconditional, PromotionState
<1>3. /\ StatusOf(a) = "idle" /\ StatusOf(a)' = "pending"
      /\ VerdictOf(a)' = VerdictOf(a) /\ RequestOf(a)' = Pending(a)'
  BY <1>1 DEF StatusOf, VerdictOf, RequestOf, InCall, InTransaction
<1>4. \A b \in Actors : VerdictOf(b)' = VerdictOf(b)
  BY <1>3, OthersStay
<1> QED
  BY <1>1, <1>2, <1>3, <1>4, OthersStay
  DEF Register!Invoke, StatusOf, VerdictOf, RequestOf

\* Inside a call the register sees its arguments.
LEMMA Arguments ==
  ASSUME NEW a \in Actors, pc[a] \in InCall
  PROVE  /\ Register!Fenced(a) <=> request[a].kind = "promote"
         /\ Register!StateOnly(a) <=> request[a].kind = "promote_state_only"
         /\ RequestOf(a) = Pending(a)
BY DEF Register!Fenced, Register!StateOnly, RequestOf, Pending

\* An accepted call makes the new row, and its guard is that of its kind.
LEMMA Accepts ==
  ASSUME NEW a \in Actors, pc[a] \in InCall, Register!Decide(a, "applied"),
         request[a].kind = "promote" =>
           authority.generation = request[a].observed.generation,
         request[a].kind = "promote_state_only" => authority.state = "candidate",
         authority' = NewRow(a)
  PROVE  Register!Accept(a)
BY Arguments DEF Register!Accept, Pending, NewRow

\* COMMIT is the moment at which a fenced call is decided.
LEMMA CommitDecides ==
  ASSUME IInv, NEW a \in Actors, Commit(a), OneMoves(a)
  PROVE  Register!Accept(a) \/ Register!Refuse(a)
<1>1. /\ pc[a] = "updated" /\ pc'[a] = "committed" /\ UNCHANGED <<request, local>>
      /\ request[a] \in Request /\ request[a].kind \in Fenced
      /\ request[a].observed.state = "candidate" /\ Known(request[a].observed)
      /\ Known(authority) /\ pc[a] \in InCall
  BY Pieces DEF IInv, TypeOK, CallInv, SeenInv, Commit, Goto, InCall, InTransaction
<1>2. /\ StatusOf(a) = "pending" /\ StatusOf(a)' = "decided" /\ VerdictOf(a)' = DecisionOf(a)
      /\ RequestOf(a)' = RequestOf(a)
  BY <1>1 DEF StatusOf, VerdictOf, RequestOf, Pending, DecisionOf, InCall, InTransaction
<1>3. CASE local[a].rowcount = 1
  <2>1. Matches(a) /\ authority' = NewRow(a) /\ DecisionOf(a) = "applied"
    BY <1>1, <1>3 DEF IInv, LocalInv, Commit, DecisionOf
  <2>2. /\ request[a].kind = "promote" =>
             authority.generation = request[a].observed.generation
        /\ request[a].kind = "promote_state_only" => authority.state = "candidate"
    BY <1>1, <2>1 DEF Matches
  <2>3. Register!Decide(a, "applied")
    BY <1>2, <2>1, Decides
  <2> QED
    BY <1>1, <2>1, <2>2, <2>3, Accepts
<1>4. CASE local[a].rowcount = 0
  <2>1. ~Matches(a) /\ local[a].row = authority /\ UNCHANGED authority
    BY <1>1, <1>4 DEF IInv, LocalInv, Commit
  <2>2. CASE request[a].kind = "promote"
    <3>1. authority.generation # request[a].observed.generation
      BY <1>1, <2>1, <2>2 DEF Matches, Known
    <3>2. DecisionOf(a) = "stale-generation"
      BY <1>4, <2>1, <2>2, <3>1 DEF DecisionOf
    <3>3. Register!Decide(a, "stale-generation")
      BY <1>2, <3>2, Decides
    <3> QED
      BY <1>1, <2>1, <2>2, <3>1, <3>3, Arguments DEF Register!Refuse, Pending
  <2>3. CASE request[a].kind = "promote_state_only"
    <3>1. authority.state # "candidate" /\ DecisionOf(a) = "source-state-mismatch"
      BY <1>1, <1>4, <2>1, <2>3 DEF Matches, DecisionOf
    <3>2. Register!Decide(a, "source-state-mismatch")
      BY <1>2, <3>1, Decides
    <3> QED
      BY <1>1, <2>1, <2>3, <3>1, <3>2, Arguments DEF Register!Refuse, Pending
  <2> QED
    BY <1>1, <2>2, <2>3 DEF Fenced
<1> QED
  BY <1>3, <1>4 DEF Commit

\* The single UPDATE of an unfenced call is always accepted.
LEMMA WriteAccepts ==
  ASSUME IInv, NEW a \in Actors, WriteUnconditionally(a), OneMoves(a)
  PROVE  Register!Accept(a)
<1>1. /\ pc[a] = "called" /\ pc'[a] = "written" /\ UNCHANGED <<request, local>>
      /\ authority' = NewRow(a) /\ request[a].kind \in Unconditional
  BY DEF IInv, TypeOK, WriteUnconditionally, Goto
<1>2. /\ StatusOf(a) = "pending" /\ StatusOf(a)' = "decided" /\ VerdictOf(a)' = "applied"
      /\ RequestOf(a)' = RequestOf(a)
  BY <1>1 DEF StatusOf, VerdictOf, RequestOf, Pending, InCall, InTransaction
<1>3. Register!Decide(a, "applied")
  BY <1>2, Decides
<1> QED
  BY <1>1, <1>3, Accepts DEF Unconditional, InCall

\* Each step of one actor is a step of the register or none of its business.
LEMMA StepRefines ==
  ASSUME IInv, NEW a \in Actors,
         Open(a) \/ Snapshot(a) \/ Calls(a) \/ Step(a) \/ Fail(a) \/ Crash(a)
  PROVE  Register!Next \/ UNCHANGED Register!vars
<1> USE DEF Goto, Leave, Raise, database
<1>1. ASSUME CreateTable(a) \/ InsertOrIgnore(a) \/ Snapshot(a)
      PROVE  UNCHANGED Register!vars
  <2>1. OneMoves(a) /\ UNCHANGED <<authority, request, local>>
    BY <1>1 DEF IInv, TypeOK, LogInv, RowAt, OneMoves, CreateTable, InsertOrIgnore, Snapshot
  <2>2. pc[a] \in {"closed", "created", "open"} /\ pc'[a] \in {"closed", "created", "open"}
    BY <1>1 DEF IInv, TypeOK, CreateTable, InsertOrIgnore, Snapshot
  <2>3. /\ StatusOf(a)' = StatusOf(a) /\ VerdictOf(a)' = VerdictOf(a)
        /\ RequestOf(a)' = RequestOf(a)
    BY <2>2 DEF StatusOf, VerdictOf, RequestOf, InCall, InTransaction
  <2> QED
    BY <2>1, <2>3, Stutters
<1>2. ASSUME NEW kind \in Kinds, NEW t \in TransitionIds, NEW target \in PromotionState,
             Call(a, kind, t, target)
      PROVE  Register!Next
  <2>1. OneMoves(a) /\ kind \in Fenced \cup Unconditional
    BY <1>2, KindsAssumption DEF IInv, TypeOK, OneMoves, Call
  <2> QED
    BY <1>2, <2>1, CallInvokes DEF Register!Next
<1>3. ASSUME NEW kind \in Kinds, NEW t \in TransitionIds, NEW target \in PromotionState,
             RejectCall(a, kind, t, target)
      PROVE  UNCHANGED Register!vars
  <2>1. OneMoves(a) /\ UNCHANGED <<authority, local, pc>> /\ pc[a] = "open"
    BY <1>3 DEF IInv, TypeOK, OneMoves, RejectCall
  <2>2. /\ StatusOf(a)' = StatusOf(a) /\ VerdictOf(a)' = VerdictOf(a)
        /\ RequestOf(a)' = RequestOf(a)
    BY <2>1 DEF StatusOf, VerdictOf, RequestOf, InCall, InTransaction
  <2> QED
    BY <2>1, <2>2, Stutters
<1>4. ASSUME BeginImmediate(a) \/ UpdateAndRead(a)
      PROVE  UNCHANGED Register!vars
  <2>1. OneMoves(a) /\ UNCHANGED <<authority, request>>
    BY <1>4 DEF IInv, TypeOK, OneMoves, BeginImmediate, UpdateAndRead
  <2>2. pc[a] \in {"called", "begun"} /\ pc'[a] \in {"begun", "updated"}
    BY <1>4 DEF IInv, TypeOK, BeginImmediate, UpdateAndRead
  <2>3. /\ StatusOf(a)' = StatusOf(a) /\ VerdictOf(a)' = VerdictOf(a)
        /\ RequestOf(a)' = RequestOf(a)
    BY <2>1, <2>2 DEF StatusOf, VerdictOf, RequestOf, Pending, InCall, InTransaction
  <2> QED
    BY <2>1, <2>3, Stutters
<1>5. ASSUME Commit(a)
      PROVE  Register!Next
  <2>1. OneMoves(a)
    BY <1>5 DEF IInv, TypeOK, OneMoves, Commit
  <2> QED
    BY <1>5, <2>1, CommitDecides DEF Register!Next
<1>6. ASSUME WriteUnconditionally(a)
      PROVE  Register!Next
  <2>1. OneMoves(a)
    BY <1>6 DEF IInv, TypeOK, OneMoves, WriteUnconditionally
  <2> QED
    BY <1>6, <2>1, WriteAccepts DEF Register!Next
<1>7. ASSUME Return(a) \/ ReadBack(a) \/ BusyTimeout(a) \/ Fail(a) \/ Crash(a)
      PROVE  Register!Next \/ UNCHANGED Register!vars
  <2>1. OneMoves(a) /\ UNCHANGED authority
    BY <1>7 DEF IInv, TypeOK, OneMoves, Return, ReadBack, BusyTimeout, Fail, Crash
  <2>2. pc'[a] \in {"closed", "open"}
    BY <1>7 DEF IInv, TypeOK, Return, ReadBack, BusyTimeout, Fail, Crash
  <2>3. CASE pc[a] \in InCall
    BY <2>1, <2>2, <2>3, Finishes DEF Register!Next, InCall, InTransaction
  <2>4. CASE pc[a] \notin InCall
    <3>1. /\ StatusOf(a)' = StatusOf(a) /\ VerdictOf(a)' = VerdictOf(a)
          /\ RequestOf(a)' = RequestOf(a)
      BY <2>2, <2>4 DEF StatusOf, VerdictOf, RequestOf, InCall, InTransaction
    <3> QED
      BY <2>1, <3>1, Stutters
  <2> QED
    BY <2>3, <2>4
<1> QED
  BY <1>1, <1>2, <1>3, <1>4, <1>5, <1>6, <1>7 DEF Open, Calls, Step

\* The calls of the store are those of the atomic register: none is decided twice
\* or by halves, and the row advances by one generation with each accepted call.
THEOREM StoreImplementsRegister == Spec => ImplementsRegister
<1>1. Init => Register!Init
  BY DEF Init, Register!Init, InitialRow, NoRequest, InCall, InTransaction
<1>2. IInv /\ [Next]_vars => [Register!Next]_(Register!vars)
  <2> SUFFICES ASSUME IInv, [Next]_vars PROVE Register!Next \/ UNCHANGED Register!vars
    OBVIOUS
  <2>1. CASE UNCHANGED vars
    BY <2>1 DEF vars, Register!vars, DecisionOf, Pending
  <2>2. CASE Next
    BY <2>2, StepRefines DEF Next
  <2> QED
    BY <2>1, <2>2
<1> QED
  BY <1>1, <1>2, SpecIInv, PTL DEF Spec, ImplementsRegister, Register!Spec
-----------------------------------------------------------------------------
(* The competition *)

Stage == {"start", "waiting", "released", "calling", "done", "raised"}

Kind == IF protected THEN "promote" ELSE "naive_promote"

\* The only call of a thread: it has observed candidate@0.
Asked(a) == [kind |-> Kind, transition_id |-> TransitionOf(a), target_state |-> TargetOf(a),
             observed |-> InitialRow]

\* A thread is in the store while it calls only, and has seen nothing but the first row.
ThreadInv ==
  /\ protected \in BOOLEAN /\ stage \in [Actors -> Stage]
  /\ \A a \in Actors :
       /\ pc[a] \notin {"closed", "created"}
       /\ stage[a] # "calling" => pc[a] = "open"
       /\ observed[a] \in {NoSnapshot, InitialRow}
       /\ stage[a] \in {"waiting", "released", "calling"} => observed[a] = InitialRow
       /\ stage[a] \in {"start", "waiting", "released"} => result[a] = NoResult
       /\ pc[a] # "open" => request[a] = Asked(a)

\* Once the barrier is passed nobody is before it, and before that nothing is written.
BarrierInv ==
  /\ \A a, b \in Actors :
       stage[a] \in {"released", "calling", "done"} => stage[b] \notin {"start", "waiting"}
  /\ \A a \in Actors : stage[a] \in {"start", "waiting"} => log = <<>>

\* What a call has found out and what it answers.
AnswerOf(a) ==
  /\ pc[a] \in {"updated", "committed"} /\ local[a].rowcount = 0 => local[a].row.generation # 0
  /\ stage[a] \in {"calling", "done"} /\ pc[a] = "open" =>
       /\ result[a].decision \in {"applied", "stale-generation", "lost"}
       /\ result[a].decision = "stale-generation" => protected
       /\ result[a].decision # "lost" => request[a] = Asked(a)
  /\ stage[a] = "done" => result[a].decision # "lost"
  /\ stage[a] = "raised" => result[a].decision \in {"none", "lost"}

AnswerInv == \A a \in Actors : AnswerOf(a)

\* The threads whose change was accepted: as many as there are generations, and
\* the last of them is named in the row.
Wrote(a) == \E g \in DOMAIN log : log[g].row.last_actor = a

Writers == {a \in Actors : Wrote(a)}

WriterInv ==
  /\ Cardinality(Writers) = Len(log)
  /\ Accepted = Writers
  /\ protected => Len(log) <= 1
  /\ log # <<>> => /\ authority.last_actor \in Writers
                   /\ authority.last_transition = TransitionOf(authority.last_actor)

\* What a thread is told or finds out is whether it is one of them.  Only a raised call of
\* naive_promote is not told.
WroteAs(a) ==
  /\ pc[a] \in {"called", "begun", "updated"} => ~Wrote(a)
  /\ pc[a] = "written" => Wrote(a) /\ ~protected
  /\ pc[a] = "committed" => (Wrote(a) <=> local[a].rowcount = 1)
  /\ pc[a] = "open" => \/ Wrote(a) <=> result[a].decision = "applied"
                       \/ ~protected /\ result[a].decision = "lost"

WroteInv == \A a \in Actors : WroteAs(a)

CompetitionInv ==
  IInv /\ NaiveInv /\ ThreadInv /\ BarrierInv /\ AnswerInv /\ WriterInv /\ WroteInv

\* The caller does not return, by whatever way, before both threads have ended.
CallerInv == caller \in {"told", "raised"} => Ended
-----------------------------------------------------------------------------
LEMMA SameWriters ==
  ASSUME WriterInv, UNCHANGED <<authority, log, protected>>
  PROVE  WriterInv' /\ \A b \in Actors : Wrote(b)' <=> Wrote(b)
<1>1. \A b \in Actors : Wrote(b)' <=> Wrote(b)
  BY DEF Wrote
<1>2. Writers' = Writers /\ Accepted' = Accepted
  BY <1>1 DEF Writers, Accepted
<1> QED
  BY <1>1, <1>2 DEF WriterInv

LEMMA OneMoreWriter ==
  ASSUME CompetitionInv, NEW a \in Actors, request[a] \in Request, ~Wrote(a), Record(a, NewRow(a))
  PROVE  /\ Len(log') = Len(log) + 1
         /\ Cardinality(Writers') = Cardinality(Writers) + 1 /\ Accepted' = Writers'
         /\ Wrote(a)' /\ \A b \in Actors \ {a} : Wrote(b)' <=> Wrote(b)
<1>1. IsFiniteSet(Writers)
  BY CompetitorsAssumption, FS_Subset DEF Writers
<1>2. PICK e \in Entry : log' = Append(log, e) /\ e.row = NewRow(a)
  BY Pieces DEF Record, Request, Entry, CompetitionInv
<1>3. log \in Seq(Entry) /\ NewRow(a).last_actor = a
  BY DEF CompetitionInv, IInv, TypeOK, NewRow
<1>4. Len(log') = Len(log) + 1
  BY <1>2, <1>3, LogAppended
<1>5. Wrote(a)' /\ \A b \in Actors \ {a} : Wrote(b)' <=> Wrote(b)
  BY <1>2, <1>3, LogAppended DEF Wrote
<1>6. Writers' = Writers \cup {a} /\ a \notin Writers
  BY <1>5 DEF Writers
<1>7. Accepted' = Accepted \cup {a}
  BY <1>2, <1>3, LogAppended DEF Accepted
<1> QED
  BY <1>1, <1>4, <1>5, <1>6, <1>7, FS_AddElement DEF CompetitionInv, WriterInv

LEMMA AskedTyped ==
  ASSUME NEW a \in Actors
  PROVE  /\ Asked(a) \in Request /\ Asked(a).kind = Kind /\ Asked(a).observed = InitialRow
         /\ Asked(a).transition_id = TransitionOf(a)
         /\ Kind \in Fenced <=> protected
         /\ Kind = "promote" <=> protected
BY Constants, CompetitorsAssumption
DEF Asked, Kind, Request, Fenced, Unconditional, Terminal, PromotionState

\* A step of a's call changes nothing of the other threads.
Alone(a) ==
  /\ \A b \in Actors \ {a} : /\ pc'[b] = pc[b] /\ local'[b] = local[b] /\ request'[b] = request[b]
                             /\ result'[b] = result[b] /\ observed'[b] = observed[b]
  /\ UNCHANGED <<protected, stage, broken, caller>>

LEMMA CallsKeepThreads ==
  ASSUME CompetitionInv, NEW a \in Actors, stage[a] = "calling", Alone(a),
         pc'[a] \notin {"closed", "created"}, observed'[a] = observed[a],
         pc'[a] # "open" => pc[a] # "open" /\ request'[a] = request[a]
  PROVE  ThreadInv' /\ BarrierInv'
<1>1. ThreadInv'
  BY DEF CompetitionInv, ThreadInv, Alone, Asked, Kind
<1>2. BarrierInv'
  BY DEF CompetitionInv, BarrierInv, Alone
<1> QED
  BY <1>1, <1>2

LEMMA CallsKeepAnswers ==
  ASSUME CompetitionInv, NEW a \in Actors, Alone(a), AnswerOf(a)'
  PROVE  AnswerInv'
BY DEF CompetitionInv, AnswerInv, AnswerOf, Alone, Asked, Kind

LEMMA CallsKeepWrote ==
  ASSUME CompetitionInv, NEW a \in Actors, Alone(a), WroteAs(a)',
         \A b \in Actors \ {a} : Wrote(b)' <=> Wrote(b)
  PROVE  WroteInv'
BY DEF CompetitionInv, WroteInv, WroteAs, Alone

LEMMA QuietCallsKeep ==
  ASSUME CompetitionInv, NEW a \in Actors, stage[a] = "calling", Alone(a), IInv', NaiveInv',
         UNCHANGED <<authority, log>>,
         pc'[a] \notin {"closed", "created"}, observed'[a] = observed[a],
         pc'[a] # "open" => pc[a] # "open" /\ request'[a] = request[a],
         AnswerOf(a)', (Wrote(a)' <=> Wrote(a)) => WroteAs(a)'
  PROVE  CompetitionInv'
<1>1. WriterInv' /\ \A b \in Actors : Wrote(b)' <=> Wrote(b)
  BY SameWriters DEF CompetitionInv, Alone
<1> QED
  BY <1>1, CallsKeepThreads, CallsKeepAnswers, CallsKeepWrote DEF CompetitionInv

\* What the store keeps it keeps whichever thread is in it.
LEMMA InStoreKeepsStore ==
  ASSUME CompetitionInv, NEW a \in Actors, Snapshot(a) \/ Step(a) \/ Fail(a)
  PROVE  IInv' /\ NaiveInv'
BY StepKeepsNaive, SnapshotKeepsIInv, FailKeepsIInv, BeginImmediateKeepsIInv, BusyTimeoutKeepsIInv,
   UpdateAndReadKeepsIInv, CommitKeepsIInv, ReturnKeepsIInv, WriteKeepsIInv, ReadBackKeepsIInv
DEF CompetitionInv, Step

\* What is known of the thread that is in the store.
LEMMA Calling ==
  ASSUME CompetitionInv, NEW a \in Actors, stage[a] = "calling", pc[a] # "open"
  PROVE  /\ request[a] = Asked(a) /\ request[a] \in Request
         /\ request[a].kind \in Fenced => protected /\ request[a].kind = "promote"
         /\ request[a].kind \in Unconditional => ~protected /\ request[a].kind = "naive_promote"
         /\ pc[a] \in InTransaction \cup {"committed"} => request[a].kind \in Fenced
         /\ request[a].observed = InitialRow /\ request[a].transition_id = TransitionOf(a)
<1>1. request[a] = Asked(a)
  BY DEF CompetitionInv, ThreadInv
<1>2. pc[a] \in InTransaction \cup {"committed"} => request[a].kind \in Fenced
  BY DEF CompetitionInv, IInv, CallInv, InTransaction
<1>3. /\ Kind \in Fenced => protected /\ Kind = "promote"
      /\ Kind \in Unconditional => ~protected /\ Kind = "naive_promote"
  BY DEF Kind, Fenced, Unconditional
<1> QED
  BY <1>1, <1>2, <1>3, AskedTyped

LEMMA BeginKeeps ==
  ASSUME CompetitionInv, NEW a \in Actors, InStore(a), BeginImmediate(a)
  PROVE  CompetitionInv'
<1>1. /\ stage[a] = "calling" /\ pc[a] = "called" /\ pc'[a] = "begun" /\ Alone(a)
      /\ UNCHANGED <<authority, log, observed, request>>
  BY DEF InStore, BeginImmediate, Goto, Alone, CompetitionInv, IInv, TypeOK, database
<1>2. AnswerOf(a)'
  BY <1>1 DEF AnswerOf, Alone
<1> QED
  BY <1>1, <1>2, InStoreKeepsStore, QuietCallsKeep DEF CompetitionInv, WroteInv, WroteAs, InStore

LEMMA UpdateKeeps ==
  ASSUME CompetitionInv, NEW a \in Actors, InStore(a), UpdateAndRead(a)
  PROVE  CompetitionInv'
<1>1. /\ stage[a] = "calling" /\ pc[a] = "begun" /\ pc'[a] = "updated" /\ Alone(a)
      /\ UNCHANGED <<authority, log, observed, request>>
  BY DEF InStore, UpdateAndRead, Goto, Alone, CompetitionInv, IInv, TypeOK, database
<1>2. local'[a].rowcount = 0 => local'[a].row.generation # 0
  <2> SUFFICES ASSUME ~Matches(a), authority.generation = 0 PROVE FALSE
    BY DEF UpdateAndRead, CompetitionInv, IInv, TypeOK
  <2>1. authority = InitialRow
    BY DEF CompetitionInv, IInv, TypeOK, LogInv, RowAt
  <2> QED
    BY <1>1, <2>1, Calling DEF Matches
<1>3. AnswerOf(a)'
  BY <1>1, <1>2 DEF AnswerOf, Alone
<1> QED
  BY <1>1, <1>3, InStoreKeepsStore, QuietCallsKeep DEF CompetitionInv, WroteInv, WroteAs, InStore

LEMMA ReturnKeeps ==
  ASSUME CompetitionInv, NEW a \in Actors, InStore(a), Return(a)
  PROVE  CompetitionInv'
<1>1. /\ stage[a] = "calling" /\ pc[a] = "committed" /\ pc'[a] = "open" /\ Alone(a)
      /\ result'[a].decision = DecisionOf(a)
      /\ UNCHANGED <<authority, log, observed, request>>
  BY DEF InStore, Return, Leave, Goto, Alone, CompetitionInv, IInv, TypeOK, database
<1>2. /\ request[a] = Asked(a) /\ request[a].kind = "promote"
      /\ protected /\ request[a].observed = InitialRow
  BY <1>1, Calling
<1>3. local[a].rowcount \in {0, 1}
  BY DEF CompetitionInv, IInv, TypeOK
<1>4. /\ local[a].rowcount = 1 => DecisionOf(a) = "applied"
      /\ local[a].rowcount = 0 => DecisionOf(a) = "stale-generation"
  <2>1. local[a].rowcount = 0 => local[a].row.generation # 0
    BY <1>1 DEF CompetitionInv, AnswerInv, AnswerOf
  <2> QED
    BY <1>2, <2>1 DEF DecisionOf, InitialRow
<1>5. AnswerOf(a)'
  BY <1>1, <1>2, <1>3, <1>4 DEF AnswerOf, Alone, Asked, Kind
<1>6. (Wrote(a)' <=> Wrote(a)) => WroteAs(a)'
  BY <1>1, <1>3, <1>4 DEF CompetitionInv, WroteInv, WroteAs
<1> QED
  BY <1>1, <1>5, <1>6, InStoreKeepsStore, QuietCallsKeep DEF InStore

LEMMA ReadBackKeeps ==
  ASSUME CompetitionInv, NEW a \in Actors, InStore(a), ReadBack(a)
  PROVE  CompetitionInv'
<1>1. /\ stage[a] = "calling" /\ pc[a] = "written" /\ pc'[a] = "open" /\ Alone(a)
      /\ UNCHANGED <<authority, log, request>>
  BY DEF InStore, ReadBack, Goto, Alone, CompetitionInv, IInv, TypeOK, database
<1>2. request[a] = Asked(a) /\ request[a].kind = "naive_promote"
  <2>1. request[a].kind \notin Fenced
    BY <1>1, AskedTyped, Calling DEF CompetitionInv, IInv, ReadBack, Fenced
  <2> QED
    BY <1>1, <2>1, Calling DEF Request
<1>3. result'[a].decision = "applied" /\ observed'[a] = observed[a]
  BY <1>2 DEF ReadBack, CompetitionInv, IInv, TypeOK
<1>4. AnswerOf(a)'
  BY <1>1, <1>2, <1>3 DEF AnswerOf, Alone, Asked, Kind
<1>5. (Wrote(a)' <=> Wrote(a)) => WroteAs(a)'
  BY <1>1, <1>3 DEF CompetitionInv, WroteInv, WroteAs
<1> QED
  BY <1>1, <1>3, <1>4, <1>5, InStoreKeepsStore, QuietCallsKeep DEF InStore

\* The call raises: its thread is told nothing, and has written only if it is unfenced.
LEMMA RaisedCallsKeep ==
  ASSUME CompetitionInv, NEW a \in Actors, stage[a] = "calling", Alone(a), IInv', NaiveInv',
         UNCHANGED <<authority, log, observed>>,
         pc[a] \in {"called", "written"} \cup InTransaction, pc'[a] = "open",
         result'[a].decision = "lost"
  PROVE  CompetitionInv'
<1>1. AnswerOf(a)'
  BY DEF AnswerOf, Alone
<1>2. (Wrote(a)' <=> Wrote(a)) => WroteAs(a)'
  BY DEF CompetitionInv, WroteInv, WroteAs, InTransaction, Alone
<1> QED
  BY <1>1, <1>2, QuietCallsKeep

LEMMA BusyTimeoutKeeps ==
  ASSUME CompetitionInv, NEW a \in Actors, InStore(a), BusyTimeout(a)
  PROVE  CompetitionInv'
<1>1. pc[a] # "created"
  BY DEF CompetitionInv, ThreadInv
<1>2. /\ stage[a] = "calling" /\ pc[a] = "called" /\ pc'[a] = "open" /\ Alone(a)
      /\ result'[a].decision = "lost" /\ UNCHANGED <<authority, log, observed>>
  BY <1>1 DEF InStore, BusyTimeout, Raise, Goto, Alone, CompetitionInv, IInv, TypeOK, database,
     NoResult
<1> QED
  BY <1>2, InStoreKeepsStore, RaisedCallsKeep DEF InStore

LEMMA FailKeeps ==
  ASSUME CompetitionInv, NEW a \in Actors, StatementFails(a)
  PROVE  CompetitionInv'
<1>1. /\ stage[a] = "calling" /\ pc[a] \in {"called", "written"} \cup InTransaction
      /\ pc'[a] = "open" /\ Alone(a)
      /\ result'[a].decision = "lost" /\ UNCHANGED <<authority, log, observed>>
  BY DEF StatementFails, Fail, Raise, Raising, Leave, Goto, Alone, CompetitionInv, IInv, TypeOK,
     database, NoResult, InCall
<1> QED
  BY <1>1, InStoreKeepsStore, RaisedCallsKeep DEF StatementFails

\* A change of the row is a's, the first one if calls are fenced.
LEMMA AcceptedCallsKeep ==
  ASSUME CompetitionInv, NEW a \in Actors, stage[a] = "calling", Alone(a), IInv', NaiveInv',
         UNCHANGED <<observed, request>>, pc[a] # "open",
         Record(a, NewRow(a)), protected => Len(log) = 0,
         authority' = NewRow(a), ~Wrote(a), AnswerOf(a)',
         pc'[a] \notin {"closed", "created", "open"}, Wrote(a)' => WroteAs(a)'
  PROVE  CompetitionInv'
<1>0. request[a] \in Request
  BY Calling
<1>1. /\ \A b \in Actors \ {a} : Wrote(b)' <=> Wrote(b)
      /\ Wrote(a)' /\ Len(log') = Len(log) + 1
  BY <1>0, OneMoreWriter
<1>2. Cardinality(Writers') = Len(log') /\ Accepted' = Writers'
  BY <1>0, OneMoreWriter DEF CompetitionInv, WriterInv
<1>3. authority'.last_actor = a /\ authority'.last_transition = TransitionOf(a)
  BY Calling DEF NewRow
<1>4. a \in Writers'
  BY <1>1 DEF Writers
<1>5. protected' => Len(log') <= 1
  BY <1>1 DEF Alone
<1>6. WriterInv'
  BY <1>2, <1>3, <1>4, <1>5 DEF WriterInv
<1> QED
  BY <1>1, <1>6, CallsKeepThreads, CallsKeepAnswers, CallsKeepWrote DEF CompetitionInv

LEMMA CommitKeeps ==
  ASSUME CompetitionInv, NEW a \in Actors, InStore(a), Commit(a)
  PROVE  CompetitionInv'
<1>1. /\ stage[a] = "calling" /\ pc[a] = "updated" /\ pc'[a] = "committed" /\ Alone(a)
      /\ authority' = local[a].row /\ UNCHANGED <<observed, request, local, result>>
  BY DEF InStore, Commit, Goto, Alone, CompetitionInv, IInv, TypeOK
<1>2. AnswerOf(a)'
  BY <1>1 DEF CompetitionInv, AnswerInv, AnswerOf, Alone
<1>3. IInv' /\ NaiveInv'
  BY InStoreKeepsStore DEF Step
<1>4. CASE local[a].rowcount = 0
  <2>1. UNCHANGED <<authority, log>>
    BY <1>1, <1>4 DEF Commit, CompetitionInv, IInv, LocalInv
  <2>2. (Wrote(a)' <=> Wrote(a)) => WroteAs(a)'
    BY <1>1, <1>4 DEF CompetitionInv, WroteInv, WroteAs
  <2> QED
    BY <1>1, <1>2, <1>3, <2>1, <2>2, QuietCallsKeep
<1>5. CASE local[a].rowcount = 1
  <2>1. Matches(a) /\ authority' = NewRow(a)
    BY <1>1, <1>5 DEF CompetitionInv, IInv, LocalInv
  <2>2. protected => Len(log) = 0
    <3>1. protected /\ request[a].kind = "promote" /\ request[a].observed = InitialRow
      BY <1>1, Calling DEF InTransaction
    <3> QED
      BY <2>1, <3>1 DEF Matches, InitialRow, CompetitionInv, IInv, TypeOK
  <2>3. Record(a, NewRow(a))
    BY <1>5, <2>1 DEF Commit, CompetitionInv, IInv, LocalInv
  <2>4. ~Wrote(a) /\ (Wrote(a)' => WroteAs(a)')
    BY <1>1, <1>5 DEF CompetitionInv, WroteInv, WroteAs
  <2> QED
    BY <1>1, <1>2, <1>3, <2>1, <2>2, <2>3, <2>4, AcceptedCallsKeep
<1> QED
  BY <1>4, <1>5 DEF CompetitionInv, IInv, TypeOK

LEMMA WriteKeeps ==
  ASSUME CompetitionInv, NEW a \in Actors, InStore(a), WriteUnconditionally(a)
  PROVE  CompetitionInv'
<1>1. /\ stage[a] = "calling" /\ pc[a] = "called" /\ pc'[a] = "written" /\ Alone(a)
      /\ authority' = NewRow(a) /\ UNCHANGED <<observed, request, local, result>>
  BY DEF InStore, WriteUnconditionally, Goto, Alone, CompetitionInv, IInv, TypeOK
<1>2. ~protected
  BY <1>1, Calling DEF WriteUnconditionally
<1>3. Record(a, NewRow(a))
  BY DEF WriteUnconditionally
<1>4. ~Wrote(a) /\ (Wrote(a)' => WroteAs(a)') /\ AnswerOf(a)'
  BY <1>1, <1>2 DEF CompetitionInv, WroteInv, WroteAs, AnswerOf, Alone
<1>5. IInv' /\ NaiveInv'
  BY InStoreKeepsStore DEF Step
<1> QED
  BY <1>1, <1>2, <1>3, <1>4, <1>5, AcceptedCallsKeep
-----------------------------------------------------------------------------
\* A thread enters the store with the first row, which it observed.
LEMMA PromoteKeeps ==
  ASSUME CompetitionInv, NEW a \in Actors, Promote(a)
  PROVE  CompetitionInv'
<1>1. /\ stage[a] = "released" /\ observed[a] = InitialRow /\ result[a] = NoResult
      /\ Kind \in Fenced \cup Unconditional
      /\ Call(a, Kind, TransitionOf(a), TargetOf(a))
  BY DEF Promote, CompetitionInv, ThreadInv, Kind, Fenced, Unconditional
<1>2. /\ pc[a] = "open" /\ pc'[a] = "called" /\ request'[a] = Asked(a) /\ result'[a] = NoResult
      /\ \A b \in Actors \ {a} : /\ pc'[b] = pc[b] /\ request'[b] = request[b]
                                 /\ result'[b] = result[b] /\ stage'[b] = stage[b]
      /\ stage'[a] = "calling" /\ stage' \in [Actors -> Stage]
      /\ UNCHANGED <<authority, log, observed, local, protected>>
  BY <1>1, Constants
  DEF Promote, Call, Goto, Enter, Asked, Kind, database, CompetitionInv, ThreadInv, IInv,
      TypeOK, Stage
<1>3. IInv' /\ NaiveInv'
  BY <1>1, CallKeepsIInv, StepKeepsNaive, CompetitorsAssumption
  DEF CompetitionInv, Terminal, PromotionState
<1>4. ThreadInv'
  BY <1>1, <1>2 DEF CompetitionInv, ThreadInv, Asked, Kind
<1>5. BarrierInv'
  BY <1>1, <1>2 DEF CompetitionInv, BarrierInv
<1>6. AnswerInv'
  BY <1>2 DEF CompetitionInv, AnswerInv, AnswerOf, Asked, Kind
<1>7. WriterInv' /\ WroteInv'
  BY <1>1, <1>2, SameWriters, Constants DEF CompetitionInv, WroteInv, WroteAs
<1> QED
  BY <1>3, <1>4, <1>5, <1>6, <1>7 DEF CompetitionInv

\* Before the barrier a snapshot is of the first row: nothing is written yet.
LEMMA ObserveKeeps ==
  ASSUME CompetitionInv, NEW a \in Actors, Observe(a)
  PROVE  CompetitionInv'
<1>1. /\ stage[a] = "start" /\ log = <<>> /\ authority = InitialRow
      /\ observed' = [observed EXCEPT ![a] = InitialRow]
      /\ stage' = [stage EXCEPT ![a] = "waiting"]
      /\ UNCHANGED <<authority, log, pc, request, local, result, protected>>
  BY DEF Observe, Snapshot, Enter, database, CompetitionInv, BarrierInv, IInv, LogInv, RowAt
<1>2. IInv' /\ NaiveInv'
  BY InStoreKeepsStore DEF Observe
<1>3. ThreadInv'
  BY <1>1 DEF CompetitionInv, ThreadInv, IInv, TypeOK, Stage, Asked, Kind
<1>4. BarrierInv'
  BY <1>1 DEF CompetitionInv, BarrierInv, ThreadInv
<1>5. AnswerInv'
  BY <1>1 DEF CompetitionInv, ThreadInv, AnswerInv, AnswerOf, Asked, Kind
<1>6. WriterInv' /\ WroteInv'
  BY <1>1, SameWriters DEF CompetitionInv, WroteInv, WroteAs
<1> QED
  BY <1>2, <1>3, <1>4, <1>5, <1>6 DEF CompetitionInv

\* The steps of the threads outside the store.
LEMMA OutsideKeeps ==
  ASSUME CompetitionInv, UNCHANGED <<vars, protected>>, stage' \in [Actors -> Stage],
         \A a \in Actors :
           \/ stage'[a] = stage[a]
           \/ stage'[a] = "raised" /\ stage[a] \in {"start", "waiting"}
           \/ /\ stage'[a] = "released"
              /\ \A b \in Actors : stage[b] = "waiting" /\ stage'[b] = "released"
           \/ /\ stage[a] = "calling" /\ pc[a] = "open"
              /\ stage'[a] = IF result[a].decision = "lost" THEN "raised" ELSE "done"
  PROVE  CompetitionInv'
<1>1. UNCHANGED <<table, authority, log, writer, pc, observed, request, local, result, protected>>
  BY DEF vars
<1>2. IInv' /\ NaiveInv'
  BY NextKeepsIInv, NextKeepsNaive DEF CompetitionInv
<1>3. ThreadInv'
  BY <1>1 DEF CompetitionInv, ThreadInv, Asked, Kind, Stage
<1>4. BarrierInv'
  BY <1>1 DEF CompetitionInv, BarrierInv
<1>5. AnswerInv'
  BY <1>1, Constants DEF CompetitionInv, ThreadInv, AnswerInv, AnswerOf, Asked, Kind
<1>6. WriterInv' /\ WroteInv'
  BY <1>1, SameWriters DEF CompetitionInv, WroteInv, WroteAs
<1> QED
  BY <1>2, <1>3, <1>4, <1>5, <1>6 DEF CompetitionInv

LEMMA NextKeepsCompetition ==
  ASSUME CompetitionInv, [CNext]_cvars
  PROVE  CompetitionInv'
<1>0. stage \in [Actors -> Stage]
  BY DEF CompetitionInv, ThreadInv
<1>1. CASE UNCHANGED cvars
  BY <1>0, <1>1, OutsideKeeps DEF cvars
<1>2. CASE PassBarrier
  BY <1>0, <1>2, OutsideKeeps DEF PassBarrier, Stage
<1>3. ASSUME NEW a \in Actors, SnapshotFails(a) \/ BarrierTimeout(a) \/ EndCall(a)
      PROVE  CompetitionInv'
  <2>1. UNCHANGED <<vars, protected>>
    BY <1>3 DEF SnapshotFails, BarrierTimeout, EndCall
  <2>2. stage' \in [Actors -> Stage]
    BY <1>0, <1>3 DEF SnapshotFails, BarrierTimeout, EndCall, Enter, Stage
  <2>3. /\ \A b \in Actors \ {a} : stage'[b] = stage[b]
        /\ \/ stage'[a] = "raised" /\ stage[a] \in {"start", "waiting"}
           \/ /\ stage[a] = "calling" /\ pc[a] = "open"
              /\ stage'[a] = IF result[a].decision = "lost" THEN "raised" ELSE "done"
    BY <1>0, <1>3 DEF SnapshotFails, BarrierTimeout, EndCall, Enter
  <2> QED
    BY <2>1, <2>2, <2>3, OutsideKeeps
<1>4. ASSUME NEW a \in Actors, InStore(a) PROVE CompetitionInv'
  BY <1>4, BeginKeeps, BusyTimeoutKeeps, UpdateKeeps, CommitKeeps, ReturnKeeps, WriteKeeps,
     ReadBackKeeps DEF InStore, Step
<1>5. CASE Caller
  BY <1>0, <1>5, OutsideKeeps DEF Caller, ReceiveResults, ResultRaises, ExecutorExits
<1> QED
  BY <1>1, <1>2, <1>3, <1>4, <1>5, ObserveKeeps, PromoteKeeps, FailKeeps DEF CNext, Thread

\* Threads that have ended stay so, and the caller waits for them.
LEMMA NextKeepsCaller ==
  ASSUME CompetitionInv, CallerInv, [CNext]_cvars
  PROVE  CallerInv'
<1>1. stage \in [Actors -> Stage] /\ \E a \in Actors : TRUE
  BY CompetitorsAssumption, FS_EmptySet DEF CompetitionInv, ThreadInv
<1>2. CASE UNCHANGED stage
  BY <1>2 DEF CallerInv, Ended, BothDone, CNext, cvars, Caller, ReceiveResults, ResultRaises,
     ExecutorExits, PassBarrier, Thread, Observe, SnapshotFails, BarrierTimeout, Promote, InStore,
     StatementFails, EndCall
<1>3. CASE PassBarrier
  BY <1>1, <1>3 DEF CallerInv, Ended, PassBarrier
<1>4. ASSUME NEW a \in Actors, stage[a] \notin {"done", "raised"}, UNCHANGED caller PROVE CallerInv'
  BY <1>4 DEF CallerInv, Ended
<1> QED
  BY <1>2, <1>3, <1>4 DEF CNext, cvars, Caller, ReceiveResults, ResultRaises, ExecutorExits,
     Thread, Observe, SnapshotFails, BarrierTimeout, Promote, InStore, StatementFails, EndCall

LEMMA InitCompetition == CInit => CompetitionInv
<1> SUFFICES ASSUME CInit PROVE CompetitionInv
  OBVIOUS
<1>1. TypeOK
  BY Constants DEF CInit, TypeOK, PC, InTransaction, InitialRow
<1>2. LogInv /\ CallInv /\ OpenedStoreHasRow /\ FencedAppliesToObservedVersion
  BY DEF CInit, NoRequest, Fenced, LogInv, CallInv, OpenedStoreHasRow, InCall, InTransaction, RowAt,
     FencedAppliesToObservedVersion
<1>3. SeenInv /\ LocalInv /\ ToldInv /\ NaiveInv
  BY Constants DEF CInit, SeenInv, LocalInv, ToldInv, NaiveInv, NaiveOf
<1>4. ThreadInv /\ BarrierInv /\ AnswerInv
  BY DEF CInit, ThreadInv, BarrierInv, AnswerInv, AnswerOf, Stage
<1>5. WriterInv /\ WroteInv
  <2>1. Writers = {} /\ Accepted = {} /\ \A a \in Actors : ~Wrote(a)
    BY DEF CInit, Writers, Wrote, Accepted
  <2> QED
    BY <2>1, FS_EmptySet, Constants DEF CInit, WriterInv, WroteInv, WroteAs
<1> QED
  BY <1>1, <1>2, <1>3, <1>4, <1>5 DEF CompetitionInv, IInv

LEMMA SpecCompetition == CSpec => [](CompetitionInv /\ CallerInv)
<1>1. CInit => CallerInv
  BY DEF CInit, CallerInv
<1> QED
  BY <1>1, InitCompetition, NextKeepsCompetition, NextKeepsCaller, PTL DEF CSpec
-----------------------------------------------------------------------------
\* No thread observes the other's promotion.
THEOREM CompetitionObservations == CSpec => []ObservationsAgree
<1>1. CompetitionInv => ObservationsAgree
  BY DEF CompetitionInv, ThreadInv, ObservationsAgree
<1> QED
  BY <1>1, SpecCompetition, PTL

\* What the store keeps for any users it keeps for the two threads that compete.
THEOREM CompetitionKeepsStore ==
  CSpec => [](FencedAppliesToObservedVersion /\ OpenedStoreHasRow /\ AnswersMatchHistory)
<1>1. CompetitionInv => FencedAppliesToObservedVersion /\ OpenedStoreHasRow
  BY DEF CompetitionInv, IInv
<1>2. CompetitionInv => AnswersMatchHistory
  BY AnswersMatch DEF CompetitionInv
<1> QED
  BY <1>1, <1>2, SpecCompetition, PTL

\* Who was told the call was applied wrote the row, and who was not did not.
LEMMA Answers ==
  ASSUME CompetitionInv
  PROVE  /\ \A a \in Told("applied") : Wrote(a)
         /\ \A a \in Told("stale-generation") :
              ~Wrote(a) /\ protected /\ request[a] = Asked(a) /\ pc[a] = "open"
         /\ \A a \in Actors : stage[a] = "done" =>
              \/ a \in Told("applied")
              \/ protected /\ a \in Told("stale-generation")
BY DEF CompetitionInv, ThreadInv, AnswerInv, AnswerOf, WroteInv, WroteAs, Told

\* With the fence, the row in the store is the one each answer names.
LEMMA FencedAnswers ==
  ASSUME CompetitionInv, protected, NEW a \in Actors, stage[a] = "done",
         result[a].decision \in {"applied", "stale-generation"}
  PROVE  Len(log) = 1 /\ authority = result[a].authoritative
<1>1. request[a].kind = "promote" /\ request[a].observed = InitialRow /\ pc[a] = "open"
  BY AskedTyped DEF CompetitionInv, ThreadInv, AnswerInv, AnswerOf
<1>2. Truthful(a, result[a].decision, result[a].authoritative)
  BY <1>1 DEF CompetitionInv, IInv, ToldInv
<1>3. authority = RowAt(Len(log)) /\ result[a].authoritative \in Row
  BY DEF CompetitionInv, IInv, TypeOK, LogInv, Result
<1>4. Len(log) \in {0, 1} /\ result[a].authoritative.generation \in Nat
  BY <1>3 DEF CompetitionInv, WriterInv, IInv, TypeOK, Row
<1>5. CASE result[a].decision = "applied"
  <2>1. Len(log) > 0 /\ result[a].authoritative = RowAt(1)
    BY <1>1, <1>2, <1>3, <1>5 DEF Truthful, InitialRow
  <2>2. Len(log) = 1
    BY <1>4, <2>1
  <2> QED
    BY <1>3, <2>1, <2>2
<1>6. CASE result[a].decision = "stale-generation"
  <2> DEFINE g == result[a].authoritative.generation
             n == Len(log)
  <2>1. g > 0 /\ g <= Len(log) /\ result[a].authoritative = RowAt(g)
    BY <1>1, <1>2, <1>4, <1>6 DEF Truthful, Known, InitialRow
  <2>2. g \in Nat /\ n \in {0, 1} /\ g > 0 /\ g <= n
    BY <1>4, <2>1
  <2> HIDE DEF g, n
  <2>3. n = 1 /\ g = 1
    BY <2>2
  <2> QED
    BY <1>3, <2>1, <2>3 DEF n
<1> QED
  BY <1>5, <1>6

\* With the fence one of two is told that it won; without it both are.  Whoever is
\* told that it lost is told who won, and that is what the store says.  Of a call that
\* raised, only an unfenced one may have changed the row, and nothing is changed but by
\* them and by those told so, once each.
THEOREM CompetitionHasOutcome == CSpec => []CompetitionOutcome
<1>1. ASSUME CompetitionInv PROVE FencedOneWins
  <2> SUFFICES ASSUME BothDone
               PROVE  \/ /\ protected
                         /\ Cardinality(Told("applied")) = 1
                         /\ Cardinality(Told("stale-generation")) = 1
                         /\ authority.generation = 1
                         /\ \A a \in Told("applied") : authority = result[a].authoritative
                      \/ /\ ~protected
                         /\ Cardinality(Told("applied")) = 2
                         /\ authority.generation = 2
    BY DEF FencedOneWins
  <2>1. Told("applied") = Writers
    BY <1>1, Answers DEF BothDone, Told, Writers
  <2>2. IsFiniteSet(Actors) /\ Cardinality(Actors) = 2 /\ Cardinality(Writers) = Len(log)
        /\ authority.generation = Len(log)
    BY <1>1, CompetitorsAssumption DEF CompetitionInv, WriterInv, IInv, TypeOK
  <2>3. CASE protected
    <3>1. Told("stale-generation") = Actors \ Writers
      BY <1>1, <2>1, <2>3, Answers DEF BothDone, Told, Writers
    <3>2. PICK a \in Actors : TRUE
      BY <2>2, FS_EmptySet
    <3>3. Len(log) = 1
      BY <1>1, <2>3, Answers, FencedAnswers DEF BothDone, Told
    <3>4. Cardinality(Actors \ Writers) = 1
      <4>1. Actors \cap Writers = Writers
        BY DEF Writers
      <4>2. IsFiniteSet(Actors)
        BY <2>2
      <4>3. Cardinality(Actors \ Writers) = Cardinality(Actors) - Cardinality(Actors \cap Writers)
        BY ONLY <4>2, FS_Difference
      <4> QED
        BY <2>2, <3>3, <4>1, <4>3
    <3> QED
      BY <1>1, <2>1, <2>2, <2>3, <3>1, <3>3, <3>4, FencedAnswers DEF Told
  <2>4. CASE ~protected
    <3>1. Writers = Actors
      BY <1>1, <2>4, Answers DEF BothDone, Writers
    <3> QED
      BY <2>1, <2>2, <2>4, <3>1
  <2> QED
    BY <2>3, <2>4
<1>2. ASSUME CompetitionInv PROVE LoserNamesWinner
  <2> SUFFICES ASSUME protected, NEW a \in Told("stale-generation")
               PROVE  /\ result[a].authoritative.last_actor \in Actors \ {a}
                      /\ result[a].authoritative.last_transition =
                           TransitionOf(result[a].authoritative.last_actor)
                      /\ authority = result[a].authoritative
    BY DEF LoserNamesWinner
  <2>1. Len(log) = 1 /\ authority = result[a].authoritative
    BY <1>2, FencedAnswers DEF Told
  <2>2. /\ authority.last_actor \in Writers
        /\ authority.last_transition = TransitionOf(authority.last_actor)
    BY <1>2, <2>1 DEF CompetitionInv, WriterInv
  <2>3. a \notin Writers
    BY <1>2, Answers DEF Writers
  <2> QED
    BY <2>1, <2>2, <2>3 DEF Writers
<1>3. ASSUME CompetitionInv, CallerInv PROVE RaisedOutcome
  <2> SUFFICES ASSUME Ended
               PROVE  /\ Cardinality(Accepted) = authority.generation
                      /\ Told("applied") \subseteq Accepted
                      /\ Accepted \subseteq Told("applied") \cup IF protected THEN {} ELSE Raised
    BY <1>3 DEF CallerInv, RaisedOutcome
  <2>1. Cardinality(Accepted) = authority.generation /\ Accepted = Writers
    BY <1>3 DEF CompetitionInv, WriterInv, IInv, TypeOK
  <2>2. Told("applied") \subseteq Accepted
    BY <1>3, <2>1, Answers DEF Writers, Told
  <2>3. ASSUME NEW a \in Accepted, a \notin Told("applied") PROVE ~protected /\ a \in Raised
    <3>1. a \in Actors /\ Wrote(a) /\ stage[a] \in {"done", "raised"}
      BY <2>1 DEF Writers, Ended
    <3>2. pc[a] = "open" /\ WroteAs(a) /\ AnswerOf(a)
      BY <1>3, <3>1 DEF CompetitionInv, ThreadInv, WroteInv, AnswerInv
    <3> QED
      BY <2>3, <3>1, <3>2 DEF WroteAs, AnswerOf, Told, Raised
  <2> QED
    BY <2>1, <2>2, <2>3
<1> QED
  BY <1>1, <1>2, <1>3, SpecCompetition, PTL DEF CompetitionOutcome

\* What the threads do to the store are the calls of the atomic register: to those who
\* compete it is one register too, fenced or not.
THEOREM CompetitionImplementsRegister == CSpec => ImplementsRegister
<1>1. CInit => Register!Init
  BY DEF CInit, Register!Init, InitialRow, NoRequest, InCall, InTransaction
<1>2. CompetitionInv /\ [CNext]_cvars => [Register!Next]_(Register!vars)
  <2> SUFFICES ASSUME CompetitionInv, [CNext]_cvars
               PROVE  Register!Next \/ UNCHANGED Register!vars
    OBVIOUS
  <2>1. CASE UNCHANGED vars
    BY <2>1 DEF vars, Register!vars, DecisionOf, Pending
  <2>2. ASSUME NEW a \in Actors, Snapshot(a) \/ Step(a) \/ Fail(a)
        PROVE  Register!Next \/ UNCHANGED Register!vars
    BY <2>2, StepRefines DEF CompetitionInv
  <2>3. ASSUME NEW a \in Actors, Promote(a) PROVE Register!Next
    <3>1. Call(a, Kind, TransitionOf(a), TargetOf(a))
      BY <2>3 DEF Promote, Kind
    <3>2. /\ Kind \in Fenced \cup Unconditional
          /\ TransitionOf(a) \in TransitionIds /\ TargetOf(a) \in PromotionState
      BY CompetitorsAssumption DEF Kind, Fenced, Unconditional, Terminal, PromotionState
    <3>3. OneMoves(a)
      BY <3>1 DEF CompetitionInv, IInv, TypeOK, OneMoves, Call, Goto, database
    <3> QED
      BY <3>1, <3>2, <3>3, CallInvokes DEF Register!Next, CompetitionInv
  <2> QED
    BY <2>1, <2>2, <2>3 DEF CNext, Thread, Observe, InStore, EndCall, PassBarrier, BarrierTimeout,
       SnapshotFails, StatementFails, Caller, ReceiveResults, ResultRaises, ExecutorExits, cvars
<1> QED
  BY <1>1, <1>2, SpecCompetition, PTL DEF CSpec, ImplementsRegister, Register!Spec
=============================================================================
