----------------------- MODULE DispatchOverSinkProofs -----------------------
(***************************************************************************)
(* The relays' calls of the sink, statement by statement, implement        *)
(* DurableDispatch, in which each call is one step; and what is proved of  *)
(* DurableDispatch is so of the relays and the sink they really call.      *)
(***************************************************************************)
EXTENDS DispatchOverSink, DurableDispatchProofs

CallTypeOK ==
  /\ holder \in Relays \cup {NoRelay}
  /\ pc \in [Relays -> M4!PC]
  /\ operation \in [Relays -> M4!LogicalOperation]
  /\ answer \in [Relays -> M4!Result]

\* The rows r's transaction is to write.
EffectOf(r) == [operation_id |-> DispatchOf(r), fingerprint |-> relay[r].content,
                window |-> window[DispatchOf(r)]]
RecordOf(r) == [operation_id |-> DispatchOf(r), fingerprint |-> relay[r].content,
                effect_sequence |-> Len(effects) + 1]

\* A relay that waits for the sink's answer is inside apply, and submitted what it read.
Submitted(r) ==
  /\ pc[r] # "idle" <=> relay[r].pc = "read"
  /\ pc[r] # "idle" => /\ operation[r].operation_id = DispatchOf(r)
                       /\ M4!operation_fingerprint(operation[r]) = relay[r].content
                       /\ relay[r].effect = 0
  /\ pc[r] = "committed" => answer[r].decision \in {"applied", "replayed"}

\* What r found in the sink, under the write lock, is still so: it is what
\* DurableDispatch's ApplyEffect finds when the call takes effect.
Transacting(r) ==
  /\ holder = r <=> pc[r] \in M4!InTransaction
  /\ pc[r] \in {"begun", "absent", "replaying", "conflicting"} =>
       tx = [effects |-> effects, records |-> records]
  /\ pc[r] \in {"absent", "inserted", "recorded"} => RecordsOf(DispatchOf(r)) = {}
  /\ pc[r] = "inserted" => tx = [effects |-> Append(effects, EffectOf(r)), records |-> records]
  /\ pc[r] = "recorded" =>
       /\ tx = [effects |-> Append(effects, EffectOf(r)), records |-> records \cup {RecordOf(r)}]
       /\ answer[r] = [decision |-> "applied", effect_sequence |-> Len(effects) + 1]
  /\ pc[r] = "replaying" =>
       \E row \in RecordsOf(DispatchOf(r)) :
         /\ row.fingerprint = relay[r].content
         /\ answer[r] = [decision |-> "replayed", effect_sequence |-> row.effect_sequence]
  /\ pc[r] = "conflicting" =>
       \E row \in RecordsOf(DispatchOf(r)) : row.fingerprint # relay[r].content

CInv == TypeOK /\ CallTypeOK /\ \A r \in Relays : Submitted(r) /\ Transacting(r)
-----------------------------------------------------------------------------
\* The content of an intent is what its operation's fingerprint is of.
LEMMA OperationTyped ==
  ASSUME NEW d \in DispatchIds, outbox[d].content \in Contents
  PROVE  /\ OperationOf(d) \in M4!LogicalOperation
         /\ OperationOf(d).operation_id = d
         /\ M4!operation_fingerprint(OperationOf(d)) = outbox[d].content
BY ContentsAssumption DEF OperationOf, M4!LogicalOperation, M4!operation_fingerprint

\* An attempt replaces another, and nothing else changes.
LEMMA AttemptKeepsTypeOK ==
  ASSUME TypeOK, NEW r \in Relays, NEW a \in Attempt, relay' = [relay EXCEPT ![r] = a],
         UNCHANGED <<OutsideSink, sink>>, crashes' \in Nat
  PROVE  TypeOK'
BY DEF TypeOK, OutsideSink, store, sink, Opened

\* A step that leaves r's call alone, and either the sink too, or r is in no transaction.
LEMMA OthersKept ==
  ASSUME CInv, NEW r \in Relays,
         pc'[r] = pc[r], operation'[r] = operation[r], answer'[r] = answer[r], relay'[r] = relay[r],
         holder' = holder \/ (holder # r /\ holder' # r),
         UNCHANGED <<tx, sink>> \/ holder # r
  PROVE  Submitted(r)' /\ Transacting(r)'
<1>1. Submitted(r)'
  BY DEF CInv, Submitted, DispatchOf
<1>2. holder' = r <=> holder = r
  OBVIOUS
<1>3. CASE holder # r
  <2>1. pc'[r] \notin M4!InTransaction /\ holder' # r
    BY <1>2, <1>3 DEF CInv, Transacting
  <2> QED
    BY <1>1, <2>1 DEF Transacting, M4!InTransaction
<1>4. CASE UNCHANGED <<tx, sink>>
  <2>1. /\ DispatchOf(r)' = DispatchOf(r) /\ EffectOf(r)' = EffectOf(r)
        /\ RecordOf(r)' = RecordOf(r) /\ RecordsOf(DispatchOf(r))' = RecordsOf(DispatchOf(r))
    BY <1>4 DEF EffectOf, RecordOf, RecordsOf, DispatchOf, sink
  <2>2. UNCHANGED <<tx, effects, records>>
    BY <1>4 DEF sink
  <2> QED
    BY <1>1, <1>2, <2>1, <2>2 DEF CInv, Transacting
<1> QED
  BY <1>1, <1>3, <1>4

\* What DurableDispatch sees of a step of one relay.
LEMMA ViewStep ==
  ASSUME TypeOK, NEW r \in Relays, NEW v,
         \A s \in Relays \ {r} : /\ pc'[s] = pc[s] /\ answer'[s] = answer[s]
                                 /\ relay'[s] = relay[s],
         RelayView'[r] = v
  PROVE  RelayView' = [RelayView EXCEPT ![r] = v]
BY DEF RelayView

LEMMA InitCInv == CInit => CInv
<1> SUFFICES ASSUME CInit PROVE CInv
  OBVIOUS
<1>1. TypeOK
  BY InitTypeOK DEF CInit
<1>2. \E o \in M4!LogicalOperation : TRUE
  <2>1. PICK d \in DispatchIds, content \in EffectNames \X Payloads : TRUE
    BY IntentsAssumption, ContentsAssumption
  <2>2. [operation_id |-> d, effect_name |-> content[1], payload |-> content[2]]
          \in M4!LogicalOperation
    BY DEF M4!LogicalOperation
  <2> QED
    BY <2>2
<1>3. CallTypeOK
  BY <1>2 DEF CInit, CallTypeOK, M4!Init, M4!PC, M4!NoResult, M4!Result, M4!Decision
<1>4. \A r \in Relays : Submitted(r) /\ Transacting(r)
  BY NoRelayAssumption DEF CInit, Init, M4!Init, Submitted, Transacting, M4!InTransaction
<1> QED
  BY <1>1, <1>3, <1>4 DEF CInv

LEMMA InitView == CInit => Dispatch!Init
<1> SUFFICES ASSUME CInit PROVE Dispatch!Init
  OBVIOUS
<1>1. RelayView = relay
  BY DEF CInit, Init, M4!Init, RelayView
<1> QED
  BY <1>1 DEF CInit, Init, Dispatch!Init, SomeIntent, Dispatch!SomeIntent, Intent, Dispatch!Intent,
     Absent, Dispatch!Absent, Sink!Init, Dispatch!Sink!Init
-----------------------------------------------------------------------------
(* Inside the sink *)

\* A step of r's call keeps the invariant if it keeps what the invariant says of r.
LEMMA CallMoves ==
  ASSUME CInv, NEW r \in Relays, TypeOK', CallTypeOK', Submitted(r)', Transacting(r)',
         \A s \in Relays \ {r} : /\ pc'[s] = pc[s] /\ operation'[s] = operation[s]
                                 /\ answer'[s] = answer[s] /\ relay'[s] = relay[s],
         holder' = holder \/ {holder, holder'} \subseteq {r, NoRelay},
         UNCHANGED <<tx, sink>> \/ holder \in {r, NoRelay}
  PROVE  CInv'
<1>1. ASSUME NEW s \in Relays \ {r} PROVE Submitted(s)' /\ Transacting(s)'
  <2>1. s # NoRelay
    BY NoRelayAssumption
  <2> QED
    BY <2>1, OthersKept
<1> QED
  BY <1>1 DEF CInv

\* Before its COMMIT DurableDispatch sees nothing of a call.
LEMMA InsideUnseen ==
  ASSUME CInv, NEW r \in Relays, pc[r] # "committed", pc'[r] # "committed",
         \A s \in Relays \ {r} : pc'[s] = pc[s] /\ answer'[s] = answer[s],
         UNCHANGED <<OutsideSink, sink, relay, crashes>>
  PROVE  UNCHANGED Dispatch!vars
<1>1. RelayView' = RelayView
  BY DEF RelayView
<1> QED
  BY <1>1 DEF Dispatch!vars, OutsideSink, store, sink

\* Whoever is in a transaction holds the lock.
LEMMA Holding ==
  ASSUME CInv, NEW r \in Relays, pc[r] \in M4!InTransaction
  PROVE  holder = r
BY DEF CInv, Transacting

LEMMA BeginRefines ==
  ASSUME CInv, NEW r \in Relays, M4!BeginImmediate(r), UNCHANGED <<OutsideSink, relay, crashes>>
  PROVE  CInv' /\ UNCHANGED Dispatch!vars
<1>1. /\ pc[r] = "called" /\ holder = NoRelay /\ holder' = r
      /\ tx' = [effects |-> effects, records |-> records]
      /\ pc' = [pc EXCEPT ![r] = "begun"]
      /\ UNCHANGED <<sink, operation, answer>>
  BY DEF M4!BeginImmediate, M4!Goto, M4!tables, sink
<1>2. UNCHANGED <<effects, records, window, relay>>
  BY <1>1 DEF sink
<1>3. pc'[r] = "begun" /\ \A s \in Relays \ {r} : pc'[s] = pc[s]
  BY <1>1 DEF CInv, CallTypeOK
<1>4. TypeOK'
  BY <1>1 DEF CInv, TypeOK, OutsideSink, store, sink, Opened
<1>5. CallTypeOK'
  BY <1>1 DEF CInv, CallTypeOK, M4!PC, M4!InTransaction
<1>6. Submitted(r)'
  BY <1>1, <1>3 DEF CInv, Submitted, DispatchOf
<1>7. Transacting(r)'
  BY <1>1, <1>2, <1>3 DEF Transacting, M4!InTransaction
<1>8. CInv'
  BY <1>1, <1>3, <1>4, <1>5, <1>6, <1>7, CallMoves
<1> QED
  BY <1>1, <1>3, <1>8, InsideUnseen

LEMMA SelectRefines ==
  ASSUME CInv, NEW r \in Relays, M4!SelectRecord(r), UNCHANGED <<OutsideSink, relay, crashes>>
  PROVE  CInv' /\ UNCHANGED Dispatch!vars
<1>1. /\ pc[r] = "begun" /\ UNCHANGED <<sink, holder, tx, operation>>
      /\ UNCHANGED <<effects, records, window, relay>>
  BY DEF M4!SelectRecord, M4!tables, sink
<1>2. /\ holder = r /\ tx = [effects |-> effects, records |-> records]
      /\ operation[r].operation_id = DispatchOf(r)
      /\ M4!operation_fingerprint(operation[r]) = relay[r].content
  BY <1>1, Holding DEF CInv, Submitted, Transacting, M4!InTransaction
<1>3. M4!Rows(operation[r].operation_id) = RecordsOf(DispatchOf(r))
  BY <1>2 DEF M4!Rows, RecordsOf
<1>4. RecordsOf(DispatchOf(r))' = RecordsOf(DispatchOf(r))
  BY <1>1 DEF RecordsOf, DispatchOf
<1>5. \E label \in {"absent", "conflicting", "replaying"} : pc' = [pc EXCEPT ![r] = label]
  BY DEF M4!SelectRecord, M4!Goto, M4!Replay
<1>6. pc'[r] # "begun" /\ pc'[r] # "committed" /\ pc'[r] # "idle" /\ pc'[r] \in M4!InTransaction
      /\ \A s \in Relays \ {r} : pc'[s] = pc[s]
  BY <1>5 DEF CInv, CallTypeOK, M4!InTransaction
<1>7. /\ answer' \in [Relays -> M4!Result]
      /\ \A s \in Relays \ {r} : answer'[s] = answer[s]
      /\ Transacting(r)'
  <2>1. CASE RecordsOf(DispatchOf(r)) = {} /\ pc' = [pc EXCEPT ![r] = "absent"] /\ UNCHANGED answer
    BY <1>1, <1>2, <1>4, <2>1 DEF CInv, CallTypeOK, Transacting, M4!InTransaction
  <2>2. ASSUME NEW row \in RecordsOf(DispatchOf(r)), row.fingerprint # relay[r].content,
               pc' = [pc EXCEPT ![r] = "conflicting"], UNCHANGED answer
        PROVE  (/\ answer' \in [Relays -> M4!Result]
                /\ \A s \in Relays \ {r} : answer'[s] = answer[s]
                /\ Transacting(r)')
    BY <1>1, <1>2, <1>4, <2>2 DEF CInv, CallTypeOK, Transacting, M4!InTransaction
  <2>3. ASSUME NEW row \in RecordsOf(DispatchOf(r)), row.fingerprint = relay[r].content,
               pc' = [pc EXCEPT ![r] = "replaying"],
               answer' = [answer EXCEPT ![r] = [decision |-> "replayed",
                                                effect_sequence |-> row.effect_sequence]]
        PROVE  (/\ answer' \in [Relays -> M4!Result]
                /\ \A s \in Relays \ {r} : answer'[s] = answer[s]
                /\ Transacting(r)')
    <3>1. row.effect_sequence \in Nat
      BY DEF CInv, TypeOK, RecordsOf, Sink!RecordRow
    <3>2. [decision |-> "replayed", effect_sequence |-> row.effect_sequence] \in M4!Result
      BY <3>1 DEF M4!Result, M4!Decision
    <3>3. answer' \in [Relays -> M4!Result] /\ \A s \in Relays \ {r} : answer'[s] = answer[s]
      BY <2>3, <3>2 DEF CInv, CallTypeOK
    <3>4. /\ answer'[r] = [decision |-> "replayed", effect_sequence |-> row.effect_sequence]
          /\ pc'[r] = "replaying"
      BY <2>3 DEF CInv, CallTypeOK
    <3>5. Transacting(r)'
      BY <1>1, <1>2, <1>4, <2>3, <3>4 DEF Transacting, M4!InTransaction
    <3> QED
      BY <3>3, <3>5
  <2> QED
    BY <1>2, <1>3, <2>1, <2>2, <2>3 DEF M4!SelectRecord, M4!Goto, M4!Replay
<1>8. TypeOK'
  BY <1>1 DEF CInv, TypeOK, OutsideSink, store, Opened
<1>9. CallTypeOK'
  BY <1>1, <1>5, <1>7 DEF CInv, CallTypeOK, M4!PC, M4!InTransaction
<1>10. Submitted(r)'
  BY <1>1, <1>6 DEF CInv, Submitted, DispatchOf
<1>11. CInv'
  BY <1>1, <1>6, <1>7, <1>8, <1>9, <1>10, CallMoves
<1> QED
  BY <1>1, <1>6, <1>7, <1>11, InsideUnseen

LEMMA InsertEffectRefines ==
  ASSUME CInv, NEW r \in Relays, M4!InsertEffect(r), UNCHANGED <<OutsideSink, relay, crashes>>
  PROVE  CInv' /\ UNCHANGED Dispatch!vars
<1>1. /\ pc[r] = "absent" /\ UNCHANGED <<sink, holder, operation, answer>>
      /\ UNCHANGED <<effects, records, window, relay>>
      /\ pc' = [pc EXCEPT ![r] = "inserted"]
  BY DEF M4!InsertEffect, M4!Goto, M4!tables, sink
<1>2. /\ holder = r /\ tx = [effects |-> effects, records |-> records]
      /\ M4!EffectOf(r) = EffectOf(r) /\ RecordsOf(DispatchOf(r)) = {}
  BY <1>1, Holding DEF CInv, Submitted, Transacting, M4!InTransaction, M4!EffectOf, EffectOf
<1>3. tx' = [effects |-> Append(effects, EffectOf(r)), records |-> records]
  BY <1>2 DEF M4!InsertEffect
<1>4. /\ EffectOf(r)' = EffectOf(r) /\ RecordsOf(DispatchOf(r))' = RecordsOf(DispatchOf(r))
  BY <1>1 DEF EffectOf, RecordsOf, DispatchOf
<1>5. pc'[r] = "inserted" /\ \A s \in Relays \ {r} : pc'[s] = pc[s]
  BY <1>1 DEF CInv, CallTypeOK
<1>6. TypeOK'
  BY <1>1 DEF CInv, TypeOK, OutsideSink, store, Opened
<1>7. CallTypeOK'
  BY <1>1 DEF CInv, CallTypeOK, M4!PC, M4!InTransaction
<1>8. Submitted(r)'
  BY <1>1, <1>5 DEF CInv, Submitted, DispatchOf
<1>9. Transacting(r)'
  BY <1>1, <1>2, <1>3, <1>4, <1>5 DEF Transacting, M4!InTransaction
<1>10. CInv'
  BY <1>1, <1>2, <1>5, <1>6, <1>7, <1>8, <1>9, CallMoves
<1> QED
  BY <1>1, <1>5, <1>10, InsideUnseen

LEMMA InsertRecordRefines ==
  ASSUME CInv, NEW r \in Relays, M4!InsertRecord(r), UNCHANGED <<OutsideSink, relay, crashes>>
  PROVE  CInv' /\ UNCHANGED Dispatch!vars
<1>1. /\ pc[r] = "inserted" /\ UNCHANGED <<sink, holder, operation>>
      /\ UNCHANGED <<effects, records, window, relay>>
      /\ pc' = [pc EXCEPT ![r] = "recorded"]
  BY DEF M4!InsertRecord, M4!Goto, M4!tables, sink
<1>2. /\ holder = r /\ tx = [effects |-> Append(effects, EffectOf(r)), records |-> records]
      /\ operation[r].operation_id = DispatchOf(r)
      /\ M4!operation_fingerprint(operation[r]) = relay[r].content
      /\ RecordsOf(DispatchOf(r)) = {}
  BY <1>1, Holding DEF CInv, Submitted, Transacting, M4!InTransaction
<1>3. Len(tx.effects) = Len(effects) + 1 /\ Len(effects) + 1 \in Nat
  <2>1. relay[r].content \in Contents /\ DispatchOf(r) \in DispatchIds
    BY AttemptTyped DEF CInv
  <2>2. EffectOf(r) \in Sink!EffectRow /\ effects \in Seq(Sink!EffectRow)
    BY <2>1 DEF CInv, TypeOK, EffectOf, Sink!EffectRow
  <2> QED
    BY <1>2, <2>2, AppendProperties, LenProperties
<1>4. /\ tx' = [effects |-> Append(effects, EffectOf(r)), records |-> records \cup {RecordOf(r)}]
      /\ answer' = [answer EXCEPT ![r] = [decision |-> "applied",
                                          effect_sequence |-> Len(effects) + 1]]
  BY <1>2, <1>3 DEF M4!InsertRecord, RecordOf
<1>5. /\ EffectOf(r)' = EffectOf(r) /\ RecordOf(r)' = RecordOf(r)
      /\ RecordsOf(DispatchOf(r))' = RecordsOf(DispatchOf(r))
  BY <1>1 DEF EffectOf, RecordOf, RecordsOf, DispatchOf
<1>6. /\ pc'[r] = "recorded" /\ \A s \in Relays \ {r} : pc'[s] = pc[s] /\ answer'[s] = answer[s]
      /\ answer'[r] = [decision |-> "applied", effect_sequence |-> Len(effects) + 1]
  BY <1>1, <1>4 DEF CInv, CallTypeOK
<1>7. TypeOK'
  BY <1>1 DEF CInv, TypeOK, OutsideSink, store, Opened
<1>8. CallTypeOK'
  <2>1. [decision |-> "applied", effect_sequence |-> Len(effects) + 1] \in M4!Result
    BY <1>3 DEF M4!Result, M4!Decision
  <2> QED
    BY <1>1, <1>4, <2>1 DEF CInv, CallTypeOK, M4!PC, M4!InTransaction
<1>9. Submitted(r)'
  BY <1>1, <1>6 DEF CInv, Submitted, DispatchOf
<1>10. Transacting(r)'
  BY <1>1, <1>2, <1>4, <1>5, <1>6 DEF Transacting, M4!InTransaction
<1>11. CInv'
  BY <1>1, <1>2, <1>6, <1>7, <1>8, <1>9, <1>10, CallMoves
<1> QED
  BY <1>1, <1>6, <1>11, InsideUnseen

\* The COMMIT is the call's one step in DurableDispatch: the operation is admitted
\* or was already.
LEMMA CommitRefines ==
  ASSUME CInv, NEW r \in Relays, M4!Commit(r), UNCHANGED <<OutsideSink, relay, crashes>>
  PROVE  CInv' /\ Dispatch!ApplyEffect(r)
<1>1. /\ pc[r] \in {"recorded", "replaying"}
      /\ effects' = tx.effects /\ records' = tx.records /\ holder' = NoRelay
      /\ pc' = [pc EXCEPT ![r] = "committed"]
      /\ UNCHANGED <<window, tx, operation, answer, relay>>
  BY DEF M4!Commit, M4!Unlock, M4!Goto
<1>2. /\ holder = r /\ r # NoRelay /\ relay[r].pc = "read"
      /\ relay[r] \in Attempt /\ DispatchOf(r) \in DispatchIds /\ relay[r].content \in Contents
  BY <1>1, Holding, AttemptTyped, NoRelayAssumption DEF CInv, Submitted, M4!InTransaction
<1>3. pc'[r] = "committed" /\ \A s \in Relays \ {r} : pc'[s] = pc[s]
  BY <1>1 DEF CInv, CallTypeOK
<1>4. CallTypeOK'
  BY <1>1 DEF CInv, CallTypeOK, M4!PC, M4!InTransaction
<1>5. Transacting(r)'
  BY <1>1, <1>2, <1>3 DEF Transacting, M4!InTransaction
<1>6. ASSUME TypeOK', answer[r].decision \in {"applied", "replayed"} PROVE CInv'
  <2>1. Submitted(r)'
    BY <1>1, <1>3, <1>6 DEF CInv, Submitted, DispatchOf
  <2> QED
    BY <1>1, <1>2, <1>3, <1>4, <1>5, <1>6, <2>1, CallMoves
<1>7. /\ RelayView[r] = relay[r]
      /\ RelayView' = [RelayView EXCEPT ![r].pc = "effected", ![r].decision = answer[r].decision,
                                        ![r].effect = answer[r].effect_sequence]
  BY <1>1, <1>3 DEF RelayView
<1>8. UNCHANGED <<authority, outbox, writer, producer, lost, crashes>>
  BY DEF OutsideSink, store
<1>9. CASE pc[r] = "recorded"
  <2>1. /\ effects' = Append(effects, EffectOf(r)) /\ records' = records \cup {RecordOf(r)}
        /\ answer[r] = [decision |-> "applied", effect_sequence |-> Len(effects) + 1]
        /\ RecordsOf(DispatchOf(r)) = {}
    BY <1>1, <1>9 DEF CInv, Transacting
  <2>2. Sink!Admit(DispatchOf(r), relay[r].content)
    BY <1>1, <2>1 DEF Sink!Admit, Sink!Retained, RecordsOf, EffectOf, RecordOf
  <2>3. /\ effects' \in Seq(Sink!EffectRow) /\ records' \in SUBSET Sink!RecordRow
        /\ Len(effects') = Len(effects) + 1
    BY <1>2, <2>2, AdmittedTyped DEF CInv
  <2>4. TypeOK'
    BY <1>1, <1>8, <2>3 DEF CInv, TypeOK, Opened
  <2>5. Dispatch!Sink!Admit(Dispatch!DispatchOf(r), RelayView[r].content)
    BY <1>7, <2>2 DEF Sink!Admit, Dispatch!Sink!Admit, Sink!Retained, Dispatch!Sink!Retained,
       DispatchOf, Dispatch!DispatchOf
  <2>6. Dispatch!Effected(r, "applied", Len(effects'))
    BY <1>7, <2>1, <2>3 DEF Dispatch!Effected
  <2> QED
    BY <1>2, <1>6, <1>7, <1>8, <2>1, <2>4, <2>5, <2>6 DEF Dispatch!ApplyEffect, Dispatch!store
<1>10. CASE pc[r] = "replaying"
  <2>1. PICK row \in RecordsOf(DispatchOf(r)) :
          /\ row.fingerprint = relay[r].content
          /\ answer[r] = [decision |-> "replayed", effect_sequence |-> row.effect_sequence]
    BY <1>10 DEF CInv, Transacting
  <2>2. UNCHANGED <<effects, records, window>>
    BY <1>1, <1>10 DEF CInv, Transacting
  <2>3. TypeOK'
    BY <1>1, <1>8, <2>2 DEF CInv, TypeOK, Opened
  <2>4. row \in Dispatch!RecordsOf(Dispatch!DispatchOf(r)) /\ row.fingerprint = RelayView[r].content
    BY <1>7, <2>1 DEF RecordsOf, Dispatch!RecordsOf, DispatchOf, Dispatch!DispatchOf
  <2>5. Dispatch!Effected(r, "replayed", row.effect_sequence)
    BY <1>7, <2>1 DEF Dispatch!Effected
  <2> QED
    BY <1>2, <1>6, <1>7, <1>8, <2>1, <2>2, <2>3, <2>4, <2>5
    DEF Dispatch!ApplyEffect, Dispatch!store, Dispatch!sink
<1> QED
  BY <1>1, <1>9, <1>10

\* The answer arrives of a call that DurableDispatch has already seen take effect.
LEMMA ReturnRefines ==
  ASSUME CInv, NEW r \in Relays, SinkReturns(r)
  PROVE  CInv' /\ UNCHANGED Dispatch!vars
<1> DEFINE a == [relay[r] EXCEPT !.pc = "effected", !.decision = answer[r].decision,
                                !.effect = answer[r].effect_sequence]
<1>1. /\ pc[r] = "committed" /\ pc' = [pc EXCEPT ![r] = "idle"]
      /\ UNCHANGED <<sink, holder, tx, operation, answer, OutsideSink, crashes>>
  BY DEF SinkReturns, M4!Return, M4!Goto, M4!tables, sink
<1>2. relay' = [relay EXCEPT ![r] = a]
  BY DEF SinkReturns, Effected, CInv, TypeOK
<1>3. /\ answer[r].decision \in {"applied", "replayed"} /\ answer[r].effect_sequence \in Nat
      /\ holder # r
  BY <1>1 DEF CInv, Submitted, Transacting, CallTypeOK, M4!Result, M4!InTransaction
<1>4. a \in Attempt
  BY <1>3, AttemptTyped DEF Attempt, CInv
<1>5. /\ pc'[r] = "idle" /\ relay'[r] = a
      /\ \A s \in Relays \ {r} : pc'[s] = pc[s] /\ relay'[s] = relay[s]
  BY <1>1, <1>2 DEF CInv, CallTypeOK, TypeOK
<1>6. TypeOK'
  BY <1>1, <1>2, <1>4, AttemptKeepsTypeOK DEF CInv, TypeOK
<1>7. CallTypeOK'
  BY <1>1 DEF CInv, CallTypeOK, M4!PC
<1>8. a.pc = "effected"
  BY <1>4 DEF Attempt
<1>9. Submitted(r)' /\ Transacting(r)'
  BY <1>1, <1>3, <1>5, <1>8 DEF Submitted, Transacting, M4!InTransaction
<1>10. CInv'
  BY <1>1, <1>5, <1>6, <1>7, <1>9, CallMoves
<1>11. RelayView' = RelayView
  BY <1>1, <1>5 DEF RelayView
<1> QED
  BY <1>1, <1>10, <1>11 DEF Dispatch!vars, OutsideSink, store, sink

\* A call that ends without an effect of its own, or without being told of it.
LEMMA CallEnds ==
  ASSUME CInv, NEW r \in Relays, pc[r] # "idle",
         NEW result \in M4!Result, NEW a \in Attempt, a.pc = "idle",
         pc' = [pc EXCEPT ![r] = "idle"], answer' = [answer EXCEPT ![r] = result],
         relay' = [relay EXCEPT ![r] = a],
         UNCHANGED <<OutsideSink, sink, operation>>, crashes' \in Nat,
         \/ UNCHANGED <<holder, tx>> /\ holder # r
         \/ holder = r /\ holder' = NoRelay
  PROVE  CInv' /\ RelayView' = [RelayView EXCEPT ![r] = a]
<1>1. /\ pc'[r] = "idle" /\ relay'[r] = a
      /\ \A s \in Relays \ {r} : /\ pc'[s] = pc[s] /\ relay'[s] = relay[s]
                                /\ answer'[s] = answer[s]
  BY DEF CInv, CallTypeOK, TypeOK
<1>2. TypeOK'
  BY AttemptKeepsTypeOK DEF CInv
<1>3. CallTypeOK'
  BY DEF CInv, CallTypeOK, M4!PC
<1>4. holder' # r
  BY NoRelayAssumption
<1>5. Submitted(r)' /\ Transacting(r)'
  BY <1>1, <1>4 DEF Submitted, Transacting, M4!InTransaction
<1>6. CInv'
  BY <1>1, <1>2, <1>3, <1>5, CallMoves
<1>7. RelayView'[r] = a
  BY <1>1 DEF RelayView
<1> QED
  BY <1>1, <1>6, <1>7, ViewStep DEF CInv

LEMMA ConflictRefines ==
  ASSUME CInv, NEW r \in Relays, SinkConflicts(r)
  PROVE  CInv' /\ Dispatch!ApplyEffect(r)
<1> DEFINE a == [relay[r] EXCEPT !.pc = "idle", !.outcome = "conflict"]
           result == [decision |-> "conflict", effect_sequence |-> 0]
<1>1. /\ pc[r] = "conflicting" /\ pc' = [pc EXCEPT ![r] = "idle"]
      /\ answer' = [answer EXCEPT ![r] = result]
      /\ holder' = NoRelay
      /\ UNCHANGED <<sink, operation, OutsideSink, crashes>>
  BY DEF SinkConflicts, M4!RaiseConflict, M4!Rollback, M4!Unlock, M4!Ends, M4!Goto, M4!tables, sink
<1>2. relay' = [relay EXCEPT ![r] = a]
  BY DEF SinkConflicts, Ends, CInv, TypeOK
<1>3. a \in Attempt /\ a.pc = "idle" /\ result \in M4!Result
  BY AttemptTyped DEF Attempt, Outcome, CInv, M4!Result, M4!Decision
<1>4. holder = r /\ relay[r].pc = "read"
  BY <1>1, Holding DEF M4!InTransaction, CInv, Submitted
<1>5. crashes' \in Nat
  BY <1>1 DEF CInv, TypeOK
<1>6. CInv' /\ RelayView' = [RelayView EXCEPT ![r] = a]
  <2> HIDE DEF a, result
  <2> QED
    BY <1>1, <1>2, <1>3, <1>4, <1>5, CallEnds
<1>7. RelayView[r] = relay[r]
  BY <1>1 DEF RelayView
<1>8. PICK row \in RecordsOf(DispatchOf(r)) : row.fingerprint # relay[r].content
  BY <1>1 DEF CInv, Transacting
<1>9. row \in Dispatch!RecordsOf(Dispatch!DispatchOf(r)) /\ row.fingerprint # RelayView[r].content
  BY <1>7, <1>8 DEF RecordsOf, Dispatch!RecordsOf, DispatchOf, Dispatch!DispatchOf
<1>10. Dispatch!Ends(r, "conflict")
  BY <1>6, <1>7 DEF Dispatch!Ends, RelayView
<1> QED
  BY <1>1, <1>4, <1>6, <1>7, <1>9, <1>10
  DEF Dispatch!ApplyEffect, Dispatch!store, Dispatch!sink, OutsideSink, store, sink

\* Whichever way a call fails, and whether or not it took effect, it is a crash there.
LEMMA FailRefines ==
  ASSUME CInv, NEW r \in Relays, SinkCallFails(r)
  PROVE  CInv' /\ Dispatch!CrashRelay(r)
<1> DEFINE a == [pc |-> "idle", dispatch_id |-> DispatchOf(r), content |-> relay[r].content,
                 decision |-> "none", effect |-> 0, outcome |-> "crashed"]
           result == [decision |-> "lost", effect_sequence |-> 0]
<1>1. /\ pc[r] # "idle" /\ pc' = [pc EXCEPT ![r] = "idle"]
      /\ answer' = [answer EXCEPT ![r] = result]
      /\ UNCHANGED <<sink, operation, OutsideSink>>
  BY DEF SinkCallFails, M4!BusyTimeout, M4!FailInTransaction, M4!CrashOutside, M4!Rollback,
     M4!Unlock, M4!Ends, M4!Goto, M4!tables, M4!InTransaction, sink
<1>2. \/ UNCHANGED <<holder, tx>> /\ holder # r
      \/ holder = r /\ holder' = NoRelay
  <2>1. CASE M4!FailInTransaction(r)
    BY <2>1, Holding DEF M4!FailInTransaction, M4!Rollback, M4!Unlock
  <2>2. CASE M4!BusyTimeout(r) \/ M4!CrashOutside(r)
    <3>1. pc[r] \in {"called", "committed"} /\ UNCHANGED <<holder, tx>>
      BY <2>2 DEF M4!BusyTimeout, M4!CrashOutside
    <3> QED
      BY <3>1 DEF CInv, Transacting, M4!InTransaction
  <2> QED
    BY <2>1, <2>2 DEF SinkCallFails
<1>3. relay' = [relay EXCEPT ![r] = a]
  BY DEF SinkCallFails, Started
<1>4. a \in Attempt /\ a.pc = "idle" /\ result \in M4!Result
  BY AttemptTyped DEF Attempt, Outcome, CInv, M4!Result, M4!Decision
<1>5. crashes' = crashes + 1 /\ crashes < MaxCrashes /\ crashes' \in Nat
  BY DEF CInv, TypeOK, SinkCallFails
<1>6. CInv' /\ RelayView' = [RelayView EXCEPT ![r] = a]
  <2> HIDE DEF a, result
  <2> QED
    BY <1>1, <1>2, <1>3, <1>4, <1>5, CallEnds
<1>7. /\ RelayView[r].pc # "idle" /\ RelayView[r].content = relay[r].content
      /\ RelayView[r].dispatch_id = DispatchOf(r)
  BY <1>1, AttemptTyped DEF RelayView, CInv, Submitted, DispatchOf, Attempt
<1> QED
  BY <1>1, <1>5, <1>6, <1>7
  DEF Dispatch!CrashRelay, Dispatch!Started, Dispatch!DispatchOf, Dispatch!store, Dispatch!sink,
    OutsideSink, store, sink
-----------------------------------------------------------------------------
(* Outside the sink *)

LEMMA CallRefines ==
  ASSUME CInv, NEW r \in Relays, NEW d \in DispatchIds, CallSink(r, d)
  PROVE  CInv' /\ Dispatch!ReadRecord(r, d)
<1> DEFINE a == [pc |-> "read", dispatch_id |-> d, content |-> outbox[d].content,
                 decision |-> "none", effect |-> 0, outcome |-> "none"]
<1>1. /\ relay[r].pc = "idle" /\ outbox[d].status = "pending"
      /\ relay' = [relay EXCEPT ![r] = a]
      /\ UNCHANGED <<OutsideSink, sink, crashes>>
  BY DEF CallSink, ReadRecord, Started, OutsideSink, store, sink
<1>2. /\ pc' = [pc EXCEPT ![r] = "called"]
      /\ operation' = [operation EXCEPT ![r] = OperationOf(d)]
      /\ answer' = [answer EXCEPT ![r] = M4!NoResult]
      /\ UNCHANGED <<holder, tx>>
  BY DEF CallSink, M4!Submit, M4!Goto
<1>3. outbox[d].content \in Contents
  BY <1>1 DEF CInv, TypeOK, OutboxRow, Absent
<1>4. a \in Attempt
  BY <1>3 DEF Attempt, Outcome
<1>5. /\ OperationOf(d) \in M4!LogicalOperation
      /\ OperationOf(d).operation_id = d
      /\ M4!operation_fingerprint(OperationOf(d)) = outbox[d].content
  BY <1>3, OperationTyped
<1>6. /\ pc'[r] = "called" /\ relay'[r] = a /\ operation'[r] = OperationOf(d)
      /\ \A s \in Relays \ {r} : /\ pc'[s] = pc[s] /\ relay'[s] = relay[s]
                                /\ answer'[s] = answer[s] /\ operation'[s] = operation[s]
  BY <1>1, <1>2 DEF CInv, CallTypeOK, TypeOK
<1>7. TypeOK'
  <2> HIDE DEF a
  <2> QED
    BY <1>1, <1>4, AttemptKeepsTypeOK DEF CInv, TypeOK
<1>8. CallTypeOK'
  BY <1>2, <1>5 DEF CInv, CallTypeOK, M4!PC, M4!NoResult, M4!Result, M4!Decision
<1>9. pc[r] = "idle" /\ holder # r /\ holder' # r
  BY <1>1, <1>2 DEF CInv, CallTypeOK, Submitted, Transacting, M4!InTransaction
<1>10. Transacting(r)'
  BY <1>6, <1>9 DEF Transacting, M4!InTransaction
<1>11. M4!operation_fingerprint(operation[r])' = outbox[d].content
  BY <1>5, <1>6 DEF M4!operation_fingerprint
<1>12. Submitted(r)'
  BY <1>5, <1>6, <1>11 DEF Submitted, DispatchOf
<1>13. CInv'
  BY <1>1, <1>2, <1>6, <1>7, <1>8, <1>10, <1>12, CallMoves
<1>14. RelayView[r] = relay[r] /\ RelayView'[r] = a
  BY <1>6, <1>9 DEF RelayView
<1>15. RelayView' = [RelayView EXCEPT ![r] = a]
  BY <1>6, <1>14, ViewStep DEF CInv
<1> QED
  BY <1>1, <1>13, <1>14, <1>15
  DEF Dispatch!ReadRecord, Dispatch!Started, Dispatch!store, Dispatch!sink, OutsideSink, store, sink

\* What a relay outside the sink does.
LEMMA StoreRefines ==
  ASSUME CInv, NEW r \in Relays, AtStore(r)
  PROVE  /\ CInv'
         /\ \/ Dispatch!Acknowledge(r) \/ Dispatch!CrashRelay(r)
            \/ \E d \in DispatchIds : Dispatch!RefuseDispatch(r, d)
<1>1. /\ UNCHANGED <<holder, tx, pc, operation, answer, sink>>
      /\ relay[r].pc # "read"
  BY DEF AtStore, call, Acknowledge, CrashRelay, RefuseDispatch, sink
<1>2. pc[r] = "idle" /\ pc'[r] = "idle" /\ RelayView[r] = relay[r]
  BY <1>1 DEF CInv, Submitted, RelayView
<1>3. TypeOK'
  BY RelayKeepsTypeOK DEF CInv, AtStore
<1>4. ASSUME NEW a, relay' = [relay EXCEPT ![r] = a], a.pc # "read"
      PROVE  CInv' /\ RelayView' = [RelayView EXCEPT ![r] = a]
  <2>1. relay'[r] = a /\ \A s \in Relays \ {r} : relay'[s] = relay[s]
    BY <1>4 DEF CInv, TypeOK
  <2>2. CallTypeOK'
    BY <1>1 DEF CInv, CallTypeOK
  <2>3. holder' # r
    BY <1>1, <1>2 DEF CInv, Transacting, M4!InTransaction
  <2>4. Submitted(r)' /\ Transacting(r)'
    BY <1>2, <1>4, <2>1, <2>3 DEF Submitted, Transacting, M4!InTransaction
  <2>5. CInv'
    BY <1>1, <1>3, <2>1, <2>2, <2>4, CallMoves
  <2>6. RelayView'[r] = a
    BY <1>2, <2>1 DEF RelayView
  <2> QED
    BY <1>1, <2>1, <2>5, <2>6, ViewStep DEF CInv
<1>5. CASE Acknowledge(r)
  <2>1. ASSUME NEW outcome, Ends(r, outcome)
        PROVE  CInv' /\ Dispatch!Ends(r, outcome)
    <3> DEFINE a == [relay[r] EXCEPT !.pc = "idle", !.outcome = outcome]
    <3>1. relay' = [relay EXCEPT ![r] = a]
      BY <2>1 DEF Ends, CInv, TypeOK
    <3>2. a.pc = "idle"
      BY AttemptTyped DEF CInv, Attempt
    <3>3. CInv' /\ RelayView' = [RelayView EXCEPT ![r] = a]
      <4> HIDE DEF a
      <4> QED
        BY <1>4, <3>1, <3>2
    <3> QED
      BY <1>2, <3>3 DEF Dispatch!Ends, RelayView
  <2>2. CASE /\ outbox[DispatchOf(r)].status = "pending"
             /\ outbox' = [outbox EXCEPT ![DispatchOf(r)].status = "acknowledged",
                                         ![DispatchOf(r)].effect = relay[r].effect]
             /\ Ends(r, "acknowledged")
    <3>1. CInv' /\ Dispatch!Ends(r, "acknowledged")
      BY <2>1, <2>2
    <3> QED
      BY <1>2, <1>5, <2>2, <3>1 DEF Acknowledge, Dispatch!Acknowledge, DispatchOf,
         Dispatch!DispatchOf, Dispatch!sink, sink
  <2>3. CASE /\ outbox[DispatchOf(r)].status # "pending"
             /\ Ends(r, "dispatch-not-pending") /\ UNCHANGED outbox
    <3>1. CInv' /\ Dispatch!Ends(r, "dispatch-not-pending")
      BY <2>1, <2>3
    <3> QED
      BY <1>2, <1>5, <2>3, <3>1 DEF Acknowledge, Dispatch!Acknowledge, DispatchOf,
         Dispatch!DispatchOf, Dispatch!sink, sink
  <2> QED
    BY <1>5, <2>2, <2>3 DEF Acknowledge
<1>6. ASSUME NEW d, NEW content, NEW outcome, Started(r, d, content, "idle", outcome)
      PROVE  CInv' /\ Dispatch!Started(r, d, content, "idle", outcome)
  <2> DEFINE a == [pc |-> "idle", dispatch_id |-> d, content |-> content,
                   decision |-> "none", effect |-> 0, outcome |-> outcome]
  <2>1. relay' = [relay EXCEPT ![r] = a] /\ a.pc = "idle"
    BY <1>6 DEF Started
  <2>2. CInv' /\ RelayView' = [RelayView EXCEPT ![r] = a]
    <3> HIDE DEF a
    <3> QED
      BY <1>4, <2>1
  <2> QED
    BY <2>2 DEF Dispatch!Started
<1>7. CASE CrashRelay(r)
  <2>1. CInv' /\ Dispatch!Started(r, DispatchOf(r), relay[r].content, "idle", "crashed")
    BY <1>6, <1>7 DEF CrashRelay
  <2> QED
    BY <1>2, <1>7, <2>1 DEF CrashRelay, Dispatch!CrashRelay, DispatchOf, Dispatch!DispatchOf,
       Dispatch!store, Dispatch!sink, store, sink
<1>8. ASSUME NEW d \in DispatchIds, RefuseDispatch(r, d)
      PROVE  CInv' /\ Dispatch!RefuseDispatch(r, d)
  <2>1. CInv' /\ Dispatch!Started(r, d, relay[r].content, "idle", "dispatch-not-pending")
    BY <1>6, <1>8 DEF RefuseDispatch
  <2> QED
    BY <1>2, <1>8, <2>1 DEF RefuseDispatch, Dispatch!RefuseDispatch, Opened, Dispatch!Opened,
       Unopened, Dispatch!Unopened, Dispatch!store, Dispatch!sink, store, sink
<1> QED
  BY <1>5, <1>7, <1>8 DEF AtStore

\* The steps in which no relay and no call moves.
LEMMA RelaysRest ==
  ASSUME CInv, TypeOK', UNCHANGED <<relay, holder, pc, operation, answer>>,
         UNCHANGED <<tx, sink>> \/ holder = NoRelay
  PROVE  CInv' /\ RelayView' = RelayView
<1>1. ASSUME NEW r \in Relays PROVE Submitted(r)' /\ Transacting(r)'
  BY NoRelayAssumption, OthersKept
<1>2. CallTypeOK'
  BY DEF CInv, CallTypeOK
<1> QED
  BY <1>1, <1>2 DEF CInv, RelayView

LEMMA OpenRefines ==
  ASSUME CInv, Open, UNCHANGED call
  PROVE  CInv' /\ Dispatch!Open
<1>1. UNCHANGED <<relay, holder, tx, pc, operation, answer, sink>>
  BY DEF Open, CreateAuthority, SeedIfEmpty, call
<1>2. CInv' /\ RelayView' = RelayView
  BY <1>1, OpenKeepsTypeOK, RelaysRest DEF CInv
<1> QED
  BY <1>2 DEF Open, Dispatch!Open, CreateAuthority, Dispatch!CreateAuthority, SeedIfEmpty,
     Dispatch!SeedIfEmpty, sink, Dispatch!sink

LEMMA ProduceRefines ==
  ASSUME CInv, NEW p \in Producers, Produce(p), UNCHANGED call
  PROVE  CInv' /\ Dispatch!Produce(p)
<1>1. UNCHANGED <<relay, holder, tx, pc, operation, answer, sink>>
  BY DEF Produce, BeginCommit, CommitAuthorityOnly, CommitWithOutbox, RollbackCommit,
     InsertDispatch, LoseDispatch, call
<1>2. CInv' /\ RelayView' = RelayView
  BY <1>1, ProduceKeepsTypeOK, RelaysRest DEF CInv
<1> USE <1>2 DEF Dispatch!Produce, sink, store, Dispatch!sink, Dispatch!store, Becomes,
      Dispatch!Becomes, Idle, Dispatch!Idle, SomeIntent, Dispatch!SomeIntent, Intent,
      Dispatch!Intent, IntentOf, Dispatch!IntentOf, Required, Dispatch!Required, Absent,
      Dispatch!Absent, PendingRow, Dispatch!PendingRow, Opened, Dispatch!Opened, Unopened,
      Dispatch!Unopened
<1>3. ASSUME NEW intent \in Intent, BeginCommit(p, intent) PROVE Dispatch!Produce(p)
  BY <1>3 DEF BeginCommit, Dispatch!BeginCommit
<1>4. ASSUME NEW intent \in Intent, CommitAuthorityOnly(p, intent) PROVE Dispatch!Produce(p)
  BY <1>4 DEF CommitAuthorityOnly, Dispatch!CommitAuthorityOnly
<1>5. CASE CommitWithOutbox(p)
  BY <1>5 DEF CommitWithOutbox, Dispatch!CommitWithOutbox
<1>6. CASE RollbackCommit(p)
  BY <1>6 DEF RollbackCommit, Dispatch!RollbackCommit
<1>7. CASE InsertDispatch(p)
  BY <1>7 DEF InsertDispatch, Dispatch!InsertDispatch
<1>8. CASE LoseDispatch(p)
  BY <1>8 DEF LoseDispatch, Dispatch!LoseDispatch
<1> QED
  BY <1>3, <1>4, <1>5, <1>6, <1>7, <1>8 DEF Produce

\* A record that no relay is to submit again here, none is to submit again there.
LEMMA ExpireRefines ==
  ASSUME CInv, NEW d \in DispatchIds, ExpireRecord(d)
  PROVE  CInv' /\ Dispatch!Expire(d)
<1>1. /\ holder = NoRelay
      /\ ExpiryAllowed(d) /\ window[d] < MaxExpirations
      /\ Sink!Forget(d)
      /\ UNCHANGED <<OutsideSink, relay, crashes, holder, pc, operation, answer>>
  BY DEF ExpireRecord, M4!Expire, Sink!Forget, Sink!Retained
<1>2. Expire(d)
  BY <1>1 DEF Expire, OutsideSink
<1>3. CInv' /\ RelayView' = RelayView
  BY <1>1, <1>2, SinkUsersKeepTypeOK, RelaysRest DEF CInv
<1>4. Dispatch!InFlight(d) => InFlight(d)
  BY DEF Dispatch!InFlight, InFlight, RelayView, Dispatch!DispatchOf, DispatchOf
<1>5. Dispatch!ExpiryAllowed(d)
  BY <1>1, <1>4, RetentionAssumption
  DEF ExpiryAllowed, Dispatch!ExpiryAllowed, RetriesEnded, Dispatch!RetriesEnded, Retentions
<1>6. Dispatch!Sink!Forget(d)
  BY <1>1 DEF Sink!Forget, Dispatch!Sink!Forget, Sink!Retained, Dispatch!Sink!Retained
<1> QED
  BY <1>1, <1>3, <1>5, <1>6 DEF Dispatch!Expire, OutsideSink, store, Dispatch!store

LEMMA OthersRefine ==
  ASSUME CInv, NEW d \in DispatchIds, OthersApply(d)
  PROVE  CInv' /\ \E content \in Contents : Dispatch!ForeignApply(d, content)
<1>1. PICK content \in Contents : ForeignApply(d, content)
  BY DEF OthersApply
<1>2. holder = NoRelay /\ UNCHANGED <<relay, holder, pc, operation, answer>>
  BY <1>1 DEF OthersApply, ForeignApply
<1>3. CInv' /\ RelayView' = RelayView
  BY <1>1, <1>2, SinkUsersKeepTypeOK, RelaysRest DEF CInv
<1>4. Dispatch!ForeignApply(d, content)
  BY <1>1, <1>3 DEF ForeignApply, Dispatch!ForeignApply, Sink!Admit, Dispatch!Sink!Admit,
     Sink!Retained, Dispatch!Sink!Retained, store, Dispatch!store
<1> QED
  BY <1>3, <1>4
-----------------------------------------------------------------------------
LEMMA NextRefines ==
  ASSUME CInv, [CNext]_cvars
  PROVE  CInv' /\ [Dispatch!Next]_Dispatch!vars
<1>1. CASE Open /\ UNCHANGED call
  BY <1>1, OpenRefines DEF Dispatch!Next
<1>2. ASSUME NEW p \in Producers, Produce(p), UNCHANGED call
      PROVE  CInv' /\ [Dispatch!Next]_Dispatch!vars
  BY <1>2, ProduceRefines DEF Dispatch!Next
<1>3. ASSUME NEW r \in Relays, SinkStep(r) \/ SinkCallFails(r) \/ AtStore(r)
      PROVE  CInv' /\ [Dispatch!Next]_Dispatch!vars
  <2>1. CASE InsideSink(r)
    <3>1. CASE M4!Commit(r)
      BY <2>1, <3>1, CommitRefines DEF InsideSink, Dispatch!Next
    <3> QED
      BY <2>1, <3>1, BeginRefines, SelectRefines, InsertEffectRefines, InsertRecordRefines
      DEF InsideSink
  <2>2. CASE SinkReturns(r)
    BY <2>2, ReturnRefines
  <2>3. CASE SinkConflicts(r)
    BY <2>3, ConflictRefines DEF Dispatch!Next
  <2>4. CASE SinkCallFails(r)
    BY <2>4, FailRefines DEF Dispatch!Next
  <2>5. CASE AtStore(r)
    BY <2>5, StoreRefines DEF Dispatch!Next
  <2> QED
    BY <1>3, <2>1, <2>2, <2>3, <2>4, <2>5 DEF SinkStep
<1>4. ASSUME NEW d \in DispatchIds, ExpireRecord(d)
      PROVE  CInv' /\ [Dispatch!Next]_Dispatch!vars
  BY <1>4, ExpireRefines DEF Dispatch!Next
<1>5. ASSUME NEW d \in DispatchIds, OthersApply(d)
      PROVE  CInv' /\ [Dispatch!Next]_Dispatch!vars
  BY <1>5, OthersRefine DEF Dispatch!Next
<1>6. ASSUME NEW d \in DispatchIds, NEW r \in Relays, CallSink(r, d)
      PROVE  CInv' /\ [Dispatch!Next]_Dispatch!vars
  BY <1>6, CallRefines DEF Dispatch!Next, Dispatch!Scan
<1>7. CASE UNCHANGED cvars
  <2>1. UNCHANGED <<vars, holder, tx, pc, operation, answer>>
    BY <1>7 DEF cvars, call
  <2>2. TypeOK'
    BY <2>1, NextKeepsTypeOK DEF CInv
  <2>3. CInv' /\ RelayView' = RelayView
    BY <2>1, <2>2, RelaysRest DEF vars, sink
  <2> QED
    BY <2>1, <2>3 DEF vars, Dispatch!vars
<1> QED
  BY <1>1, <1>2, <1>3, <1>4, <1>5, <1>6, <1>7 DEF CNext

\* The calls that race, wait, fail or die inside the sink are, for DurableDispatch,
\* one step each: of what it shows of dispatches nothing depends on when in a call
\* its statements run.
THEOREM OverSinkImplementsDispatch == CSpec => ImplementsDispatch
<1>1. CInv /\ [CNext]_cvars => CInv' /\ [Dispatch!Next]_Dispatch!vars
  BY NextRefines
<1> QED
  BY <1>1, InitCInv, InitView, PTL DEF CSpec, ImplementsDispatch, Dispatch!Spec
-----------------------------------------------------------------------------
(* What is proved of DurableDispatch, for the relays and the sink they call *)

\* The theorems of DurableDispatch about what it sees of the relays.
Relayed == INSTANCE DurableDispatchProofs WITH relay <- RelayView

\* They are about the same specification as Dispatch: only its name is another.
LEMMA SameInit == Dispatch!Init => Relayed!Init
BY DEF Dispatch!Init, Relayed!Init, Dispatch!SomeIntent, Relayed!SomeIntent, Dispatch!Intent,
       Relayed!Intent, Dispatch!Absent, Relayed!Absent, Dispatch!Sink!Init, Relayed!Sink!Init

LEMMA SameStep == [Dispatch!Next]_Dispatch!vars => [Relayed!Next]_Relayed!vars
BY
DEF Dispatch!Next, Relayed!Next, Dispatch!Open, Relayed!Open, Dispatch!CreateAuthority,
    Relayed!CreateAuthority, Dispatch!SeedIfEmpty, Relayed!SeedIfEmpty, Dispatch!Produce,
    Relayed!Produce, Dispatch!BeginCommit, Relayed!BeginCommit, Dispatch!CommitWithOutbox,
    Relayed!CommitWithOutbox, Dispatch!RollbackCommit, Relayed!RollbackCommit,
    Dispatch!CommitAuthorityOnly, Relayed!CommitAuthorityOnly, Dispatch!InsertDispatch,
    Relayed!InsertDispatch, Dispatch!LoseDispatch, Relayed!LoseDispatch,
    Dispatch!ApplyEffect, Relayed!ApplyEffect, Dispatch!Acknowledge, Relayed!Acknowledge,
    Dispatch!CrashRelay, Relayed!CrashRelay, Dispatch!Scan, Relayed!Scan,
    Dispatch!ReadRecord, Relayed!ReadRecord, Dispatch!Expire, Relayed!Expire,
    Dispatch!RefuseDispatch, Relayed!RefuseDispatch, Dispatch!ForeignApply,
    Relayed!ForeignApply, Dispatch!Becomes, Relayed!Becomes, Dispatch!Idle, Relayed!Idle,
    Dispatch!SomeIntent, Relayed!SomeIntent, Dispatch!Intent, Relayed!Intent,
    Dispatch!IntentOf, Relayed!IntentOf, Dispatch!Required, Relayed!Required,
    Dispatch!PendingRow, Relayed!PendingRow, Dispatch!Absent, Relayed!Absent,
    Dispatch!Opened, Relayed!Opened, Dispatch!Unopened, Relayed!Unopened,
    Dispatch!DispatchOf, Relayed!DispatchOf, Dispatch!Ends, Relayed!Ends, Dispatch!Started,
    Relayed!Started, Dispatch!Effected, Relayed!Effected, Dispatch!RecordsOf,
    Relayed!RecordsOf, Dispatch!InFlight, Relayed!InFlight, Dispatch!RetriesEnded,
    Relayed!RetriesEnded, Dispatch!ExpiryAllowed, Relayed!ExpiryAllowed, Dispatch!sink,
    Relayed!sink, Dispatch!store, Relayed!store, Dispatch!vars, Relayed!vars,
    Dispatch!Sink!Admit, Relayed!Sink!Admit, Dispatch!Sink!Retained, Relayed!Sink!Retained,
    Dispatch!Sink!Forget, Relayed!Sink!Forget

LEMMA SpecCInv == CSpec => []CInv
<1>1. CInv /\ [CNext]_cvars => CInv'
  BY NextRefines
<1> QED
  BY <1>1, InitCInv, PTL DEF CSpec

LEMMA SpecRelayed == CSpec => Relayed!Spec
<1>1. CSpec => Dispatch!Spec
  BY OverSinkImplementsDispatch DEF ImplementsDispatch
<1>2. Dispatch!Spec => Relayed!Spec
  BY SameInit, SameStep, PTL DEF Dispatch!Spec, Relayed!Spec
<1> QED
  BY <1>1, <1>2

\* Their assumptions are those of DurableDispatch.
LEMMA RelayedAssumptions ==
  /\ DispatchIds # {} /\ Contents # {}
  /\ Relayed!IsFiniteSet(DispatchIds) /\ Relayed!IsFiniteSet(Producers)
  /\ NoProducer \notin Producers
  /\ Writes \subseteq {"outbox", "dual_write"}
  /\ Retention \in Relayed!Retentions
  /\ Foreign \subseteq DispatchIds \X Contents
  /\ MaxGeneration \in Nat /\ MaxExpirations \in Nat /\ MaxCrashes \in Nat
BY IntentsAssumption, FiniteAssumption, NoProducerAssumption, WritesAssumption,
   RetentionAssumption, ForeignAssumption, BoundsAssumption
DEF Retentions, Relayed!Retentions, IsFiniteSet, Relayed!IsFiniteSet

\* What the properties are about is what a relay is seen to hold,
LEMMA SeenRelay ==
  ASSUME CInv, NEW r \in Relays
  PROVE  /\ Relayed!DispatchOf(r) = DispatchOf(r)
         /\ RelayView[r].outcome = relay[r].outcome
         /\ relay[r].effect # 0 => RelayView[r].effect = relay[r].effect
<1>1. CASE pc[r] = "committed"
  <2>1. relay[r].effect = 0 /\ relay[r] \in Attempt
    BY <1>1, AttemptTyped DEF CInv, Submitted
  <2> QED
    BY <1>1, <2>1 DEF RelayView, Attempt, Relayed!DispatchOf, DispatchOf
<1>2. CASE pc[r] # "committed"
  BY <1>2 DEF RelayView, Relayed!DispatchOf, DispatchOf
<1> QED
  BY <1>1, <1>2

\* or does not depend on it.
LEMMA SeenStore ==
  /\ Relayed!Rows = Rows /\ Relayed!Halves = Halves /\ Relayed!OwnIds = OwnIds
  /\ \A d : Relayed!EffectsOf(d) = EffectsOf(d)
BY DEF Relayed!Rows, Rows, Relayed!Absent, Absent, Relayed!Halves, Halves, Relayed!OwnIds,
       OwnIds, Relayed!EffectsOf, EffectsOf

\* Whatever its statements interleave with, a dispatch has one visible effect when M4
\* retains its record until its retries have ended, and the relays name that one.
THEOREM OverSinkOneEffect ==
  ASSUME Retention = "until_retries_end"
  PROVE  CSpec => []OneEffectPerDispatch
<1>1. ASSUME CInv, Relayed!OneEffectPerDispatch
      PROVE  OneEffectPerDispatch
  <2>1. SUFFICES ASSUME NEW d \in OwnIds
                 PROVE  /\ \A i, j \in EffectsOf(d) : i = j
                        /\ EffectsOf(d) # {} => d \in Rows
                        /\ \A r \in Relays :
                             /\ DispatchOf(r) = d /\ relay[r].effect # 0
                             /\ outbox[d].status = "acknowledged"
                             => relay[r].effect = outbox[d].effect
    BY DEF OneEffectPerDispatch
  <2>2. d \in Relayed!OwnIds /\ Relayed!EffectsOf(d) = EffectsOf(d) /\ Relayed!Rows = Rows
    BY SeenStore
  <2>3. /\ \A i, j \in EffectsOf(d) : i = j
        /\ EffectsOf(d) # {} => d \in Rows
        /\ \A r \in Relays : /\ Relayed!DispatchOf(r) = d /\ RelayView[r].effect # 0
                             /\ outbox[d].status = "acknowledged"
                             => RelayView[r].effect = outbox[d].effect
    BY <1>1, <2>2 DEF Relayed!OneEffectPerDispatch
  <2>4. ASSUME NEW r \in Relays, relay[r].effect # 0
        PROVE  /\ Relayed!DispatchOf(r) = DispatchOf(r)
               /\ RelayView[r].effect = relay[r].effect
    BY <1>1, <2>4, SeenRelay
  <2> QED
    BY <2>3, <2>4
<1>2. Relayed!Spec => []Relayed!OneEffectPerDispatch
  BY RelayedAssumptions, Relayed!DispatchOneEffect
<1> QED
  BY <1>1, <1>2, SpecCInv, SpecRelayed, PTL

\* However long the records are retained, what is acknowledged is a visible effect of its
\* own, and one relay is told so.
THEOREM OverSinkAcknowledged == CSpec => [](AcknowledgedNamesEffect /\ AcknowledgedOnce)
<1>1. CInv /\ Relayed!AcknowledgedNamesEffect => AcknowledgedNamesEffect
  BY SeenStore DEF Relayed!AcknowledgedNamesEffect, AcknowledgedNamesEffect
<1>2. ASSUME CInv, Relayed!AcknowledgedOnce
      PROVE  AcknowledgedOnce
  <2>1. \A r \in Relays : /\ Relayed!DispatchOf(r) = DispatchOf(r)
                         /\ RelayView[r].outcome = relay[r].outcome
    BY <1>2, SeenRelay
  <2>2. \A r, s \in Relays :
          /\ RelayView[r].outcome = "acknowledged" /\ RelayView[s].outcome = "acknowledged"
          /\ Relayed!DispatchOf(r) = Relayed!DispatchOf(s)
          => r = s
    BY <1>2 DEF Relayed!AcknowledgedOnce
  <2> QED
    BY <2>1, <2>2 DEF AcknowledgedOnce
<1>3. Relayed!Spec => []Relayed!AcknowledgedNamesEffect
  BY RelayedAssumptions, Relayed!DispatchAcknowledgedNamesEffect
<1>4. Relayed!Spec => []Relayed!AcknowledgedOnce
  BY RelayedAssumptions, Relayed!DispatchAcknowledgedOnce
<1> QED
  BY <1>1, <1>2, <1>3, <1>4, SpecCInv, SpecRelayed, PTL

\* The outbox is kept as in DurableDispatch while the relays wait for the sink.
THEOREM OverSinkRequirementsAccounted == CSpec => []RequirementsAccounted
<1>1. CInv /\ Relayed!RequirementsAccounted => RequirementsAccounted
  BY SeenStore DEF Relayed!RequirementsAccounted, RequirementsAccounted, Cardinality,
     Relayed!Cardinality
<1>2. Relayed!Spec => []Relayed!RequirementsAccounted
  BY RelayedAssumptions, Relayed!DispatchRequirementsAccounted
<1> QED
  BY <1>1, <1>2, SpecCInv, SpecRelayed, PTL

\* And an acknowledged row keeps what it names, a pending one its intent, at every step.
THEOREM OverSinkDiscoverable == CSpec => DiscoverableUntilAcknowledged
<1> DEFINE Kept == \A d \in Rows : \/ outbox'[d] = outbox[d]
                                   \/ /\ outbox[d].status = "pending"
                                      /\ outbox'[d].status = "acknowledged"
                                      /\ outbox'[d].content = outbox[d].content
           Same == \A d \in Relayed!Rows : \/ outbox'[d] = outbox[d]
                                           \/ /\ outbox[d].status = "pending"
                                              /\ outbox'[d].status = "acknowledged"
                                              /\ outbox'[d].content = outbox[d].content
<1>1. [Same]_Relayed!vars => [Kept]_vars
  BY DEF Relayed!vars, vars, Relayed!Rows, Rows, Relayed!Absent, Absent
<1>2. Relayed!Spec => [][Same]_Relayed!vars
  BY RelayedAssumptions, Relayed!DispatchDiscoverable DEF Relayed!DiscoverableUntilAcknowledged
<1> QED
  BY <1>1, <1>2, SpecRelayed, PTL DEF DiscoverableUntilAcknowledged

\* So the relays and the sink they call keep the contract of a dispatch, except for its
\* fairness, under the same retention.
THEOREM OverSinkKeepsContract ==
  ASSUME Retention = "until_retries_end"
  PROVE  CSpec => Contract!Init /\ [][Contract!Next]_(Contract!vars)
<1>1. Relayed!Contract!Init => Contract!Init
  BY SeenStore DEF Relayed!Contract!Init, Contract!Init
<1>2. [Relayed!Contract!Next]_(Relayed!Contract!vars) => [Contract!Next]_(Contract!vars)
  BY SeenStore
  DEF Relayed!Contract!Next, Contract!Next, Relayed!Contract!vars, Contract!vars,
      Relayed!Contract!Commit, Contract!Commit, Relayed!Contract!TakeEffect,
      Contract!TakeEffect, Relayed!Contract!Acknowledge, Contract!Acknowledge,
      Relayed!OwnIds, OwnIds, Relayed!EffectsOf, EffectsOf
<1>3. Relayed!Spec => Relayed!Contract!Init /\ [][Relayed!Contract!Next]_(Relayed!Contract!vars)
  BY RelayedAssumptions, Relayed!DispatchImplementsContract
<1> QED
  BY <1>1, <1>2, <1>3, SpecRelayed, PTL
=============================================================================
