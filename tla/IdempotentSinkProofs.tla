------------------------ MODULE IdempotentSinkProofs ------------------------
(***************************************************************************)
(* The safety of the idempotent sink for any callers, ids and contents.    *)
(***************************************************************************)
EXTENDS IdempotentSink, SequenceTheorems, TLAPS

Absent(o) == \A r \in records : r.operation_id # o

\* Exactly the holder of the write lock is inside a transaction.
LockInv == \A c \in Callers : writer = c <=> pc[c] \in InTransaction

RecordOf(c) == [operation_id |-> operation[c].operation_id,
                fingerprint |-> operation_fingerprint(operation[c]),
                effect_sequence |-> Len(effects) + 1]

\* How the writer's copy differs from the committed tables at each statement.
TxInv ==
  /\ (\A c \in Callers : pc[c] \notin {"inserted", "recorded"}) =>
       tx = [effects |-> effects, records |-> records]
  /\ \A c \in Callers :
       /\ pc[c] \in {"absent", "inserted", "recorded"} => Absent(operation[c].operation_id)
       /\ pc[c] \in {"inserted", "recorded"} => tx.effects = Append(effects, EffectOf(c))
       /\ pc[c] = "inserted" => tx.records = records
       /\ pc[c] = "recorded" => tx.records = records \cup {RecordOf(c)}

\* No effect was admitted in a window that has not begun.
WindowsBegun ==
  \A i \in DOMAIN effects : effects[i].window <= window[effects[i].operation_id]

IInv == TypeOK /\ LockInv /\ TxInv /\ WindowsBegun /\ RecordsMatchEffects
-----------------------------------------------------------------------------
\* A row appended to a sequence of rows changes nothing before it.
LEMMA AppendedRow ==
  ASSUME NEW S, NEW s \in Seq(S), NEW e \in S
  PROVE  /\ Append(s, e) \in Seq(S)
         /\ Len(s) \in Nat
         /\ DOMAIN s = 1 .. Len(s)
         /\ Len(Append(s, e)) = Len(s) + 1
         /\ DOMAIN Append(s, e) = 1 .. (Len(s) + 1)
         /\ \A i \in DOMAIN s : Append(s, e)[i] = s[i]
         /\ Append(s, e)[Len(s) + 1] = e
  BY AppendProperties

\* In a state satisfying IInv the rows a call is about to write have their types.
LEMMA RowsTyped ==
  ASSUME IInv, NEW c \in Callers
  PROVE  EffectOf(c) \in EffectRow /\ RecordOf(c) \in RecordRow
<1>1. operation[c] \in LogicalOperation
  BY DEF IInv, TypeOK
<1>2. operation_fingerprint(operation[c]) \in Fingerprints
  BY <1>1 DEF operation_fingerprint, Fingerprints, LogicalOperation
<1>3. window[operation[c].operation_id] \in Nat
  BY <1>1 DEF IInv, TypeOK, LogicalOperation
<1>4. Len(effects) + 1 \in Nat \ {0}
  BY DEF IInv, TypeOK
<1> QED
  BY <1>1, <1>2, <1>3, <1>4 DEF EffectOf, RecordOf, EffectRow, RecordRow, LogicalOperation

LEMMA InitIInv == Init => IInv
<1> SUFFICES ASSUME Init PROVE IInv
  OBVIOUS
<1>1. TypeOK
  BY DEF Init, TypeOK, PC, NoResult, Result, Decision
<1>2. LockInv
  BY NoCallerAssumption DEF Init, LockInv, InTransaction
<1>3. TxInv
  BY DEF Init, TxInv
<1>4. WindowsBegun /\ RecordsMatchEffects
  BY DEF Init, WindowsBegun, RecordsMatchEffects
<1> QED
  BY <1>1, <1>2, <1>3, <1>4 DEF IInv
-----------------------------------------------------------------------------
\* A step that writes no table keeps what relates the tables.
LEMMA TablesKept ==
  ASSUME WindowsBegun, RecordsMatchEffects, UNCHANGED tables
  PROVE  WindowsBegun' /\ RecordsMatchEffects'
  BY DEF tables, WindowsBegun, RecordsMatchEffects

LEMMA SubmitKeepsIInv ==
  ASSUME IInv, NEW c \in Callers, NEW o \in LogicalOperation, Submit(c, o)
  PROVE  IInv'
<1> USE DEF Goto, tables
<1>1. TypeOK'
  BY DEF IInv, TypeOK, Submit, PC, NoResult, Result, Decision
<1>2. LockInv'
  BY DEF IInv, TypeOK, LockInv, Submit, InTransaction
<1>3. TxInv'
  BY DEF IInv, TypeOK, TxInv, Submit, Absent, EffectOf, RecordOf
<1>4. WindowsBegun' /\ RecordsMatchEffects'
  BY TablesKept DEF IInv, Submit
<1> QED
  BY <1>1, <1>2, <1>3, <1>4 DEF IInv

LEMMA BeginKeepsIInv ==
  ASSUME IInv, NEW c \in Callers, BeginImmediate(c)
  PROVE  IInv'
<1> USE DEF Goto, tables
<1>1. TypeOK'
  BY DEF IInv, TypeOK, BeginImmediate, PC, InTransaction
<1>2. LockInv'
  BY NoCallerAssumption DEF IInv, TypeOK, LockInv, BeginImmediate, InTransaction
<1>3. TxInv'
  BY NoCallerAssumption DEF IInv, TypeOK, LockInv, TxInv, BeginImmediate, InTransaction,
     Absent, EffectOf, RecordOf
<1>4. WindowsBegun' /\ RecordsMatchEffects'
  BY TablesKept DEF IInv, BeginImmediate
<1> QED
  BY <1>1, <1>2, <1>3, <1>4 DEF IInv

LEMMA SelectKeepsIInv ==
  ASSUME IInv, NEW c \in Callers, SelectRecord(c)
  PROVE  IInv'
<1> USE DEF Goto, tables, Replay
<1>0. writer = c /\ \A d \in Callers : pc[d] \in InTransaction => d = c
  BY DEF IInv, LockInv, SelectRecord, InTransaction
<1>1. tx = [effects |-> effects, records |-> records]
  BY <1>0 DEF IInv, TxInv, SelectRecord, InTransaction
<1>2. TypeOK'
  <2>1. pc' \in [Callers -> PC]
    BY DEF IInv, TypeOK, SelectRecord, PC, InTransaction
  <2>2. answer' \in [Callers -> Result]
    <3>1. CASE UNCHANGED answer
      BY <3>1 DEF IInv, TypeOK
    <3>2. CASE \E r \in Rows(operation[c].operation_id) : Replay(c, r, "replayed")
      <4>1. PICK r \in records : Replay(c, r, "replayed")
        BY <3>2, <1>1 DEF Rows
      <4>2. r.effect_sequence \in Nat
        BY DEF IInv, TypeOK, RecordRow
      <4> QED
        BY <4>1, <4>2 DEF IInv, TypeOK, Result, Decision
    <3> QED
      BY <3>1, <3>2 DEF SelectRecord
  <2> QED
    BY <2>1, <2>2 DEF IInv, TypeOK, SelectRecord
<1>3. LockInv'
  BY <1>0 DEF IInv, TypeOK, LockInv, SelectRecord, InTransaction
<1>4. TxInv'
  <2>1. pc'[c] = "absent" => Absent(operation[c].operation_id)
    BY <1>1 DEF IInv, TypeOK, SelectRecord, Rows, Absent
  <2>2. pc'[c] \in {"absent", "conflicting", "replaying"}
    BY DEF IInv, TypeOK, SelectRecord
  <2> QED
    BY <1>0, <1>1, <2>1, <2>2
    DEF IInv, TypeOK, TxInv, SelectRecord, Absent, EffectOf, RecordOf, InTransaction
<1>5. WindowsBegun' /\ RecordsMatchEffects'
  BY TablesKept DEF IInv, SelectRecord
<1> QED
  BY <1>2, <1>3, <1>4, <1>5 DEF IInv

LEMMA InsertEffectKeepsIInv ==
  ASSUME IInv, NEW c \in Callers, InsertEffect(c)
  PROVE  IInv'
<1> USE DEF Goto, tables
<1>0. writer = c /\ \A d \in Callers : pc[d] \in InTransaction => d = c
  BY DEF IInv, LockInv, InsertEffect, InTransaction
<1>1. tx = [effects |-> effects, records |-> records]
  BY <1>0 DEF IInv, TxInv, InsertEffect, InTransaction
<1>2. tx' = [effects |-> Append(effects, EffectOf(c)), records |-> records]
  BY <1>1 DEF InsertEffect
<1>3. TypeOK'
  <2>1. Append(effects, EffectOf(c)) \in Seq(EffectRow)
    BY RowsTyped, AppendedRow DEF IInv, TypeOK
  <2>2. pc' \in [Callers -> PC]
    BY DEF IInv, TypeOK, InsertEffect, PC, InTransaction
  <2>3. tx' \in [effects : Seq(EffectRow), records : SUBSET RecordRow]
    BY <1>2, <2>1 DEF IInv, TypeOK
  <2> QED
    BY <2>2, <2>3 DEF IInv, TypeOK, InsertEffect
<1>4. LockInv'
  BY <1>0 DEF IInv, TypeOK, LockInv, InsertEffect, InTransaction
<1>5. TxInv'
  BY <1>0, <1>2
  DEF IInv, TypeOK, TxInv, InsertEffect, Absent, EffectOf, RecordOf, InTransaction
<1>6. WindowsBegun' /\ RecordsMatchEffects'
  BY TablesKept DEF IInv, InsertEffect
<1> QED
  BY <1>3, <1>4, <1>5, <1>6 DEF IInv

LEMMA InsertRecordKeepsIInv ==
  ASSUME IInv, NEW c \in Callers, InsertRecord(c)
  PROVE  IInv'
<1> USE DEF Goto, tables
<1>0. writer = c /\ \A d \in Callers : pc[d] \in InTransaction => d = c
  BY DEF IInv, LockInv, InsertRecord, InTransaction
<1>1. tx.effects = Append(effects, EffectOf(c)) /\ tx.records = records
  BY DEF IInv, TxInv, InsertRecord
<1>2. Len(tx.effects) = Len(effects) + 1
  BY <1>1, RowsTyped, AppendedRow DEF IInv, TypeOK
<1>3. tx'.effects = Append(effects, EffectOf(c)) /\ tx'.records = records \cup {RecordOf(c)}
  BY <1>1, <1>2 DEF InsertRecord, RecordOf, IInv, TypeOK
<1>4. TypeOK'
  <2>1. tx' \in [effects : Seq(EffectRow), records : SUBSET RecordRow]
    <3>1. tx' = [tx EXCEPT !.records = records \cup {RecordOf(c)}]
      BY <1>1, <1>2 DEF InsertRecord, RecordOf
    <3> QED
      BY <3>1, RowsTyped DEF IInv, TypeOK
  <2>2. pc' \in [Callers -> PC]
    BY DEF IInv, TypeOK, InsertRecord, PC, InTransaction
  <2>3. Len(tx.effects) \in Nat
    BY <1>2 DEF IInv, TypeOK
  <2>4. answer' \in [Callers -> Result]
    BY <2>3 DEF IInv, TypeOK, InsertRecord, Result, Decision
  <2> QED
    BY <2>1, <2>2, <2>4 DEF IInv, TypeOK, InsertRecord
<1>5. LockInv'
  BY <1>0 DEF IInv, TypeOK, LockInv, InsertRecord, InTransaction
<1>6. TxInv'
  BY <1>0, <1>3
  DEF IInv, TypeOK, TxInv, InsertRecord, Absent, EffectOf, RecordOf, InTransaction
<1>7. WindowsBegun' /\ RecordsMatchEffects'
  BY TablesKept DEF IInv, InsertRecord
<1> QED
  BY <1>4, <1>5, <1>6, <1>7 DEF IInv

\* The tables after the commit of an effect: one new effect, named by one new record.
LEMMA CommittedTables ==
  ASSUME IInv, NEW c \in Callers, Commit(c)
  PROVE  \/ pc[c] = "replaying" /\ UNCHANGED tables
         \/ /\ pc[c] = "recorded"
            /\ Absent(operation[c].operation_id)
            /\ effects' = Append(effects, EffectOf(c))
            /\ records' = records \cup {RecordOf(c)}
            /\ window' = window
<1> USE DEF tables
<1>0. writer = c /\ \A d \in Callers : pc[d] \in InTransaction => d = c
  BY DEF IInv, LockInv, Commit, InTransaction
<1>1. CASE pc[c] = "replaying"
  <2>1. tx = [effects |-> effects, records |-> records]
    BY <1>0, <1>1 DEF IInv, TxInv, InTransaction
  <2> QED
    BY <1>1, <2>1 DEF Commit
<1>2. CASE pc[c] = "recorded"
  BY <1>2 DEF IInv, TxInv, Commit
<1> QED
  BY <1>1, <1>2 DEF Commit

LEMMA CommitKeepsIInv ==
  ASSUME IInv, NEW c \in Callers, Commit(c)
  PROVE  IInv'
<1> USE DEF Goto, tables
<1>0. writer = c /\ \A d \in Callers : pc[d] \in InTransaction => d = c
  BY DEF IInv, LockInv, Commit, InTransaction
<1>1. TypeOK'
  BY DEF IInv, TypeOK, Commit, Unlock, PC
<1>2. LockInv'
  BY <1>0, NoCallerAssumption DEF IInv, TypeOK, LockInv, Commit, Unlock, InTransaction
<1>3. TxInv'
  <2>1. tx' = [effects |-> effects', records |-> records']
    BY DEF IInv, TypeOK, Commit
  <2>2. \A d \in Callers : pc'[d] \notin InTransaction
    BY <1>0 DEF IInv, TypeOK, Commit, InTransaction
  <2> QED
    BY <2>1, <2>2 DEF TxInv, InTransaction
<1>4. CASE UNCHANGED tables
  BY <1>1, <1>2, <1>3, <1>4, TablesKept DEF IInv
<1>5. CASE /\ Absent(operation[c].operation_id)
           /\ effects' = Append(effects, EffectOf(c))
           /\ records' = records \cup {RecordOf(c)}
           /\ window' = window
  <2> DEFINE n == Len(effects) + 1
             o == operation[c].operation_id
  <2>1. /\ n \in Nat /\ DOMAIN effects = 1 .. (n - 1) /\ DOMAIN effects' = 1 .. n
        /\ \A i \in DOMAIN effects : effects'[i] = effects[i]
        /\ effects'[n] = EffectOf(c)
    BY <1>5, RowsTyped, AppendedRow DEF IInv, TypeOK
  <2>2. \A i \in DOMAIN effects' : i = n \/ i \in DOMAIN effects
    BY <2>1
  <2>3. window[o] \in Nat /\ EffectOf(c).window = window[o] /\ EffectOf(c).operation_id = o
    BY DEF EffectOf, IInv, TypeOK, LogicalOperation
  <2>4. WindowsBegun'
    BY <1>5, <2>1, <2>2, <2>3 DEF IInv, WindowsBegun
  <2>5. RecordOf(c).effect_sequence = n /\ n \in DOMAIN effects'
    BY <2>1 DEF RecordOf
  <2>6. RecordsMatchEffects'
    <3>1. ASSUME NEW r \in records'
          PROVE  /\ r.effect_sequence \in DOMAIN effects'
                 /\ effects'[r.effect_sequence] = [operation_id |-> r.operation_id,
                                                   fingerprint |-> r.fingerprint,
                                                   window |-> window'[r.operation_id]]
      <4>1. CASE r \in records
        <5>1. r.effect_sequence \in DOMAIN effects
          BY <4>1 DEF IInv, RecordsMatchEffects
        <5> QED
          BY <1>5, <2>1, <4>1, <5>1 DEF IInv, RecordsMatchEffects
      <4>2. CASE r = RecordOf(c)
        BY <1>5, <2>1, <2>5, <4>2 DEF RecordOf, EffectOf
      <4> QED
        BY <1>5, <4>1, <4>2
    <3>2. ASSUME NEW i \in DOMAIN effects',
                 effects'[i].window = window'[effects'[i].operation_id]
          PROVE  \E r \in records' : r.effect_sequence = i
      <4>1. CASE i = n
        BY <1>5, <2>5, <4>1
      <4>2. CASE i \in DOMAIN effects
        BY <1>5, <2>1, <3>2, <4>2 DEF IInv, RecordsMatchEffects
      <4> QED
        BY <2>2, <4>1, <4>2
    <3> QED
      BY <3>1, <3>2 DEF RecordsMatchEffects
  <2> QED
    BY <1>1, <1>2, <1>3, <2>4, <2>6 DEF IInv
<1> QED
  BY <1>4, <1>5, CommittedTables

\* Both ways out of a transaction that commits nothing: a conflict and a failure.
LEMMA RollbackKeepsIInv ==
  ASSUME IInv, NEW c \in Callers, NEW decision \in Decision,
         pc[c] \in InTransaction, Rollback(c), Ends(c, decision), UNCHANGED operation
  PROVE  IInv'
<1> USE DEF Goto, tables
<1>0. writer = c /\ \A d \in Callers : pc[d] \in InTransaction => d = c
  BY DEF IInv, LockInv
<1>1. TypeOK'
  BY DEF IInv, TypeOK, Rollback, Unlock, Ends, PC, Result
<1>2. LockInv'
  BY <1>0, NoCallerAssumption
  DEF IInv, TypeOK, LockInv, Rollback, Unlock, Ends, InTransaction
<1>3. TxInv'
  BY <1>0 DEF IInv, TypeOK, TxInv, Rollback, Ends, InTransaction
<1>4. WindowsBegun' /\ RecordsMatchEffects'
  BY TablesKept DEF IInv, Rollback
<1> QED
  BY <1>1, <1>2, <1>3, <1>4 DEF IInv

\* The ways out of a call that is not in a transaction.
LEMMA OutsideKeepsIInv ==
  ASSUME IInv, NEW c \in Callers, BusyTimeout(c) \/ CrashOutside(c) \/ Return(c)
  PROVE  IInv'
<1> USE DEF Goto, tables
<1>1. TypeOK'
  <2>1. CASE Return(c)
    BY <2>1 DEF IInv, TypeOK, Return, PC
  <2>2. CASE Ends(c, "lost") /\ UNCHANGED <<tables, writer, tx, operation>>
    <3>1. answer' \in [Callers -> Result]
      BY <2>2 DEF IInv, TypeOK, Ends, Result, Decision
    <3>2. pc' \in [Callers -> PC]
      BY <2>2 DEF IInv, TypeOK, Ends, PC
    <3> QED
      BY <2>2, <3>1, <3>2 DEF IInv, TypeOK
  <2> QED
    BY <2>1, <2>2 DEF BusyTimeout, CrashOutside
<1>2. LockInv'
  BY DEF IInv, TypeOK, LockInv, BusyTimeout, CrashOutside, Return, Ends, InTransaction
<1>3. TxInv'
  BY DEF IInv, TypeOK, TxInv, BusyTimeout, CrashOutside, Return, Ends, Absent,
     EffectOf, RecordOf
<1>4. WindowsBegun' /\ RecordsMatchEffects'
  BY TablesKept DEF IInv, BusyTimeout, CrashOutside, Return
<1> QED
  BY <1>1, <1>2, <1>3, <1>4 DEF IInv

LEMMA ExpireKeepsIInv ==
  ASSUME IInv, NEW o \in OperationIds, Expire(o)
  PROVE  IInv'
<1>0. \A d \in Callers : pc[d] \notin InTransaction
  BY NoCallerAssumption DEF IInv, LockInv, Expire
<1>1. tx' = [effects |-> effects', records |-> records']
  BY <1>0 DEF IInv, TxInv, Expire, InTransaction
<1>2. /\ records' = {r \in records : r.operation_id # o}
      /\ effects' = effects
      /\ window' \in [OperationIds -> Nat]
      /\ window'[o] = window[o] + 1
      /\ \A p \in OperationIds \ {o} : window'[p] = window[p]
  BY DEF IInv, TypeOK, Expire
<1>3. \A i \in DOMAIN effects : effects[i] \in EffectRow
  BY DEF IInv, TypeOK
<1>4. TypeOK'
  <2>1. tx' \in [effects : Seq(EffectRow), records : SUBSET RecordRow]
    BY <1>1, <1>2 DEF IInv, TypeOK
  <2> QED
    BY <1>2, <2>1 DEF IInv, TypeOK, Expire
<1>5. LockInv'
  BY DEF IInv, LockInv, Expire
<1>6. TxInv'
  BY <1>0, <1>1 DEF TxInv, Expire, InTransaction
<1>7. WindowsBegun'
  <2>1. ASSUME NEW i \in DOMAIN effects
        PROVE  effects[i].window <= window'[effects[i].operation_id]
    <3>1. effects[i].operation_id \in OperationIds /\ effects[i].window \in Nat
      BY <1>3 DEF EffectRow
    <3>2. effects[i].window <= window[effects[i].operation_id]
      BY DEF IInv, WindowsBegun
    <3>3. window[o] \in Nat
      BY DEF IInv, TypeOK
    <3> QED
      BY <1>2, <3>1, <3>2, <3>3
  <2> QED
    BY <1>2, <2>1 DEF WindowsBegun
<1>8. RecordsMatchEffects'
  <2>1. ASSUME NEW r \in records'
        PROVE  /\ r.effect_sequence \in DOMAIN effects'
               /\ effects'[r.effect_sequence] = [operation_id |-> r.operation_id,
                                                 fingerprint |-> r.fingerprint,
                                                 window |-> window'[r.operation_id]]
    <3>1. r \in records /\ r.operation_id \in OperationIds \ {o}
      BY <1>2 DEF IInv, TypeOK, RecordRow
    <3> QED
      BY <1>2, <3>1 DEF IInv, RecordsMatchEffects
  <2>2. ASSUME NEW i \in DOMAIN effects',
               effects'[i].window = window'[effects'[i].operation_id]
        PROVE  \E r \in records' : r.effect_sequence = i
    <3>1. i \in DOMAIN effects /\ effects[i].operation_id # o
      BY <1>2, <1>3, <2>2 DEF IInv, TypeOK, WindowsBegun, EffectRow
    <3>2. effects[i].window = window[effects[i].operation_id]
      BY <1>2, <1>3, <2>2, <3>1 DEF EffectRow
    <3>3. PICK r \in records : r.effect_sequence = i
      BY <3>1, <3>2 DEF IInv, RecordsMatchEffects
    <3>4. effects[r.effect_sequence] = [operation_id |-> r.operation_id,
                                        fingerprint |-> r.fingerprint,
                                        window |-> window[r.operation_id]]
      BY DEF IInv, RecordsMatchEffects
    <3>5. r.operation_id = effects[i].operation_id
      BY <3>3, <3>4
    <3> QED
      BY <1>2, <3>1, <3>3, <3>5
  <2> QED
    BY <2>1, <2>2 DEF RecordsMatchEffects
<1> QED
  BY <1>4, <1>5, <1>6, <1>7, <1>8 DEF IInv
-----------------------------------------------------------------------------
LEMMA NextKeepsIInv == IInv /\ [Next]_vars => IInv'
<1> SUFFICES ASSUME IInv, [Next]_vars PROVE IInv'
  OBVIOUS
<1>1. CASE UNCHANGED vars
  <2>1. UNCHANGED <<effects, records, window, writer, tx, pc, operation, answer>>
    BY <1>1 DEF vars
  <2>2. TypeOK' /\ LockInv' /\ WindowsBegun' /\ RecordsMatchEffects'
    BY <2>1 DEF IInv, TypeOK, LockInv, WindowsBegun, RecordsMatchEffects
  <2>3. TxInv'
    BY <2>1 DEF IInv, TxInv, Absent, EffectOf, RecordOf
  <2> QED
    BY <2>2, <2>3 DEF IInv
<1>2. ASSUME NEW o \in OperationIds, Expire(o) PROVE IInv'
  BY <1>2, ExpireKeepsIInv
<1>3. ASSUME NEW c \in Callers, NEW o \in LogicalOperation, Submit(c, o) PROVE IInv'
  BY <1>3, SubmitKeepsIInv
<1>4. ASSUME NEW c \in Callers, FailInTransaction(c) PROVE IInv'
  BY <1>4, RollbackKeepsIInv DEF FailInTransaction, Decision
<1>5. ASSUME NEW c \in Callers, RaiseConflict(c) PROVE IInv'
  BY <1>5, RollbackKeepsIInv DEF RaiseConflict, InTransaction, Decision
<1>6. ASSUME NEW c \in Callers, BusyTimeout(c) \/ CrashOutside(c) \/ Return(c) PROVE IInv'
  BY <1>6, OutsideKeepsIInv
<1>7. ASSUME NEW c \in Callers,
             BeginImmediate(c) \/ SelectRecord(c) \/ InsertEffect(c)
               \/ InsertRecord(c) \/ Commit(c)
      PROVE  IInv'
  BY <1>7, BeginKeepsIInv, SelectKeepsIInv, InsertEffectKeepsIInv,
     InsertRecordKeepsIInv, CommitKeepsIInv
<1> QED
  BY <1>1, <1>2, <1>3, <1>4, <1>5, <1>6, <1>7 DEF Next, Step

THEOREM SpecIInv == Spec => []IInv
  BY InitIInv, NextKeepsIInv, PTL DEF Spec

\* The variables of the sink keep their types.
THEOREM SinkTypeOK == Spec => []TypeOK
<1>1. IInv => TypeOK
  BY DEF IInv
<1> QED
  BY <1>1, SpecIInv, PTL

\* The records and the effects they name always agree, whatever fails.
THEOREM SinkRecordsMatchEffects == Spec => []RecordsMatchEffects
<1>1. IInv => RecordsMatchEffects
  BY DEF IInv
<1> QED
  BY <1>1, SpecIInv, PTL
-----------------------------------------------------------------------------
\* What a step can do to the tables: nothing, forget one record, or commit one
\* effect of an id whose record is absent together with its record.
LEMMA TableSteps ==
  ASSUME IInv, [Next]_vars
  PROVE  \/ UNCHANGED tables
         \/ \E o \in OperationIds : Expire(o)
         \/ \E c \in Callers :
              /\ Commit(c) /\ pc[c] = "recorded"
              /\ Absent(operation[c].operation_id)
              /\ effects' = Append(effects, EffectOf(c))
              /\ records' = records \cup {RecordOf(c)}
              /\ window' = window
<1>1. CASE UNCHANGED vars
  BY <1>1 DEF vars, tables
<1>2. CASE \E o \in OperationIds : Expire(o)
  BY <1>2
<1>3. ASSUME NEW c \in Callers, NEW o \in LogicalOperation, Submit(c, o)
      PROVE  UNCHANGED tables
  BY <1>3 DEF Submit
<1>4. ASSUME NEW c \in Callers, FailInTransaction(c) \/ CrashOutside(c)
      PROVE  UNCHANGED tables
  BY <1>4 DEF FailInTransaction, CrashOutside, Rollback
<1>5. ASSUME NEW c \in Callers, Step(c), ~Commit(c)
      PROVE  UNCHANGED tables
  BY <1>5 DEF Step, BeginImmediate, BusyTimeout, SelectRecord, InsertEffect, InsertRecord,
     RaiseConflict, Rollback, Return
<1>6. ASSUME NEW c \in Callers, Commit(c)
      PROVE  \/ UNCHANGED tables
             \/ /\ pc[c] = "recorded"
                /\ Absent(operation[c].operation_id)
                /\ effects' = Append(effects, EffectOf(c))
                /\ records' = records \cup {RecordOf(c)}
                /\ window' = window
  BY <1>6, CommittedTables
<1> QED
  BY <1>1, <1>2, <1>3, <1>4, <1>5, <1>6 DEF Next

LEMMA NextKeepsAtMostOne ==
  ASSUME IInv, AtMostOneEffectPerWindow, [Next]_vars
  PROVE  AtMostOneEffectPerWindow'
<1>1. CASE UNCHANGED effects
  BY <1>1 DEF AtMostOneEffectPerWindow
<1>2. ASSUME NEW c \in Callers,
             Absent(operation[c].operation_id),
             effects' = Append(effects, EffectOf(c))
      PROVE  AtMostOneEffectPerWindow'
  <2> DEFINE n == Len(effects) + 1
             o == operation[c].operation_id
  <2>1. /\ n \in Nat /\ DOMAIN effects = 1 .. (n - 1) /\ DOMAIN effects' = 1 .. n
        /\ \A i \in DOMAIN effects : effects'[i] = effects[i]
        /\ effects'[n] = EffectOf(c)
    BY <1>2, RowsTyped, AppendedRow DEF IInv, TypeOK
  <2>2. EffectOf(c).operation_id = o /\ EffectOf(c).window = window[o]
    BY DEF EffectOf
  <2>3. \A i \in DOMAIN effects : effects[i].operation_id = o => effects[i].window # window[o]
    <3> SUFFICES ASSUME NEW i \in DOMAIN effects,
                        effects[i].operation_id = o, effects[i].window = window[o]
                 PROVE  FALSE
      OBVIOUS
    <3>1. PICK r \in records : r.effect_sequence = i
      BY DEF IInv, RecordsMatchEffects
    <3>2. effects[r.effect_sequence] = [operation_id |-> r.operation_id,
                                        fingerprint |-> r.fingerprint,
                                        window |-> window[r.operation_id]]
      BY DEF IInv, RecordsMatchEffects
    <3>3. r.operation_id = o
      BY <3>1, <3>2
    <3> QED
      BY <1>2, <3>3 DEF Absent
  <2>4. ASSUME NEW i \in DOMAIN effects', NEW j \in DOMAIN effects',
               effects'[i].operation_id = effects'[j].operation_id,
               effects'[i].window = effects'[j].window
        PROVE  i = j
    <3>1. \A k \in DOMAIN effects' : k = n \/ k \in DOMAIN effects
      BY <2>1
    <3>2. CASE i = n /\ j = n
      BY <3>2
    <3>3. CASE i = n /\ j \in DOMAIN effects
      BY <2>1, <2>2, <2>3, <2>4, <3>3
    <3>4. CASE j = n /\ i \in DOMAIN effects
      BY <2>1, <2>2, <2>3, <2>4, <3>4
    <3>5. CASE i \in DOMAIN effects /\ j \in DOMAIN effects
      BY <2>1, <2>4, <3>5 DEF AtMostOneEffectPerWindow
    <3> QED
      BY <3>1, <3>2, <3>3, <3>4, <3>5
  <2> QED
    BY <2>4 DEF AtMostOneEffectPerWindow
<1> QED
  BY <1>1, <1>2, TableSteps DEF tables, Expire

\* The guarantee of M4, for any number of callers and retries: while its record
\* is retained, an operation id has at most one visible effect.
THEOREM SinkAtMostOneEffect == Spec => []AtMostOneEffectPerWindow
<1>1. Init => AtMostOneEffectPerWindow
  BY DEF Init, AtMostOneEffectPerWindow
<1>2. IInv /\ AtMostOneEffectPerWindow /\ [Next]_vars => AtMostOneEffectPerWindow'
  BY NextKeepsAtMostOne
<1> QED
  BY <1>1, <1>2, SpecIInv, PTL DEF Spec

\* The sink implements the abstract effect boundary: a commit of an effect is an
\* Admit, an expiration a Forget, and every other step changes nothing a reader
\* of the tables can see.
THEOREM SinkImplementsBoundary == Spec => ImplementsBoundary
<1>1. Init => Boundary!Init
  BY DEF Init, Boundary!Init
<1>2. IInv /\ [Next]_vars => [Boundary!Next]_(Boundary!vars)
  <2> SUFFICES ASSUME IInv, [Next]_vars PROVE [Boundary!Next]_(Boundary!vars)
    OBVIOUS
  <2>1. CASE UNCHANGED tables
    BY <2>1 DEF tables, Boundary!vars
  <2>2. ASSUME NEW o \in OperationIds, Expire(o)
        PROVE  Boundary!Next
    BY <2>2 DEF Expire, Boundary!Next, Boundary!Forget, Boundary!Retained
  <2>3. ASSUME NEW c \in Callers,
               Absent(operation[c].operation_id),
               effects' = Append(effects, EffectOf(c)),
               records' = records \cup {RecordOf(c)},
               window' = window
        PROVE  Boundary!Next
    <3> DEFINE o == operation[c].operation_id
               f == operation_fingerprint(operation[c])
    <3>1. o \in OperationIds /\ f \in Fingerprints
      <4>1. operation[c] \in LogicalOperation
        BY DEF IInv, TypeOK
      <4> QED
        BY <4>1 DEF LogicalOperation, operation_fingerprint, Fingerprints
    <3>2. Boundary!Admit(o, f)
      BY <2>3 DEF Boundary!Admit, Boundary!Retained, Absent, EffectOf, RecordOf
    <3> QED
      BY <3>1, <3>2 DEF Boundary!Next
  <2> QED
    BY <2>1, <2>2, <2>3, TableSteps
<1> QED
  BY <1>1, <1>2, SpecIInv, PTL DEF Spec, ImplementsBoundary, Boundary!Spec
-----------------------------------------------------------------------------
Answered(c) == pc[c] \in {"idle", "committed"} /\ answer[c].decision \in {"applied", "replayed"}

NamesEffect(c) ==
  /\ answer[c].effect_sequence \in DOMAIN effects
  /\ effects[answer[c].effect_sequence].operation_id = operation[c].operation_id
  /\ effects[answer[c].effect_sequence].fingerprint = operation_fingerprint(operation[c])

\* What the answer will be when the transaction under way commits.
PendingAnswers ==
  \A c \in Callers :
    /\ pc[c] = "recorded" =>
         answer[c] = [decision |-> "applied", effect_sequence |-> Len(effects) + 1]
    /\ pc[c] = "replaying" => answer[c].decision = "replayed" /\ NamesEffect(c)

AnswerInv == PendingAnswers /\ AnswerNamesVisibleEffect /\ AppliedOnce

\* Visible effects are never lost or changed.
LEMMA EffectsGrow ==
  ASSUME IInv, [Next]_vars
  PROVE  /\ DOMAIN effects \subseteq DOMAIN effects'
         /\ \A i \in DOMAIN effects : effects'[i] = effects[i]
<1>1. CASE UNCHANGED effects
  BY <1>1
<1>2. ASSUME NEW c \in Callers, effects' = Append(effects, EffectOf(c))
      PROVE  /\ DOMAIN effects \subseteq DOMAIN effects'
             /\ \A i \in DOMAIN effects : effects'[i] = effects[i]
  BY <1>2, RowsTyped, AppendedRow DEF IInv, TypeOK
<1> QED
  BY <1>1, <1>2, TableSteps DEF tables, Expire

\* A step is taken by one caller, who alone moves, or by nobody.
LEMMA OneCallerMoves ==
  ASSUME IInv, [Next]_vars
  PROVE  \/ UNCHANGED <<effects, pc, operation, answer>>
         \/ \E c \in Callers :
              /\ \/ Step(c) \/ FailInTransaction(c) \/ CrashOutside(c)
                 \/ \E o \in LogicalOperation : Submit(c, o)
              /\ \A d \in Callers \ {c} :
                   pc'[d] = pc[d] /\ operation'[d] = operation[d] /\ answer'[d] = answer[d]
<1>1. CASE UNCHANGED vars \/ \E o \in OperationIds : Expire(o)
  BY <1>1 DEF vars, Expire
<1>2. ASSUME NEW c \in Callers,
             \/ Step(c) \/ FailInTransaction(c) \/ CrashOutside(c)
             \/ \E o \in LogicalOperation : Submit(c, o)
      PROVE  \A d \in Callers \ {c} :
               pc'[d] = pc[d] /\ operation'[d] = operation[d] /\ answer'[d] = answer[d]
  <2> USE DEF IInv, TypeOK, Goto, Ends
  <2>1. CASE FailInTransaction(c) \/ CrashOutside(c)
    BY <2>1 DEF FailInTransaction, CrashOutside
  <2>2. CASE \E o \in LogicalOperation : Submit(c, o)
    BY <2>2 DEF Submit
  <2>3. CASE BeginImmediate(c) \/ BusyTimeout(c) \/ InsertEffect(c) \/ InsertRecord(c)
    BY <2>3 DEF BeginImmediate, BusyTimeout, InsertEffect, InsertRecord
  <2>4. CASE SelectRecord(c)
    BY <2>4 DEF SelectRecord, Replay
  <2>5. CASE Commit(c) \/ RaiseConflict(c) \/ Return(c)
    BY <2>5 DEF Commit, RaiseConflict, Return
  <2> QED
    BY <1>2, <2>1, <2>2, <2>3, <2>4, <2>5 DEF Step
<1> QED
  BY <1>1, <1>2 DEF Next

\* What the moving caller knows after its step.
LEMMA MoverAnswer ==
  ASSUME IInv, AnswerInv, NEW c \in Callers,
         \/ Step(c) \/ FailInTransaction(c) \/ CrashOutside(c)
         \/ \E o \in LogicalOperation : Submit(c, o)
  PROVE  \/ ~Answered(c)' /\ pc'[c] \notin {"recorded", "replaying"}
         \/ /\ pc'[c] = "recorded" /\ effects' = effects
            /\ answer'[c] = [decision |-> "applied", effect_sequence |-> Len(effects) + 1]
         \/ pc'[c] = "replaying" /\ answer'[c].decision = "replayed" /\ NamesEffect(c)'
         \/ /\ Answered(c)' /\ UNCHANGED <<operation, answer, effects>>
            /\ Answered(c) \/ (pc[c] = "replaying" /\ answer[c].decision = "replayed")
         \/ /\ Answered(c)' /\ UNCHANGED <<operation, answer>>
            /\ effects' = Append(effects, EffectOf(c))
            /\ answer[c] = [decision |-> "applied", effect_sequence |-> Len(effects) + 1]
<1> USE DEF Goto, Answered
<1>0. pc \in [Callers -> PC] /\ answer \in [Callers -> Result]
  BY DEF IInv, TypeOK
<1>1. CASE FailInTransaction(c) \/ CrashOutside(c) \/ BusyTimeout(c) \/ RaiseConflict(c)
  BY <1>0, <1>1 DEF FailInTransaction, CrashOutside, BusyTimeout, RaiseConflict, Ends
<1>2. CASE (\E o \in LogicalOperation : Submit(c, o)) \/ BeginImmediate(c) \/ InsertEffect(c)
  BY <1>0, <1>2 DEF Submit, BeginImmediate, InsertEffect
<1>3. CASE InsertRecord(c)
  <2>1. Len(tx.effects) = Len(effects) + 1
    BY <1>3, RowsTyped, AppendedRow DEF IInv, TypeOK, TxInv, InsertRecord
  <2> QED
    BY <1>0, <1>3, <2>1 DEF InsertRecord, tables
<1>4. CASE SelectRecord(c)
  <2>1. CASE UNCHANGED answer /\ pc'[c] \in {"absent", "conflicting"}
    BY <2>1
  <2>2. ASSUME NEW r \in Rows(operation[c].operation_id),
               r.fingerprint = operation_fingerprint(operation[c]), Replay(c, r, "replayed")
        PROVE  pc'[c] = "replaying" /\ answer'[c].decision = "replayed" /\ NamesEffect(c)'
    <3>1. \A d \in Callers : pc[d] \in InTransaction => d = c
      BY <1>4 DEF IInv, LockInv, SelectRecord, InTransaction
    <3>2. tx.records = records
      BY <1>4, <3>1 DEF IInv, TxInv, SelectRecord, InTransaction
    <3>3. r \in records /\ r.operation_id = operation[c].operation_id
      BY <3>2 DEF Rows
    <3>4. /\ r.effect_sequence \in DOMAIN effects
          /\ effects[r.effect_sequence] = [operation_id |-> r.operation_id,
                                           fingerprint |-> r.fingerprint,
                                           window |-> window[r.operation_id]]
      BY <3>3 DEF IInv, RecordsMatchEffects
    <3>5. pc'[c] = "replaying" /\ answer'[c] = [decision |-> "replayed",
                                                effect_sequence |-> r.effect_sequence]
      BY <1>0, <2>2 DEF Replay
    <3>6. effects' = effects /\ operation' = operation
      BY <1>4 DEF SelectRecord, tables
    <3> QED
      BY <2>2, <3>3, <3>4, <3>5, <3>6 DEF NamesEffect
  <2>3. \/ UNCHANGED answer /\ pc'[c] \in {"absent", "conflicting"}
        \/ \E r \in Rows(operation[c].operation_id) :
             r.fingerprint = operation_fingerprint(operation[c]) /\ Replay(c, r, "replayed")
    BY <1>0, <1>4 DEF SelectRecord
  <2> QED
    BY <2>1, <2>2, <2>3
<1>5. CASE Return(c)
  BY <1>0, <1>5 DEF Return, tables
<1>6. CASE Commit(c)
  <2>1. pc'[c] = "committed" /\ UNCHANGED <<operation, answer>>
    BY <1>0, <1>6 DEF Commit
  <2>2. CASE pc[c] = "replaying" /\ UNCHANGED tables
    BY <2>1, <2>2 DEF AnswerInv, PendingAnswers, tables
  <2>3. CASE pc[c] = "recorded" /\ effects' = Append(effects, EffectOf(c))
    BY <2>1, <2>3 DEF AnswerInv, PendingAnswers
  <2> QED
    BY <1>6, <2>2, <2>3, CommittedTables
<1> QED
  BY <1>1, <1>2, <1>3, <1>4, <1>5, <1>6 DEF Step

\* A caller that stays between INSERT and COMMIT sees no new effect of another.
LEMMA RecordedAlone ==
  ASSUME IInv, [Next]_vars, NEW d \in Callers, pc[d] = "recorded", pc'[d] = "recorded"
  PROVE  UNCHANGED effects
<1>1. ASSUME NEW c \in Callers, Commit(c), pc[c] = "recorded"
      PROVE  FALSE
  <2>1. c = d
    BY <1>1 DEF IInv, LockInv, InTransaction
  <2> QED
    BY <1>1, <2>1 DEF Commit, Goto, IInv, TypeOK
<1> QED
  BY <1>1, TableSteps DEF tables, Expire

LEMMA NextKeepsAnswerInv ==
  ASSUME IInv, AnswerInv, [Next]_vars
  PROVE  AnswerInv'
<1>0. /\ Len(effects) \in Nat
      /\ DOMAIN effects = 1 .. Len(effects)
  BY DEF IInv, TypeOK
<1>1. ASSUME NEW d \in Callers, operation'[d] = operation[d], answer'[d] = answer[d],
             NamesEffect(d)
      PROVE  NamesEffect(d)'
  BY <1>1, EffectsGrow DEF NamesEffect
<1>2. \A d \in Callers : Answered(d) => NamesEffect(d)
  BY DEF AnswerInv, AnswerNamesVisibleEffect, Answered, NamesEffect
<1>3. CASE UNCHANGED <<effects, pc, operation, answer>>
  BY <1>3 DEF AnswerInv, PendingAnswers, AnswerNamesVisibleEffect, AppliedOnce, NamesEffect
<1>4. ASSUME NEW c \in Callers,
             \/ Step(c) \/ FailInTransaction(c) \/ CrashOutside(c)
             \/ \E o \in LogicalOperation : Submit(c, o),
             \A d \in Callers \ {c} :
               pc'[d] = pc[d] /\ operation'[d] = operation[d] /\ answer'[d] = answer[d]
      PROVE  AnswerInv'
  <2>1. \A d \in Callers \ {c} : Answered(d)' => Answered(d) /\ NamesEffect(d)'
    BY <1>1, <1>2, <1>4 DEF Answered
  <2>2. /\ Answered(c)' => NamesEffect(c)'
        /\ Answered(c)' /\ answer'[c].decision = "applied" =>
             \/ Answered(c) /\ UNCHANGED answer
             \/ answer'[c].effect_sequence = Len(effects) + 1
        /\ pc'[c] = "recorded" =>
             effects' = effects /\ answer'[c] = [decision |-> "applied",
                                                effect_sequence |-> Len(effects) + 1]
        /\ pc'[c] = "replaying" => answer'[c].decision = "replayed" /\ NamesEffect(c)'
    <3>1. CASE ~Answered(c)' /\ pc'[c] \notin {"recorded", "replaying"}
      BY <3>1
    <3>2. CASE /\ pc'[c] = "recorded" /\ effects' = effects
               /\ answer'[c] = [decision |-> "applied", effect_sequence |-> Len(effects) + 1]
      BY <3>2 DEF Answered
    <3>3. CASE pc'[c] = "replaying" /\ answer'[c].decision = "replayed" /\ NamesEffect(c)'
      BY <3>3 DEF Answered
    <3>4. CASE /\ Answered(c)' /\ UNCHANGED <<operation, answer, effects>>
               /\ Answered(c) \/ (pc[c] = "replaying" /\ answer[c].decision = "replayed")
      <4>1. NamesEffect(c)
        BY <1>2, <3>4 DEF AnswerInv, PendingAnswers
      <4> QED
        BY <1>1, <3>4, <4>1 DEF Answered
    <3>5. CASE /\ Answered(c)' /\ UNCHANGED <<operation, answer>>
               /\ effects' = Append(effects, EffectOf(c))
               /\ answer[c] = [decision |-> "applied", effect_sequence |-> Len(effects) + 1]
      <4>1. /\ Len(effects) + 1 \in DOMAIN effects'
            /\ effects'[Len(effects) + 1] = EffectOf(c)
        BY <1>0, <3>5, RowsTyped, AppendedRow DEF IInv, TypeOK
      <4>2. NamesEffect(c)'
        BY <3>5, <4>1 DEF NamesEffect, EffectOf
      <4> QED
        BY <3>5, <4>2 DEF Answered
    <3> QED
      BY <1>4, <3>1, <3>2, <3>3, <3>4, <3>5, MoverAnswer
  <2>3. PendingAnswers'
    <3>1. ASSUME NEW d \in Callers, pc'[d] = "recorded"
          PROVE  answer'[d] = [decision |-> "applied", effect_sequence |-> Len(effects') + 1]
      <4>1. CASE d = c
        BY <2>2, <3>1, <4>1
      <4>2. CASE d # c
        <5>1. pc[d] = "recorded" /\ answer'[d] = answer[d]
          BY <1>4, <3>1, <4>2
        <5> QED
          BY <3>1, <5>1, RecordedAlone DEF AnswerInv, PendingAnswers
      <4> QED
        BY <4>1, <4>2
    <3>2. ASSUME NEW d \in Callers, pc'[d] = "replaying"
          PROVE  answer'[d].decision = "replayed" /\ NamesEffect(d)'
      <4>1. CASE d = c
        BY <2>2, <3>2, <4>1
      <4>2. CASE d # c
        BY <1>1, <1>4, <3>2, <4>2 DEF AnswerInv, PendingAnswers
      <4> QED
        BY <4>1, <4>2
    <3> QED
      BY <3>1, <3>2 DEF PendingAnswers
  <2>4. AnswerNamesVisibleEffect'
    BY <2>1, <2>2 DEF AnswerNamesVisibleEffect, Answered, NamesEffect
  <2>5. AppliedOnce'
    <3> DEFINE Applied(d) == Answered(d) /\ answer[d].decision = "applied"
    <3>1. ASSUME NEW d \in Callers \ {c}, Applied(d)', Applied(c)',
                 answer'[c].effect_sequence = answer'[d].effect_sequence
          PROVE  FALSE
      <4>1. Answered(d) /\ answer'[d] = answer[d]
        BY <1>4, <2>1, <3>1
      <4>2. answer[d].effect_sequence \in 1 .. Len(effects)
        BY <1>0, <1>2, <4>1 DEF NamesEffect
      <4>3. Answered(c) /\ UNCHANGED answer
        BY <1>0, <2>2, <3>1, <4>1, <4>2
      <4> QED
        BY <3>1, <4>1, <4>3 DEF AnswerInv, AppliedOnce, Answered
    <3>2. ASSUME NEW d \in Callers \ {c}, NEW e \in Callers \ {c}, Applied(d)', Applied(e)',
                 answer'[d].effect_sequence = answer'[e].effect_sequence
          PROVE  d = e
      <4>1. Applied(d) /\ Applied(e) /\ answer'[d] = answer[d] /\ answer'[e] = answer[e]
        BY <1>4, <3>2 DEF Answered
      <4> QED
        BY <3>2, <4>1 DEF AnswerInv, AppliedOnce, Answered
    <3> QED
      BY <3>1, <3>2 DEF AppliedOnce, Answered
  <2> QED
    BY <2>3, <2>4, <2>5 DEF AnswerInv
<1> QED
  BY <1>3, <1>4, OneCallerMoves

\* Every APPLIED or REPLAYED answer a caller holds names a visible effect of the
\* operation it submitted, and one effect is reported as applied to one caller only.
THEOREM SinkAnswers == Spec => []AnswersAreTrue
<1>1. Init => AnswerInv
  BY DEF Init, AnswerInv, PendingAnswers, AnswerNamesVisibleEffect, AppliedOnce, NoResult
<1>2. IInv /\ AnswerInv /\ [Next]_vars => AnswerInv'
  BY NextKeepsAnswerInv
<1>3. AnswerInv => AnswersAreTrue
  BY DEF AnswerInv, AnswersAreTrue
<1> QED
  BY <1>1, <1>2, <1>3, SpecIInv, PTL DEF Spec
=============================================================================
