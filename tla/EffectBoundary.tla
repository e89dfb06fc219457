--------------------------- MODULE EffectBoundary ---------------------------
(***************************************************************************)
(* What the idempotent effect sink of M4 promises, whatever its callers    *)
(* and its database do: an operation id is admitted as one visible effect, *)
(* bound to one fingerprint, as long as its record is retained.  Forgetting*)
(* the record opens a new retention window, in which the same id may be    *)
(* admitted again.  IdempotentSink and DurableDispatch implement it.       *)
(***************************************************************************)
EXTENDS Naturals, Sequences

CONSTANTS OperationIds, Fingerprints

VARIABLES
  effects,   \* the visible effects; the index of a row is its effect_sequence
  records,   \* the rows of idempotency_records
  window     \* history: how often the record of an operation id was forgotten

vars == <<effects, records, window>>

EffectRow == [operation_id : OperationIds, fingerprint : Fingerprints, window : Nat]

RecordRow == [operation_id : OperationIds, fingerprint : Fingerprints,
              effect_sequence : Nat \ {0}]

Init == /\ effects = <<>>
        /\ records = {}
        /\ window = [o \in OperationIds |-> 0]

Retained(o) == \E r \in records : r.operation_id = o

\* One atomic commitment: the effect and the record that names it.
Admit(o, f) ==
  /\ ~Retained(o)
  /\ effects' = Append(effects, [operation_id |-> o, fingerprint |-> f, window |-> window[o]])
  /\ records' = records \cup {[operation_id |-> o, fingerprint |-> f,
                               effect_sequence |-> Len(effects) + 1]}
  /\ UNCHANGED window

\* Idempotency knowledge expires; the visible effect stays.
Forget(o) ==
  /\ Retained(o)
  /\ records' = {r \in records : r.operation_id # o}
  /\ window' = [window EXCEPT ![o] = @ + 1]
  /\ UNCHANGED effects

Next == \E o \in OperationIds : Forget(o) \/ \E f \in Fingerprints : Admit(o, f)

Spec == Init /\ [][Next]_vars
=============================================================================
