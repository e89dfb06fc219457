------------------------- MODULE ProvenanceHistory --------------------------
(***************************************************************************)
(* M5: the histories of operation_provenance.py.  A history is a sequence  *)
(* of events; validate_history judges it and reconstructs its audit view,  *)
(* final_summary keeps only its end.  An event's intent stands for the     *)
(* pair of fingerprint and effect name.                                    *)
(***************************************************************************)
EXTENDS Naturals, Sequences, FiniteSetsExt, Selections

CONSTANTS Null,        \* the fields an event leaves out (None)
          Operations, Intents, Attempts, Mechanisms, Effects

EventType == {"registered", "started", "effect", "completion", "recovery", "finalized"}
CompletionClass == {"no_effect", "ambiguous", "recorded"}
RecoveryDecision == {"retry", "reconcile", "escalate"}
FinalDisposition == {"succeeded", "failed", "escalated"}

Optional(S) == S \cup {Null}

ASSUME NullAssumption ==
  Null \notin Attempts \cup Mechanisms \cup Effects \cup CompletionClass
              \cup RecoveryDecision \cup FinalDisposition

ProvenanceEvent ==
  [sequence : Nat, type : EventType, operation : Operations, intent : Intents,
   attempt : Optional(Attempts), mechanism : Optional(Mechanisms),
   completion : Optional(CompletionClass), effect : Optional(Effects),
   decision : Optional(RecoveryDecision), disposition : Optional(FinalDisposition)]

\* An event of one operation with every optional field left out.
Bare(n, type, operation, intent) ==
  [sequence |-> n, type |-> type, operation |-> operation, intent |-> intent,
   attempt |-> Null, mechanism |-> Null, completion |-> Null, effect |-> Null,
   decision |-> Null, disposition |-> Null]

(***************************************************************************)
(* What the loop over events[1:] has collected before event i.             *)
(***************************************************************************)
Before(h, i, type) == {j \in 2..(i - 1) : h[j].type = type}
StartedBefore(h, i) == {h[j].attempt : j \in Before(h, i, "started")}
CompletedBefore(h, i) == {h[j].attempt : j \in Before(h, i, "completion")}
AmbiguousBefore(h, i) ==
  {h[j].attempt : j \in {k \in Before(h, i, "completion") : h[k].completion = "ambiguous"}}
DecidedBefore(h, i) == {h[j].attempt : j \in Before(h, i, "recovery")}
ObservedBefore(h, i) == {h[j].effect : j \in Before(h, i, "effect")}

\* The reason the loop raises at event i, when it raised at none before; "none".
StartFault(h, i) ==
  IF h[i].attempt = Null \/ h[i].mechanism = Null THEN "unknown-attempt"
  ELSE IF h[i].attempt \in StartedBefore(h, i) THEN "duplicate-attempt"
  ELSE "none"

CompletionFault(h, i) ==
  IF h[i].attempt = Null \/ h[i].completion = Null THEN "unknown-attempt"
  ELSE IF h[i].attempt \in CompletedBefore(h, i) THEN "duplicate-completion"
  ELSE "none"

\* Mutant: a decision is taken for any completed attempt.
RecoveryFaultUnambiguous(h, i) ==
  IF h[i].attempt \notin CompletedBefore(h, i) THEN "invalid-recovery-decision"
  ELSE IF h[i].attempt \in DecidedBefore(h, i) THEN "duplicate-recovery-decision"
  ELSE "none"

RecoveryFault(h, i) ==
  IF h[i].attempt = Null \/ h[i].decision = Null THEN "invalid-recovery-decision"
  ELSE IF h[i].attempt \notin AmbiguousBefore(h, i) THEN "invalid-recovery-decision"
  ELSE IF h[i].attempt \in DecidedBefore(h, i) THEN "duplicate-recovery-decision"
  ELSE "none"

EffectFault(h, i) ==
  IF h[i].attempt = Null \/ h[i].effect = Null THEN "unknown-attempt" ELSE "none"

\* A later registration and a finalization are not looked at by the loop.
EventFault(h, i) ==
  IF h[i].type = "started" THEN StartFault(h, i)
  ELSE IF h[i].attempt \notin StartedBefore(h, i) \cup {Null} THEN "unknown-attempt"
  ELSE IF h[i].type = "effect" THEN EffectFault(h, i)
  ELSE IF h[i].type = "completion" THEN CompletionFault(h, i)
  ELSE IF h[i].type = "recovery" THEN RecoveryFault(h, i)
  ELSE "none"

LoopFault(h) ==
  LET faulty == {i \in 2..Len(h) : EventFault(h, i) # "none"}
  IN IF faulty = {} THEN "none" ELSE EventFault(h, Min(faulty))

\* What is checked before the loop.
HeadFault(h) ==
  IF h = <<>> \/ \E i \in DOMAIN h : h[i].sequence # i THEN "non-contiguous-sequence"
  ELSE IF Cardinality({h[i].operation : i \in DOMAIN h}) # 1 THEN "mixed-operation-identity"
  ELSE IF Cardinality({h[i].intent : i \in DOMAIN h}) # 1 THEN "mixed-intent"
  ELSE IF h[1] # Bare(1, "registered", h[1].operation, h[1].intent) THEN "invalid-registration"
  ELSE "none"

\* Mutant: the last event is a finalization, but need not be the only one.
TailFaultManyFinals(h) ==
  LET end == Len(h) + 1
  IN IF StartedBefore(h, end) # CompletedBefore(h, end) THEN "missing-completion"
     ELSE IF h[Len(h)].type # "finalized" THEN "invalid-finalization"
     ELSE "none"

\* Mutant: a history counts as complete once every attempt is accounted for.
TailFaultUnfinished(h) ==
  LET end == Len(h) + 1
  IN IF Before(h, end, "started") = {} THEN "missing-completion"
     ELSE IF StartedBefore(h, end) # CompletedBefore(h, end) THEN "missing-completion"
     ELSE "none"

\* What is checked after the loop, over everything it collected.
TailFault(h) ==
  LET end == Len(h) + 1
      final == h[Len(h)]
  IN IF StartedBefore(h, end) # CompletedBefore(h, end) THEN "missing-completion"
     ELSE IF ~(AmbiguousBefore(h, end) \subseteq DecidedBefore(h, end))
     THEN "missing-recovery-decision"
     ELSE IF Before(h, end, "finalized") # {Len(h)} THEN "invalid-finalization"
     ELSE IF final.disposition = Null \/ final.attempt # Null THEN "invalid-finalization"
     ELSE IF final.disposition = "succeeded" /\ final.effect \notin ObservedBefore(h, end)
     THEN "unobserved-final-effect"
     ELSE "none"

\* validate_history: "none" when it returns, otherwise the reason it raises.
Rejection(h) ==
  IF HeadFault(h) # "none" THEN HeadFault(h)
  ELSE IF LoopFault(h) # "none" THEN LoopFault(h)
  ELSE TailFault(h)

Accepted(h) == Rejection(h) = "none"

\* One field of the events of one type, in the order of the history.
Collected(h, type, field) ==
  LET chosen == Selected(h, LAMBDA e : e.type = type)
  IN [i \in DOMAIN chosen |-> chosen[i][field]]

\* Mutant: the decisions are read off the completion events.
AuditViewMisread(h) ==
  [operation |-> h[1].operation, intent |-> h[1].intent,
   attempts |-> Collected(h, "started", "attempt"),
   mechanisms |-> Collected(h, "started", "mechanism"),
   completions |-> Collected(h, "completion", "completion"),
   decisions |-> Collected(h, "completion", "decision"),
   effects |-> Collected(h, "effect", "effect"),
   disposition |-> h[Len(h)].disposition,
   effect |-> h[Len(h)].effect]

AuditView(h) ==
  [operation |-> h[1].operation, intent |-> h[1].intent,
   attempts |-> Collected(h, "started", "attempt"),
   mechanisms |-> Collected(h, "started", "mechanism"),
   completions |-> Collected(h, "completion", "completion"),
   decisions |-> Collected(h, "recovery", "decision"),
   effects |-> Collected(h, "effect", "effect"),
   disposition |-> h[Len(h)].disposition,
   effect |-> h[Len(h)].effect]

\* final_summary of a history that has a finalization.
FinalSummary(h) ==
  LET last == Max({i \in DOMAIN h : h[i].type = "finalized"})
  IN [operation |-> h[last].operation, disposition |-> h[last].disposition,
      effect |-> h[last].effect]

(***************************************************************************)
(* The two histories of the experiment, for attempts a and b, mechanisms m *)
(* and w, and the effect e.                                                *)
(***************************************************************************)
Started(n, o, t, a, m) == [Bare(n, "started", o, t) EXCEPT !.attempt = a, !.mechanism = m]
Seen(n, o, t, a, e) == [Bare(n, "effect", o, t) EXCEPT !.attempt = a, !.effect = e]
Completed(n, o, t, a, c) == [Bare(n, "completion", o, t) EXCEPT !.attempt = a, !.completion = c]
Decided(n, o, t, a, d) == [Bare(n, "recovery", o, t) EXCEPT !.attempt = a, !.decision = d]
Finalized(n, o, t, d, e) == [Bare(n, "finalized", o, t) EXCEPT !.disposition = d, !.effect = e]

DirectSuccess(o, t, a, m, e) ==
  <<Bare(1, "registered", o, t), Started(2, o, t, a, m), Seen(3, o, t, a, e),
    Completed(4, o, t, a, "recorded"), Finalized(5, o, t, "succeeded", e)>>

\* Mutant: the retry is recorded without the decision to retry.
RecoveredUndecided(o, t, a, b, m, w, e) ==
  <<Bare(1, "registered", o, t), Started(2, o, t, a, m), Seen(3, o, t, a, e),
    Completed(4, o, t, a, "ambiguous"),
    Started(5, o, t, b, w), Seen(6, o, t, b, e), Completed(7, o, t, b, "recorded"),
    Finalized(8, o, t, "succeeded", e)>>

Recovered(o, t, a, b, m, w, e) ==
  <<Bare(1, "registered", o, t), Started(2, o, t, a, m), Seen(3, o, t, a, e),
    Completed(4, o, t, a, "ambiguous"), Decided(5, o, t, a, "retry"),
    Started(6, o, t, b, w), Seen(7, o, t, b, e), Completed(8, o, t, b, "recorded"),
    Finalized(9, o, t, "succeeded", e)>>
=============================================================================
