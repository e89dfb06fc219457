------------------------- MODULE ProvenanceJournal --------------------------
(***************************************************************************)
(* M5: ProvenanceJournal of operation_provenance.py, the durable table of  *)
(* events keyed by their sequence.  Any caller may append any event; the   *)
(* environment here stops once no continuation can be accepted, and leaves *)
(* a hole only below MaxHole.                                              *)
(***************************************************************************)
EXTENDS ProvenanceHistory, Functions

CONSTANTS Callers,      \* who may append: "careless" callers, "careful" ones
          MaxEvents(_), \* bound on the journal's length, by callers
          MaxHole       \* an event may arrive before its predecessor up to here

ASSUME CallersAssumption == Callers \subseteq {"careless", "careful"}
ASSUME BoundsAssumption == MaxHole \in Nat /\ \A c \in Callers : MaxEvents(c) \in Nat

VARIABLES rows,         \* table provenance_events: sequence -> event
          callers       \* which callers this journal has, for all its life

jvars == <<rows, callers>>

\* read: the events in the order of their sequences.
Read == [i \in 1..Cardinality(DOMAIN rows) |-> rows[InOrder(DOMAIN rows)[i]]]

Init == rows = <<>> /\ callers \in Callers

\* append at a sequence that is not taken.
AppendNew(event) ==
  /\ event \in ProvenanceEvent
  /\ event.sequence \notin DOMAIN rows
  /\ rows' = [n \in DOMAIN rows \cup {event.sequence} |->
                IF n = event.sequence THEN event ELSE rows[n]]
  /\ UNCHANGED callers

\* append at a taken sequence: the primary key raises IntegrityError.
AppendTaken(event) ==
  /\ event.sequence \in DOMAIN rows
  /\ UNCHANGED jvars

(***************************************************************************)
(* The open environment: the events callers may append at sequence n.      *)
(* Careless callers leave out fields that an event's type needs, name an   *)
(* attempt where none belongs, mix operations and intents, and come out of *)
(* order; careful ones do none of it.                                      *)
(***************************************************************************)
Careless == callers = "careless"
Given(S) == IF Careless THEN Optional(S) ELSE S
NoAttempt == IF Careless THEN Optional(Attempts) ELSE {Null}
Identities(S) == IF Careless THEN S ELSE {CHOOSE x \in S : TRUE}

Candidates(n) ==
  LET Each(type) == {Bare(n, type, o, t) : o \in Identities(Operations),
                                           t \in Identities(Intents)}
  IN UNION {
       {[x EXCEPT !.attempt = a] : x \in Each("registered"), a \in NoAttempt},
       {[x EXCEPT !.attempt = a, !.mechanism = m] :
          x \in Each("started"), a \in Given(Attempts), m \in Given(Mechanisms)},
       {[x EXCEPT !.attempt = a, !.effect = e] :
          x \in Each("effect"), a \in Given(Attempts), e \in Given(Effects)},
       {[x EXCEPT !.attempt = a, !.completion = c] :
          x \in Each("completion"), a \in Given(Attempts), c \in Given({"ambiguous", "recorded"})},
       {[x EXCEPT !.attempt = a, !.decision = d] :
          x \in Each("recovery"), a \in Given(Attempts), d \in Given({"retry"})},
       {[x EXCEPT !.attempt = a, !.disposition = d, !.effect = e] :
          x \in Each("finalized"), a \in NoAttempt, d \in Given({"succeeded", "failed"}),
          e \in Optional(Effects)}}

Incomplete == {"missing-completion", "missing-recovery-decision", "invalid-finalization",
               "unobserved-final-effect"}

\* A history that more events may still complete.
Continues(h) == LoopFault(h) = "none" /\ HeadFault(h) \in {"none", "non-contiguous-sequence"}

NextSequences ==
  LET first == Min((1..(Cardinality(DOMAIN rows) + 1)) \ DOMAIN rows)
  IN {first} \cup {n \in {first + 1} : Careless /\ n <= MaxHole /\ DOMAIN rows = 1..(first - 1)}

Next ==
  \/ /\ Continues(Read)
     /\ \E n \in NextSequences :
          n <= MaxEvents(callers) /\ \E event \in Candidates(n) : AppendNew(event)
  \/ \E n \in DOMAIN rows, o \in Operations, t \in Intents :
       AppendTaken(Bare(n, "registered", o, t))

Spec == Init /\ [][Next]_jvars
-----------------------------------------------------------------------------
(***************************************************************************)
(* The contract of the README, read off the history of each attempt.       *)
(***************************************************************************)
Told(h, a, type) == {i \in DOMAIN h : h[i].attempt = a /\ h[i].type = type}

\* It begins with the one start, which one completion follows; one recovery decision
\* follows that if it is ambiguous, and none is taken otherwise.
AttemptTold(h, a) ==
  \E s, c \in DOMAIN h :
    /\ Told(h, a, "started") = {s} /\ Told(h, a, "completion") = {c} /\ s < c
    /\ \A i \in DOMAIN h : h[i].attempt = a => s <= i
    /\ IF h[c].completion = "ambiguous"
       THEN \E d \in DOMAIN h : Told(h, a, "recovery") = {d} /\ c < d
       ELSE Told(h, a, "recovery") = {}

\* The fields an event of its type cannot be without.
Filled(e) ==
  CASE e.type = "started" -> Null \notin {e.attempt, e.mechanism}
    [] e.type = "effect" -> Null \notin {e.attempt, e.effect}
    [] e.type = "completion" -> Null \notin {e.attempt, e.completion}
    [] e.type = "recovery" -> Null \notin {e.attempt, e.decision}
    [] e.type = "finalized" -> e.attempt = Null /\ e.disposition # Null
    [] OTHER -> TRUE

Contract(h) ==
  /\ h # <<>>
  /\ \A i \in DOMAIN h : /\ h[i].sequence = i
                         /\ h[i].operation = h[1].operation /\ h[i].intent = h[1].intent
                         /\ Filled(h[i])
                         /\ h[i].type = "finalized" <=> i = Len(h)
                         /\ h[i].attempt # Null => AttemptTold(h, h[i].attempt)
  /\ h[1] = Bare(1, "registered", h[1].operation, h[1].intent)
  /\ h[Len(h)].disposition = "succeeded" =>
       \E i \in DOMAIN h : h[i].type = "effect" /\ h[i].effect = h[Len(h)].effect

\* Each attempt starts when all earlier ones have completed.
Sequential(h) ==
  \A i \in DOMAIN h : h[i].type = "started" => StartedBefore(h, i) = CompletedBefore(h, i)
-----------------------------------------------------------------------------
\* validate_history accepts exactly the histories in which every attempt's own
\* events tell a whole story under one identity (README, "Provenance contract").
AcceptanceMeetsContract == LET h == Read IN Accepted(h) <=> Contract(h)

\* A recorder that dies between two appends leaves a history that is refused
\* as incomplete: never accepted early, and never faulty beyond completion.
PrefixesIncomplete ==
  LET h == Read
  IN Accepted(h) => \A k \in 1..(Len(h) - 1) : Rejection(SubSeq(h, 1, k)) \in Incomplete

\* The audit view alone tells how many completions were ambiguous and that each
\* was decided; its completions line up with its attempts when these did not overlap.
AuditTellsRecovery ==
  LET h == Read
      view == AuditView(h)
      Ambiguous(s) == {i \in DOMAIN s : s[i] = "ambiguous"}
  IN Accepted(h) =>
       /\ IsInjective(view.attempts)
       /\ Len(view.attempts) = Len(view.completions)
       /\ Len(view.decisions) = Cardinality(Ambiguous(view.completions))
       /\ Sequential(h) =>
            \A i \in DOMAIN h : h[i].type = "completion" =>
              \E k \in DOMAIN view.attempts : /\ view.attempts[k] = h[i].attempt
                                              /\ view.completions[k] = h[i].completion

\* The README's contract records "one operation registration": an accepted
\* history would have no second one.
OneRegistration ==
  Accepted(Read) => Cardinality({i \in DOMAIN Read : Read[i].type = "registered"}) = 1
=============================================================================
