------------------------ MODULE OrchestrationProofs -------------------------
(***************************************************************************)
(* The safety of the gated flow, for any number of deaths and phases, in   *)
(* either framework and whatever it does with an answer nobody asked for.  *)
(***************************************************************************)
EXTENDS Orchestration, SequenceTheorems, TLAPS

\* The one way through the flow: the node at each position, and the state there.
Way == <<"capture", "characterize", "intent_gate", "execute", "observe", "falsify", "repair",
         "execute", "observe", "falsify", "promotion_gate", "package", "end">>

NodeAt(k) == Way[k + 1]

StateAt(k) ==
  [trace |-> SubSeq(CommonTrace, 1, k),
   attempt |-> IF k < 7 THEN 0 ELSE 1,
   passed |-> k >= 10,
   intent_approved |-> k >= 3,
   promotion_approved |-> k >= 11,
   artifact |-> IF k < 4 THEN Null ELSE IF k < 8 THEN 0 ELSE 1,
   output |-> IF k < 12 THEN Null ELSE 1]

CheckpointAt(k, asked) == [next |-> NodeAt(k), state |-> StateAt(k), asked |-> asked]

Position(s) == Len(s.trace)

\* The process has the flow's state: it is past the reset.
Flowing == node \notin {Null, "reset"}

\* The process is on the way, at a node or at a point of run_phase behind a gate or the end.
ProcessAt(k) ==
  /\ memory = StateAt(k)
  /\ \/ node = NodeAt(k)
     \/ node = "recorded" /\ k \in {3, 7}
     \/ node \in {"paused", "writing", "closing"} /\ k \in {2, 10}
     \/ node \in {"writing", "closing"} /\ k = 12

\* Types, and what goes with being in a process.
TypeOK ==
  /\ framework \in Framework /\ operator \in {"retrying", "any"}
  /\ running \in {"none", "start", "resume-intent", "resume-promotion"}
  /\ node \in Node \cup Point \cup {Null}
  /\ running = "none" <=> node = Null
  /\ node = "reset" => running = "start"
  /\ ~Flowing => memory = Null
  /\ answer \in BOOLEAN
  /\ answer => running \notin {"none", "start"} /\ node \in Gate
  /\ journal \in {<<>>, <<0>>, <<0, 1>>}
  /\ answers \in Seq({"resume-intent", "resume-promotion"})
  /\ outcome \in {"ok", "asserted", "raised", "died"}
  /\ faults \in Nat /\ phases \in Nat

\* Whatever is in memory or on disk is a position of the way; the pause is at a gate
\* that was asked, and the output that of its end.
OnTheWay ==
  /\ Flowing => \E k \in 0..12 : ProcessAt(k)
  /\ checkpoint # Null => \E k \in 0..12, b \in BOOLEAN : checkpoint = CheckpointAt(k, b)
  /\ pause \in {Null, Torn, CheckpointAt(2, TRUE), CheckpointAt(10, TRUE)}
  /\ final \in {Null, Torn, StateAt(12)}
  /\ node \in {"paused", "writing"} =>
       /\ memory = StateAt(2) => checkpoint = CheckpointAt(2, TRUE)
       /\ memory = StateAt(10) => checkpoint = CheckpointAt(10, TRUE)
  /\ node = "writing" => (running = "resume-promotion" <=> memory = StateAt(12))

\* Between the executions and the promotion gate the log has what was executed.
Logged ==
  /\ \A k \in 0..12 : k \in 4..9 /\ Flowing /\ memory = StateAt(k) => journal # <<>>
  /\ node = "recorded" => journal # <<>>
  /\ \A k \in 0..12, b \in BOOLEAN :
       k \in 4..9 /\ framework = "langgraph" /\ checkpoint = CheckpointAt(k, b) => journal # <<>>

\* Approvals in any state are covered by answers, with one to spare for the answer held.
Answered ==
  /\ Flowing => Approvals(memory) + (IF answer THEN 1 ELSE 0) <= Len(answers)
  /\ checkpoint # Null => Approvals(checkpoint.state) <= Len(answers)
  /\ pause \notin {Null, Torn} => Approvals(pause.state) <= Len(answers)
  /\ final \notin {Null, Torn} => Approvals(final) <= Len(answers)

IInv == TypeOK /\ OnTheWay /\ Logged /\ Answered

\* LangGraph has no files of its own but its database, which is as far as the process.
LangGraphInv ==
  framework = "langgraph" =>
    /\ pause = Null
    /\ node \notin {"writing", "closing"}
    /\ \A k \in 0..12 :
         Flowing /\ memory = StateAt(k) /\ k # 0 =>
           \E b \in BOOLEAN : checkpoint = CheckpointAt(k, b)

\* With an operator who retries, each process goes on from where the ones before it
\* can have left off.  First start, until one ends well: nothing is further than the
\* intent gate.
Rests(phase, how) == running = "none" /\ last = phase /\ outcome = how

Starting == running = "start" \/ Rests(Null, "ok") \/ Rests("start", "died")

StartInv ==
  /\ journal = <<>> /\ verdict = Null /\ outcome \in {"ok", "died"}
  /\ pause \in {Null, Torn, CheckpointAt(2, TRUE)}
  /\ Flowing => \E k \in 0..12 : memory = StateAt(k) /\ k <= 2 /\ (checkpoint = Null => k = 0)
  /\ node = "closing" => pause = CheckpointAt(2, TRUE)

\* Then resume-intent: what is logged is what the flow has executed, and past the
\* intent gate without a death there is no answer left for the promotion gate.
Intending ==
  \/ running = "resume-intent"
  \/ Rests("start", "ok")
  \/ \E how \in {"died", "asserted", "raised"} : Rests("resume-intent", how)

LoggedAt(k) ==
  /\ k >= 4 => journal # <<>>
  /\ k >= 8 => journal = <<0, 1>>

\* Where the process is, what maf's pause.json names, and LangGraph's database.
IntentAt(k) ==
  /\ memory = StateAt(k) /\ LoggedAt(k)
  /\ k >= 2 /\ (k = 2 => answer)
  /\ faults = 0 => k <= 10 /\ (answer => k = 2)
  /\ node = "recorded" /\ k = 7 => journal = <<0, 1>>

IntentPause ==
  /\ pause \in {CheckpointAt(2, TRUE), CheckpointAt(10, TRUE), Torn}
  /\ pause = CheckpointAt(10, TRUE) => journal = <<0, 1>> /\ (node = "closing" \/ faults > 0)
  /\ pause = Torn => node = "writing" \/ (node = Null /\ faults > 0)
  /\ node = "closing" => pause = CheckpointAt(10, TRUE)

IntentDatabase(k, b) ==
  /\ checkpoint = CheckpointAt(k, b) /\ LoggedAt(k)
  /\ k >= 2 /\ (k = 2 => b)
  /\ running = "none" /\ faults = 0 => k = 2

IntentInv ==
  /\ verdict = Null /\ checkpoint # Null
  /\ outcome # "ok" => faults > 0
  /\ running # "none" => outcome \in {"ok", "died"}
  /\ outcome \in {"asserted", "raised"} => (outcome = "raised" <=> pause = Torn)
  /\ Flowing => \E k \in 0..12 : IntentAt(k)
  /\ framework = "maf" => IntentPause
  /\ framework = "langgraph" => \E k \in 0..12, b \in BOOLEAN : IntentDatabase(k, b)

\* Then resume-promotion, from the promotion gate, which was asked; then verify.
Promoting ==
  \/ running = "resume-promotion"
  \/ Rests("resume-intent", "ok")
  \/ Rests("resume-promotion", "died")

PromotionInv ==
  /\ verdict = Null /\ checkpoint # Null /\ journal = <<0, 1>> /\ outcome \in {"ok", "died"}
  /\ Flowing => \E k \in 0..12 : memory = StateAt(k) /\ k >= 10 /\ (k = 10 => answer)
  /\ node = "closing" => final = StateAt(12)
  /\ framework = "maf" => pause = CheckpointAt(10, TRUE)
  /\ framework = "langgraph" =>
       \E k \in 0..12, b \in BOOLEAN : checkpoint = CheckpointAt(k, b) /\ k >= 10 /\ (k = 10 => b)

Finished == Rests("resume-promotion", "ok")

FinishedInv ==
  /\ verdict = Null /\ journal = <<0, 1>>
  /\ framework = "maf" => final = StateAt(12)
  /\ framework = "langgraph" => \E b \in BOOLEAN : checkpoint = CheckpointAt(12, b)

Verified == Rests("verify", "ok") /\ verdict = "pass"

RetryInv ==
  operator = "retrying" =>
    \/ Starting /\ StartInv
    \/ Intending /\ IntentInv
    \/ Promoting /\ PromotionInv
    \/ Finished /\ FinishedInv
    \/ Verified
-----------------------------------------------------------------------------
(* The way through the flow *)

\* The twelve events of the characterization.
LEMMA TraceTyped == CommonTrace \in Seq(Node \X Nat) /\ Len(CommonTrace) = 12
BY DEF CommonTrace, Node, Gate

\* The trace of the next position is that of this one and one event more.
LEMMA TraceGrows ==
  ASSUME NEW k \in 0..11
  PROVE  Append(SubSeq(CommonTrace, 1, k), CommonTrace[k + 1]) = SubSeq(CommonTrace, 1, k + 1)
<1> DEFINE C == CommonTrace
<1>1. C \in Seq(Node \X Nat) /\ Len(C) = 12
  BY TraceTyped
<1>2. \A i \in 1..12 : C[i] \in Node \X Nat
  BY <1>1, LenProperties
<1>3. SubSeq(C, 1, k) \in Seq(Node \X Nat)
  BY <1>2, SubSeqProperties
<1>4. C[k + 1] \in Node \X Nat
  BY <1>2
<1>5. SubSeq(C, 1, k + 1) = SubSeq(C, 1, k) \o <<C[k + 1]>>
  BY <1>1, SubSeqRecursiveSecond
<1>6. Append(SubSeq(C, 1, k), C[k + 1]) = SubSeq(C, 1, k) \o <<C[k + 1]>>
  BY <1>3, <1>4, AppendIsConcat
<1> QED
  BY <1>5, <1>6

\* The trace at position k is k events long.
LEMMA TraceLength ==
  ASSUME NEW k \in 0..12
  PROVE  /\ SubSeq(CommonTrace, 1, k) \in Seq(Node \X Nat)
         /\ Len(SubSeq(CommonTrace, 1, k)) = k
<1>1. \A i \in 1..12 : CommonTrace[i] \in Node \X Nat
  BY TraceTyped, LenProperties
<1> QED
  BY <1>1, SubSeqProperties

\* Which nodes are where.
LEMMA WayNodes ==
  ASSUME NEW k \in 0..12
  PROVE  /\ NodeAt(k) \in Node \cup {"end"}
         /\ NodeAt(k) = "end" <=> k = 12
         /\ NodeAt(k) = "intent_gate" <=> k = 2
         /\ NodeAt(k) = "promotion_gate" <=> k = 10
         /\ NodeAt(k) = "execute" <=> k \in {3, 7}
         /\ NodeAt(k) = "capture" <=> k = 0
         /\ NodeAt(k) = "falsify" <=> k \in {5, 9}
         /\ NodeAt(k) = "repair" <=> k = 6
         /\ NodeAt(k) = "package" <=> k = 11
BY DEF NodeAt, Way, Node, Gate

\* States of the way and their checkpoints are states and checkpoints.
LEMMA StateTyped ==
  ASSUME NEW k \in 0..12
  PROVE  StateAt(k) \in State /\ \A asked \in BOOLEAN : CheckpointAt(k, asked) \in Saved
BY TraceLength, WayNodes DEF StateAt, State, CheckpointAt, Saved

\* A state has one position.
LEMMA OnePosition ==
  ASSUME NEW j \in 0..12, NEW k \in 0..12, StateAt(j) = StateAt(k)
  PROVE  j = k
<1>1. StateAt(j).trace = StateAt(k).trace
  OBVIOUS
<1> QED
  BY <1>1, TraceLength DEF StateAt

\* States with the same fields are the same.
LEMMA SameFields ==
  ASSUME NEW r \in State, NEW s \in State,
         r.trace = s.trace, r.attempt = s.attempt, r.passed = s.passed,
         r.intent_approved = s.intent_approved, r.promotion_approved = s.promotion_approved,
         r.artifact = s.artifact, r.output = s.output
  PROVE  r = s
BY DEF State

\* Entering a node adds its event to the trace and leaves the other fields alone.
LEMMA TracedFields ==
  ASSUME NEW s \in State, NEW n \in Node
  PROVE  /\ Traced(s, n) \in State
         /\ Traced(s, n).trace = Append(s.trace, <<n, s.attempt>>)
         /\ Traced(s, n).attempt = s.attempt
         /\ Traced(s, n).passed = s.passed
         /\ Traced(s, n).intent_approved = s.intent_approved
         /\ Traced(s, n).promotion_approved = s.promotion_approved
         /\ Traced(s, n).artifact = s.artifact
         /\ Traced(s, n).output = s.output
<1> DEFINE x == Append(s.trace, <<n, s.attempt>>)
<1>1. x \in Seq(Node \X Nat)
  BY DEF State
<1>2. Traced(s, n) = [s EXCEPT !.trace = x]
  BY Zenon DEF Traced
<1> HIDE DEF x
<1>3. /\ [s EXCEPT !.trace = x] \in State
      /\ [s EXCEPT !.trace = x].trace = x
      /\ [s EXCEPT !.trace = x].attempt = s.attempt
      /\ [s EXCEPT !.trace = x].passed = s.passed
      /\ [s EXCEPT !.trace = x].intent_approved = s.intent_approved
      /\ [s EXCEPT !.trace = x].promotion_approved = s.promotion_approved
      /\ [s EXCEPT !.trace = x].artifact = s.artifact
      /\ [s EXCEPT !.trace = x].output = s.output
  BY <1>1 DEF State
<1> QED
  BY <1>2, <1>3 DEF x

\* What a node does to the fields of a state.
LEMMA StepFields ==
  ASSUME NEW s \in State, NEW n \in Node
  PROVE  /\ Step(n, s) \in State
         /\ Step(n, s).trace = Append(s.trace, <<n, Step(n, s).attempt>>)
         /\ Step(n, s).attempt = IF n = "repair" THEN s.attempt + 1 ELSE s.attempt
         /\ Step(n, s).passed = IF n = "falsify" THEN s.attempt >= 1 ELSE s.passed
         /\ Step(n, s).intent_approved = (n = "intent_gate" \/ s.intent_approved)
         /\ Step(n, s).promotion_approved = (n = "promotion_gate" \/ s.promotion_approved)
         /\ Step(n, s).artifact = IF n = "execute" THEN s.attempt ELSE s.artifact
         /\ Step(n, s).output = IF n = "package" THEN s.artifact ELSE s.output
<1> DEFINE r == Traced(s, n)
           later == [s EXCEPT !.attempt = @ + 1]
<1>1. /\ r \in State /\ r.trace = Append(s.trace, <<n, s.attempt>>) /\ r.attempt = s.attempt
      /\ r.passed = s.passed /\ r.intent_approved = s.intent_approved
      /\ r.promotion_approved = s.promotion_approved
      /\ r.artifact = s.artifact /\ r.output = s.output
  BY TracedFields
<1>2. /\ s.attempt \in Nat /\ s.artifact \in Nat \cup {Null} /\ s.passed \in BOOLEAN
      /\ s.intent_approved \in BOOLEAN /\ s.promotion_approved \in BOOLEAN
  BY DEF State
<1> HIDE DEF r
<1>3. CASE n = "intent_gate"
  <2>1. Step(n, s) = [r EXCEPT !.intent_approved = TRUE]
    BY <1>3 DEF Step, r
  <2> QED
    BY <1>1, <1>3, <2>1 DEF State
<1>4. CASE n = "promotion_gate"
  <2>1. Step(n, s) = [r EXCEPT !.promotion_approved = TRUE]
    BY <1>4 DEF Step, r
  <2> QED
    BY <1>1, <1>4, <2>1 DEF State
<1>5. CASE n = "execute"
  <2>1. Step(n, s) = [r EXCEPT !.artifact = s.attempt]
    BY <1>5 DEF Step, r
  <2> QED
    BY <1>1, <1>2, <1>5, <2>1 DEF State
<1>6. CASE n = "falsify"
  <2> DEFINE judged == s.attempt >= 1
  <2>1. Step(n, s) = [r EXCEPT !.passed = judged]
    BY <1>6 DEF Step, r
  <2>2. judged \in BOOLEAN
    OBVIOUS
  <2> HIDE DEF judged
  <2>3. /\ Step(n, s) \in State /\ Step(n, s).passed = judged
        /\ Step(n, s).trace = r.trace /\ Step(n, s).attempt = r.attempt
        /\ Step(n, s).intent_approved = r.intent_approved
        /\ Step(n, s).promotion_approved = r.promotion_approved
        /\ Step(n, s).artifact = r.artifact /\ Step(n, s).output = r.output
    BY <1>1, <2>1, <2>2 DEF State
  <2> QED
    BY <1>1, <1>2, <1>6, <2>3 DEF judged
<1>7. CASE n = "repair"
  <2>1. Step(n, s) = Traced(later, n)
    BY <1>7 DEF Step
  <2>2. /\ later \in State /\ later.attempt = s.attempt + 1
        /\ later.trace = s.trace /\ later.passed = s.passed
        /\ later.intent_approved = s.intent_approved
        /\ later.promotion_approved = s.promotion_approved
        /\ later.artifact = s.artifact /\ later.output = s.output
    BY DEF State
  <2> HIDE DEF later
  <2> QED
    BY <1>2, <1>7, <2>1, <2>2, TracedFields
<1>8. CASE n = "package"
  <2>1. Step(n, s) = [r EXCEPT !.output = s.artifact]
    BY <1>8 DEF Step, r
  <2> QED
    BY <1>1, <1>2, <1>8, <2>1 DEF State
<1>9. CASE n \in {"capture", "characterize", "observe"}
  <2>1. Step(n, s) = r
    BY <1>9 DEF Step, r
  <2> QED
    BY <1>1, <1>2, <1>9, <2>1
<1> QED
  BY <1>3, <1>4, <1>5, <1>6, <1>7, <1>8, <1>9 DEF Node, Gate

\* Returning from the node at a position leads to the next one.
LEMMA WayStep ==
  ASSUME NEW k \in 0..12, k # 12
  PROVE  /\ Step(NodeAt(k), StateAt(k)) = StateAt(k + 1)
         /\ Edge(NodeAt(k), StateAt(k + 1)) = NodeAt(k + 1)
<1> DEFINE n == NodeAt(k)
           r == Step(n, StateAt(k))
           s == StateAt(k + 1)
           t(j) == SubSeq(CommonTrace, 1, j)
<1>1. Append(t(k), <<n, s.attempt>>) = t(k + 1)
  <2>1. CommonTrace[k + 1] = <<n, IF k < 6 THEN 0 ELSE 1>>
    BY DEF CommonTrace, NodeAt, Way
  <2> QED
    BY <2>1, TraceGrows DEF StateAt
<1>2. s.passed = (k + 1 >= 10)
  BY DEF StateAt
<1>3. Edge(n, s) = NodeAt(k + 1)
  <2> HIDE DEF s
  <2>1. s.passed = (k >= 9)
    BY <1>2
  <2>2. Route(s) = IF k >= 9 THEN "promotion_gate" ELSE "repair"
    BY <2>1 DEF Route
  <2> QED
    BY <2>2 DEF Edge, NodeAt, Way
<1>4. n \in Node /\ StateAt(k) \in State /\ s \in State
  BY WayNodes, StateTyped
<1> HIDE DEF t
<1>5. /\ r \in State /\ r.trace = Append(StateAt(k).trace, <<n, r.attempt>>)
      /\ r.attempt = IF n = "repair" THEN StateAt(k).attempt + 1 ELSE StateAt(k).attempt
      /\ r.passed = IF n = "falsify" THEN StateAt(k).attempt >= 1 ELSE StateAt(k).passed
      /\ r.intent_approved = (n = "intent_gate" \/ StateAt(k).intent_approved)
      /\ r.promotion_approved = (n = "promotion_gate" \/ StateAt(k).promotion_approved)
      /\ r.artifact = IF n = "execute" THEN StateAt(k).attempt ELSE StateAt(k).artifact
      /\ r.output = IF n = "package" THEN StateAt(k).artifact ELSE StateAt(k).output
  BY <1>4, StepFields
<1> HIDE DEF r
<1>6. r.attempt = s.attempt
  BY <1>5, WayNodes DEF StateAt
<1>7. r.trace = s.trace
  BY <1>1, <1>5, <1>6 DEF StateAt, t
<1>8. r.passed = s.passed
  BY <1>5, WayNodes DEF StateAt
<1>9. r.intent_approved = s.intent_approved
  <2>1. StateAt(k).intent_approved = (k >= 3) /\ s.intent_approved = (k + 1 >= 3)
    BY DEF StateAt
  <2> HIDE DEF s
  <2>2. (n = "intent_gate" \/ k >= 3) <=> k + 1 >= 3
    BY WayNodes
  <2>3. r.intent_approved <=> s.intent_approved
    BY <1>5, <2>1, <2>2
  <2> QED
    BY <1>4, <1>5, <2>3 DEF State
<1>10. r.promotion_approved = s.promotion_approved
  <2>1. StateAt(k).promotion_approved = (k >= 11) /\ s.promotion_approved = (k + 1 >= 11)
    BY DEF StateAt
  <2> HIDE DEF s
  <2>2. (n = "promotion_gate" \/ k >= 11) <=> k + 1 >= 11
    BY WayNodes
  <2>3. r.promotion_approved <=> s.promotion_approved
    BY <1>5, <2>1, <2>2
  <2> QED
    BY <1>4, <1>5, <2>3 DEF State
<1>11. r.artifact = s.artifact
  BY <1>5, WayNodes DEF StateAt
<1>12. r.output = s.output
  BY <1>5, WayNodes DEF StateAt
<1> QED
  BY <1>3, <1>4, <1>5, <1>6, <1>7, <1>8, <1>9, <1>10, <1>11, <1>12, SameFields DEF r

\* What the positions tell apart, with the states themselves left folded.
LEMMA NotNull ==
  /\ \A k \in 0..12 : StateAt(k) \notin {Null, Torn}
  /\ \A k \in 0..12, b \in BOOLEAN : CheckpointAt(k, b) \notin {Null, Torn}
BY StateTyped, NullAssumption

LEMMA CheckpointFields ==
  ASSUME NEW k, NEW b
  PROVE  /\ CheckpointAt(k, b).next = NodeAt(k)
         /\ CheckpointAt(k, b).state = StateAt(k)
         /\ CheckpointAt(k, b).asked = b
BY DEF CheckpointAt

\* A checkpoint has one position, and tells whether its gate was asked.
LEMMA OneCheckpoint ==
  ASSUME NEW j \in 0..12, NEW k \in 0..12, NEW a, NEW b, CheckpointAt(j, a) = CheckpointAt(k, b)
  PROVE  j = k /\ a = b
BY CheckpointFields, OnePosition

\* The same, as a function of the state.
LEMMA PositionOf ==
  ASSUME NEW k \in 0..12
  PROVE  Position(StateAt(k)) = k /\ \A b : Position(CheckpointAt(k, b).state) = k
<1>1. Position(StateAt(k)) = k
  BY TraceLength DEF Position, StateAt
<1>2. \A b : CheckpointAt(k, b).state = StateAt(k)
  BY CheckpointFields
<1> QED
  BY <1>1, <1>2

\* How far the attempts and the approvals are.
LEMMA Progress ==
  ASSUME NEW k \in 0..12
  PROVE  /\ StateAt(k).attempt = IF k < 7 THEN 0 ELSE 1
         /\ Approvals(StateAt(k)) = (IF k >= 3 THEN 1 ELSE 0) + (IF k >= 11 THEN 1 ELSE 0)
BY DEF StateAt, Approvals

\* make_initial_state is the first position.
LEMMA AtTheStart == InitialState = StateAt(0)
<1>1. SubSeq(CommonTrace, 1, 0) = <<>>
  BY TraceLength, EmptySeq
<1>2. InitialState \in State /\ StateAt(0) \in State
  BY <1>1, StateTyped DEF InitialState, State
<1>3. StateAt(0).trace = <<>>
  BY <1>1 DEF StateAt
<1>4. /\ ~StateAt(0).passed /\ ~StateAt(0).intent_approved /\ ~StateAt(0).promotion_approved
      /\ StateAt(0).attempt = 0 /\ StateAt(0).artifact = Null /\ StateAt(0).output = Null
  <2> DEFINE far == 0 >= 10  further == 0 >= 11  past == 0 >= 3
  <2>1. /\ StateAt(0).passed = far /\ StateAt(0).intent_approved = past
        /\ StateAt(0).promotion_approved = further
    BY DEF StateAt
  <2>2. StateAt(0).attempt = 0 /\ StateAt(0).artifact = Null /\ StateAt(0).output = Null
    BY DEF StateAt
  <2>3. far = FALSE /\ past = FALSE /\ further = FALSE
    OBVIOUS
  <2> HIDE DEF far, further, past
  <2> QED
    BY <2>1, <2>2, <2>3
<1>5. /\ ~InitialState.passed /\ ~InitialState.intent_approved /\ ~InitialState.promotion_approved
      /\ InitialState.attempt = 0 /\ InitialState.artifact = Null /\ InitialState.output = Null
      /\ InitialState.trace = <<>>
  BY DEF InitialState
<1>6. /\ InitialState.passed = StateAt(0).passed
      /\ InitialState.intent_approved = StateAt(0).intent_approved
      /\ InitialState.promotion_approved = StateAt(0).promotion_approved
  BY <1>2, <1>4, <1>5 DEF State
<1> QED
  BY <1>2, <1>3, <1>4, <1>5, <1>6, SameFields

\* A node that returns leads to the next position, in memory and in the checkpoint ...
LEMMA ReturnLeadsOn ==
  ASSUME NEW k \in 0..12, k # 12, memory = StateAt(k), node = NodeAt(k), Return
  PROVE  /\ memory' = StateAt(k + 1)
         /\ node' = NodeAt(k + 1)
         /\ checkpoint' = CheckpointAt(k + 1, FALSE)
BY WayStep DEF Return, CheckpointAt

\* ... and so does an execution, behind its record.
LEMMA ExecutedLeadsOn ==
  ASSUME NEW k \in 0..12, k \in {3, 7}, memory = StateAt(k), Executed
  PROVE  /\ memory' = StateAt(k + 1)
         /\ node' = NodeAt(k + 1)
         /\ checkpoint' = CheckpointAt(k + 1, FALSE)
<1>1. NodeAt(k) = "execute" /\ NodeAt(k + 1) = "observe"
  BY DEF NodeAt, Way
<1>2. Step("execute", StateAt(k)) = StateAt(k + 1)
  BY <1>1, WayStep
<1> QED
  BY <1>1, <1>2 DEF Executed, CheckpointAt

\* The log's values, and what a recorded attempt makes of them.
LEMMA Appended ==
  /\ Append(<<>>, 0) = <<0>> /\ Append(<<0>>, 1) = <<0, 1>>
<1>1. Append(<<>>, 0) = <<0>>
  OBVIOUS
<1>2. <<0>> \in Seq(Nat) /\ <<0, 1>> \in Seq(Nat) /\ Len(<<0>>) = 1 /\ Len(<<0, 1>>) = 2
  OBVIOUS
<1>3. /\ Append(<<0>>, 1) \in Seq(Nat) /\ Len(Append(<<0>>, 1)) = 2
      /\ Append(<<0>>, 1)[1] = 0 /\ Append(<<0>>, 1)[2] = 1
  BY <1>2, AppendProperties
<1>4. \A i \in 1..Len(Append(<<0>>, 1)) : Append(<<0>>, 1)[i] = <<0, 1>>[i]
  BY <1>3
<1>5. Append(<<0>>, 1) = <<0, 1>>
  BY <1>2, <1>3, <1>4, SeqEqual
<1> QED
  BY <1>1, <1>5
-----------------------------------------------------------------------------
(* The invariant, action by action *)

LEMMA InitIInv == Init => IInv
<1> SUFFICES ASSUME Init PROVE IInv
  OBVIOUS
<1> USE NullAssumption DEF Init, Flowing, Framework, Node, Gate, Point
<1>1. TypeOK
  BY OperatorsAssumption, EmptySeq DEF TypeOK
<1>2. OnTheWay
  BY DEF OnTheWay
<1>3. Logged
  <2>1. ~Flowing /\ node # "recorded"
    OBVIOUS
  <2>2. \A k \in 0..12, b \in BOOLEAN : checkpoint # CheckpointAt(k, b)
    BY NotNull, CheckpointFields, OnePosition, OneCheckpoint
  <2> QED
    BY <2>1, <2>2 DEF Logged
<1>4. Answered
  BY DEF Answered
<1> QED
  BY <1>1, <1>2, <1>3, <1>4 DEF IInv

LEMMA StartKeepsIInv ==
  ASSUME IInv, Start
  PROVE  IInv'
<1> USE NullAssumption DEF IInv, Flowing, args, process, disk, ended, bounds, Framework, Node,
      Gate, Point, Start, MayRun
<1>1. TypeOK'
  BY NotNull, CheckpointFields, OnePosition, OneCheckpoint DEF TypeOK, ProcessAt
<1>2. OnTheWay'
  BY NotNull, CheckpointFields, OnePosition, OneCheckpoint DEF OnTheWay, ProcessAt
<1>3. Logged'
  BY NotNull, CheckpointFields, OnePosition, OneCheckpoint DEF Logged, ProcessAt
<1>4. Answered'
  BY NotNull, CheckpointFields, OnePosition, OneCheckpoint DEF Answered, ProcessAt
<1> QED
  BY <1>1, <1>2, <1>3, <1>4

LEMMA RemoveCheckpointsKeepsIInv ==
  ASSUME IInv, RemoveCheckpoints
  PROVE  IInv'
<1> USE NullAssumption DEF IInv, Flowing, args, process, disk, ended, bounds, Framework, Node,
      Gate, Point, RemoveCheckpoints
<1>1. TypeOK'
  BY NotNull, CheckpointFields, OnePosition, OneCheckpoint DEF TypeOK, ProcessAt
<1>2. OnTheWay'
  BY NotNull, CheckpointFields, OnePosition, OneCheckpoint DEF OnTheWay, ProcessAt
<1>3. Logged'
  BY NotNull, CheckpointFields, OnePosition, OneCheckpoint DEF Logged, ProcessAt
<1>4. Answered'
  BY NotNull, CheckpointFields, OnePosition, OneCheckpoint DEF Answered, ProcessAt
<1> QED
  BY <1>1, <1>2, <1>3, <1>4

LEMMA RemoveJournalKeepsIInv ==
  ASSUME IInv, RemoveJournal
  PROVE  IInv'
<1> USE NullAssumption DEF IInv, Flowing, args, process, disk, ended, bounds, Framework, Node,
      Gate, Point, RemoveJournal
<1>1. TypeOK'
  BY NotNull, CheckpointFields, OnePosition, OneCheckpoint DEF TypeOK, ProcessAt
<1>2. OnTheWay'
  BY NotNull, CheckpointFields, OnePosition, OneCheckpoint DEF OnTheWay, ProcessAt
<1>3. Logged'
  BY NotNull, CheckpointFields, OnePosition, OneCheckpoint DEF Logged, ProcessAt
<1>4. Answered'
  BY NotNull, CheckpointFields, OnePosition, OneCheckpoint DEF Answered, ProcessAt
<1> QED
  BY <1>1, <1>2, <1>3, <1>4

LEMMA RemovePauseKeepsIInv ==
  ASSUME IInv, RemovePause
  PROVE  IInv'
<1> USE NullAssumption DEF IInv, Flowing, args, process, disk, ended, bounds, Framework, Node,
      Gate, Point, RemovePause
<1>1. TypeOK'
  BY NotNull, CheckpointFields, OnePosition, OneCheckpoint DEF TypeOK, ProcessAt
<1>2. OnTheWay'
  BY NotNull, CheckpointFields, OnePosition, OneCheckpoint DEF OnTheWay, ProcessAt
<1>3. Logged'
  BY NotNull, CheckpointFields, OnePosition, OneCheckpoint DEF Logged, ProcessAt
<1>4. Answered'
  BY NotNull, CheckpointFields, OnePosition, OneCheckpoint DEF Answered, ProcessAt
<1> QED
  BY <1>1, <1>2, <1>3, <1>4

LEMMA RemoveFinalKeepsIInv ==
  ASSUME IInv, RemoveFinal
  PROVE  IInv'
<1> USE NullAssumption DEF IInv, Flowing, args, process, disk, ended, bounds, Framework, Node,
      Gate, Point, RemoveFinal
<1>1. TypeOK'
  BY NotNull, CheckpointFields, OnePosition, OneCheckpoint DEF TypeOK, ProcessAt
<1>2. OnTheWay'
  BY NotNull, CheckpointFields, OnePosition, OneCheckpoint DEF OnTheWay, ProcessAt
<1>3. Logged'
  BY NotNull, CheckpointFields, OnePosition, OneCheckpoint DEF Logged, ProcessAt
<1>4. Answered'
  BY NotNull, CheckpointFields, OnePosition, OneCheckpoint DEF Answered, ProcessAt
<1> QED
  BY <1>1, <1>2, <1>3, <1>4

LEMMA BeginKeepsIInv ==
  ASSUME IInv, Begin
  PROVE  IInv'
<1> USE NullAssumption DEF IInv, Flowing, args, process, disk, ended, bounds, Framework, Node,
      Gate, Point, Begin
<1>1. TypeOK'
  BY NotNull, CheckpointFields, OnePosition, OneCheckpoint, AtTheStart, WayNodes, Progress
      DEF TypeOK, ProcessAt
<1>2. OnTheWay'
  BY NotNull, CheckpointFields, OnePosition, OneCheckpoint, AtTheStart, WayNodes, Progress
      DEF OnTheWay, ProcessAt
<1>3. Logged'
  BY NotNull, CheckpointFields, OnePosition, OneCheckpoint, AtTheStart, WayNodes, Progress
      DEF Logged, ProcessAt
<1>4. Answered'
  BY AtTheStart, Progress DEF TypeOK, Answered
<1> QED
  BY <1>1, <1>2, <1>3, <1>4

LEMMA AskKeepsIInv ==
  ASSUME IInv, Ask
  PROVE  IInv'
<1>1. PICK k \in 0..12 : k \in {2, 10} /\ memory = StateAt(k) /\ node = NodeAt(k)
  BY WayNodes, NullAssumption DEF IInv, Flowing, OnTheWay, ProcessAt, Ask, Gate, Node, Point
<1>2. /\ node' = "paused" /\ checkpoint' = CheckpointAt(k, TRUE)
      /\ node \in Gate /\ ~answer
      /\ UNCHANGED <<framework, operator, running, memory, answer, pause, final, journal,
                     last, outcome, answers, faults, phases>>
  BY <1>1 DEF Ask, CheckpointAt, args, ended, bounds
<1>3. Flowing /\ Flowing'
  BY <1>2, NullAssumption DEF Flowing, Node, Point, Gate
<1>4. TypeOK'
  BY <1>2, <1>3, NullAssumption DEF IInv, TypeOK, Point, Node, Gate
<1>5. OnTheWay'
  <2>1. ProcessAt(k)'
    BY <1>1, <1>2 DEF ProcessAt
  <2>2. /\ memory = StateAt(2) => k = 2
        /\ memory = StateAt(10) => k = 10
    BY <1>1, OnePosition
  <2>3. \E j \in 0..12, b \in BOOLEAN : checkpoint' = CheckpointAt(j, b)
    <3>1. k \in 0..12
      BY <1>1
    <3> QED
      BY <1>2, <3>1
  <2> QED
    BY <1>2, <2>1, <2>2, <2>3 DEF IInv, OnTheWay
<1>6. Logged'
  <2>1. \A j \in 0..12 : j \in 4..9 /\ memory' = StateAt(j) => journal' # <<>>
    BY <1>2, <1>3 DEF IInv, Logged
  <2>2. \A j \in 0..12, b \in BOOLEAN : j \in 4..9 => checkpoint' # CheckpointAt(j, b)
    <3>1. k \notin 4..9
      BY <1>1
    <3> QED
      BY <1>2, <3>1, PositionOf
  <2> QED
    BY <1>2, <2>1, <2>2 DEF Logged
<1>7. Answered'
  <2>1. checkpoint'.state = memory
    BY <1>1, <1>2, CheckpointFields
  <2>2. Approvals(memory) \in Nat /\ Len(answers) \in Nat
    BY LenProperties DEF Approvals, IInv, TypeOK
  <2>3. Approvals(memory) + (IF answer THEN 1 ELSE 0) <= Len(answers)
    BY <1>3 DEF IInv, Answered
  <2>4. Approvals(memory) <= Len(answers)
    BY <2>2, <2>3
  <2> QED
    BY <1>2, <2>1, <2>3, <2>4 DEF IInv, Answered
<1> QED
  BY <1>4, <1>5, <1>6, <1>7 DEF IInv

LEMMA TruncateResultKeepsIInv ==
  ASSUME IInv, TruncateResult
  PROVE  IInv'
<1> USE NullAssumption DEF IInv, Flowing, args, process, disk, ended, bounds, Framework, Node,
      Gate, Point, TruncateResult, AsIntended, MafAsIntended, Result
<1>1. TypeOK'
  BY NotNull, CheckpointFields, OnePosition, OneCheckpoint, WayNodes DEF TypeOK, ProcessAt
<1>2. OnTheWay'
  <2>1. PICK k \in 0..12 : ProcessAt(k)
    BY DEF OnTheWay
  <2>2. \/ node = "paused" /\ k \in {2, 10} /\ running # "resume-promotion"
        \/ node = "end" /\ k = 12 /\ running = "resume-promotion"
    BY <2>1, WayNodes DEF ProcessAt
  <2>3. ProcessAt(k)'
    BY <2>1, <2>2 DEF ProcessAt
  <2>4. /\ memory' = StateAt(2) => checkpoint' = CheckpointAt(2, TRUE)
        /\ memory' = StateAt(10) => checkpoint' = CheckpointAt(10, TRUE)
    <3>1. CASE k = 12
      <4>1. memory' = StateAt(12)
        BY <2>1, <3>1 DEF ProcessAt
      <4>2. StateAt(12) # StateAt(2) /\ StateAt(12) # StateAt(10)
        BY OnePosition
      <4> QED
        BY <4>1, <4>2
    <3>2. CASE node = "paused"
      BY <3>2 DEF OnTheWay
    <3> QED
      BY <2>2, <3>1, <3>2
  <2>5. running' = "resume-promotion" <=> memory' = StateAt(12)
    BY <2>1, <2>2, NotNull, CheckpointFields, OnePosition, OneCheckpoint DEF ProcessAt
  <2> QED
    BY <2>3, <2>4, <2>5 DEF OnTheWay
<1>3. Logged'
  BY NotNull, CheckpointFields, OnePosition, OneCheckpoint, WayNodes DEF Logged, ProcessAt
<1>4. Answered'
  <2>1. \A s : Approvals(s) \in Nat
    BY DEF Approvals
  <2>2. Flowing /\ Flowing'
    OBVIOUS
  <2> QED
    BY <2>1, <2>2 DEF Answered, TypeOK
<1> QED
  BY <1>1, <1>2, <1>3, <1>4

LEMMA WriteResultKeepsIInv ==
  ASSUME IInv, WriteResult
  PROVE  IInv'
<1> USE NullAssumption DEF IInv, Flowing, args, process, disk, ended, bounds, Framework, Node,
      Gate, Point, WriteResult, Result
<1>1. TypeOK'
  BY NotNull, CheckpointFields, OnePosition, OneCheckpoint, WayNodes DEF TypeOK, ProcessAt
<1>2. OnTheWay'
  <2>1. PICK k \in 0..12 : k \in {2, 10, 12} /\ ProcessAt(k)
    BY WayNodes DEF OnTheWay, ProcessAt
  <2>2. running = "resume-promotion" <=> k = 12
    BY <2>1, NotNull, CheckpointFields, OnePosition, OneCheckpoint DEF OnTheWay, ProcessAt
  <2>3. ProcessAt(k)'
    BY <2>1 DEF ProcessAt
  <2>4. k # 12 => checkpoint = CheckpointAt(k, TRUE)
    BY <2>1 DEF OnTheWay, ProcessAt
  <2>5. final' \in {Null, Torn, StateAt(12)}
    BY <2>1, <2>2 DEF OnTheWay, ProcessAt
  <2>6. pause' \in {Null, Torn, CheckpointAt(2, TRUE), CheckpointAt(10, TRUE)}
    BY <2>1, <2>2, <2>4 DEF OnTheWay
  <2>7. checkpoint' # Null => \E j \in 0..12, b \in BOOLEAN : checkpoint' = CheckpointAt(j, b)
    BY DEF OnTheWay
  <2>8. k \in 0..12
    OBVIOUS
  <2>9. node' = "closing"
    OBVIOUS
  <2> QED
    BY <2>3, <2>5, <2>6, <2>7, <2>8, <2>9 DEF OnTheWay
<1>3. Logged'
  BY NotNull, CheckpointFields, OnePosition, OneCheckpoint, WayNodes DEF Logged, ProcessAt
<1>4. Answered'
  <2>1. \A s : Approvals(s) \in Nat
    BY DEF Approvals
  <2>2. Flowing /\ Flowing'
    OBVIOUS
  <2> QED
    BY <2>1, <2>2 DEF Answered, TypeOK
<1> QED
  BY <1>1, <1>2, <1>3, <1>4

LEMMA EndKeepsIInv ==
  ASSUME IInv, NEW how \in {"ok", "asserted", "died"}, End(how),
         UNCHANGED <<args, disk, answers>>, faults' \in Nat, phases' \in Nat
  PROVE  IInv'
<1> USE NullAssumption DEF IInv, Flowing, args, process, disk, ended, bounds, Framework, Node,
      Gate, Point, End
<1>1. TypeOK'
  BY DEF TypeOK
<1>2. OnTheWay'
  BY DEF OnTheWay
<1>3. Logged'
  BY DEF Logged
<1>4. Answered'
  BY DEF Answered
<1> QED
  BY <1>1, <1>2, <1>3, <1>4

\* The node at a position returns, and the process is at the next one.
Advance(k, n) ==
  /\ n = k + 1 /\ memory = StateAt(k)
  /\ memory' = StateAt(n) /\ node' = NodeAt(n) /\ checkpoint' = CheckpointAt(n, FALSE)
  /\ node' \in Node \cup {"end"}
  /\ node' \notin {Null, "reset", "recorded", "paused", "writing", "closing"}
  /\ Flowing /\ Flowing'
  /\ UNCHANGED <<framework, operator, running, pause, final, journal, last, outcome, answers,
                 verdict, faults, phases>>

\* The three ways a node returns: without a gate or a record, ...
LEMMA PlainAdvances ==
  ASSUME IInv, Plain
  PROVE  \E k, n \in 0..12 : /\ Advance(k, n) /\ k \notin {2, 3, 7, 10, 12} /\ ~answer
                             /\ answer' = FALSE
<1>1. PICK k \in 0..12 : memory = StateAt(k) /\ node = NodeAt(k) /\ k \notin {2, 3, 7, 10, 12}
  BY WayNodes, NullAssumption DEF IInv, Flowing, OnTheWay, ProcessAt, Plain, Gate, Node, Point
<1>2. PICK n \in 0..12 : n = k + 1
  BY <1>1
<1>3. memory' = StateAt(n) /\ node' = NodeAt(n) /\ checkpoint' = CheckpointAt(n, FALSE)
  <2>1. k # 12
    BY <1>1
  <2> QED
    BY <1>1, <1>2, <2>1, ReturnLeadsOn DEF Plain
<1>4. /\ node' \in Node \cup {"end"}
      /\ node' \notin {Null, "reset", "recorded", "paused", "writing", "closing"}
  BY <1>3, WayNodes, NullAssumption DEF Node, Gate, Point
<1>5. Flowing /\ Flowing'
  BY <1>4, NullAssumption DEF Flowing, Node, Gate, Point, Plain
<1>6. UNCHANGED <<framework, operator, running, pause, final, journal, last, outcome, answers,
                 verdict, faults, phases>>
  BY DEF Plain, args, ended, bounds
<1>7. k \notin {2, 3, 7, 10, 12} /\ ~answer /\ answer' = FALSE
  BY <1>1 DEF Plain, Node, IInv, TypeOK
<1> QED
  BY <1>1, <1>2, <1>3, <1>4, <1>5, <1>6, <1>7 DEF Advance

\* ... behind an answered gate, ...
LEMMA ApproveAdvances ==
  ASSUME IInv, Approve
  PROVE  \E k, n \in 0..12 : Advance(k, n) /\ k \in {2, 10} /\ answer /\ answer' = FALSE
<1>1. PICK k \in 0..12 : memory = StateAt(k) /\ node = NodeAt(k) /\ k \in {2, 10}
  BY WayNodes, NullAssumption DEF IInv, Flowing, OnTheWay, ProcessAt, Approve, Gate, Node, Point
<1>2. PICK n \in 0..12 : n = k + 1
  BY <1>1
<1>3. memory' = StateAt(n) /\ node' = NodeAt(n) /\ checkpoint' = CheckpointAt(n, FALSE)
  <2>1. k # 12
    BY <1>1
  <2> QED
    BY <1>1, <1>2, <2>1, ReturnLeadsOn DEF Approve
<1>4. /\ node' \in Node \cup {"end"}
      /\ node' \notin {Null, "reset", "recorded", "paused", "writing", "closing"}
  BY <1>3, WayNodes, NullAssumption DEF Node, Gate, Point
<1>5. Flowing /\ Flowing'
  BY <1>4, NullAssumption DEF Flowing, Node, Gate, Point, Approve
<1>6. UNCHANGED <<framework, operator, running, pause, final, journal, last, outcome, answers,
                 verdict, faults, phases>>
  BY DEF Approve, args, ended, bounds
<1>7. k \in {2, 10} /\ answer /\ answer' = FALSE
  BY <1>1 DEF Approve
<1> QED
  BY <1>1, <1>2, <1>3, <1>4, <1>5, <1>6, <1>7 DEF Advance

\* ... behind the record of an execution.
LEMMA ExecutedAdvances ==
  ASSUME IInv, Executed
  PROVE  \E k, n \in 0..12 : /\ Advance(k, n) /\ k \in {3, 7} /\ node = "recorded" /\ ~answer
                             /\ answer' = FALSE
<1>1. PICK k \in 0..12 : memory = StateAt(k) /\ k \in {3, 7}
  BY WayNodes, NullAssumption DEF IInv, Flowing, OnTheWay, ProcessAt, Executed, Gate, Node, Point
<1>2. PICK n \in 0..12 : n = k + 1
  BY <1>1
<1>3. memory' = StateAt(n) /\ node' = NodeAt(n) /\ checkpoint' = CheckpointAt(n, FALSE)
  <2>1. k # 12
    BY <1>1
  <2> QED
    BY <1>1, <1>2, <2>1, ExecutedLeadsOn DEF Executed
<1>4. /\ node' \in Node \cup {"end"}
      /\ node' \notin {Null, "reset", "recorded", "paused", "writing", "closing"}
  BY <1>3, WayNodes, NullAssumption DEF Node, Gate, Point
<1>5. Flowing /\ Flowing'
  BY <1>4, NullAssumption DEF Flowing, Node, Gate, Point, Executed
<1>6. UNCHANGED <<framework, operator, running, pause, final, journal, last, outcome, answers,
                 verdict, faults, phases>>
  BY DEF Executed, args, ended, bounds
<1>7. k \in {3, 7} /\ node = "recorded" /\ ~answer /\ answer' = FALSE
  BY <1>1 DEF Executed, IInv, TypeOK, Gate
<1> QED
  BY <1>1, <1>2, <1>3, <1>4, <1>5, <1>6, <1>7 DEF Advance

LEMMA PlainKeepsIInv ==
  ASSUME IInv, Plain
  PROVE  IInv'
<1>1. PICK k, n \in 0..12 : /\ Advance(k, n) /\ k \notin {2, 3, 7, 10, 12} /\ ~answer
                            /\ answer' = FALSE
  BY PlainAdvances
<1>2. TypeOK'
  <2>1. /\ UNCHANGED <<framework, operator, running, journal, answers, outcome, faults, phases>>
        /\ node \notin {Null, "reset"} /\ node' \notin {Null, "reset"}
        /\ node' \in Node \cup {"end"}
        /\ ~answer' /\ answer' \in BOOLEAN
    BY <1>1 DEF Advance, Flowing
  <2> QED
    BY <2>1, NullAssumption DEF Flowing, IInv, TypeOK, Point
<1>3. OnTheWay'
  <2>1. ProcessAt(n)'
    BY <1>1 DEF Advance, ProcessAt
  <2> QED
    BY <1>1, <2>1 DEF Advance, IInv, OnTheWay
<1>4. Logged'
  <2>1. n \in 4..9 => journal # <<>>
    BY <1>1 DEF Advance, IInv, Logged
  <2>2. \A j \in 0..12 : j \in 4..9 /\ memory' = StateAt(j) => j = n
    BY <1>1, PositionOf DEF Advance
  <2>3. \A j \in 0..12, b \in BOOLEAN : checkpoint' = CheckpointAt(j, b) => j = n
    <3>1. checkpoint' = CheckpointAt(n, FALSE)
      BY <1>1 DEF Advance
    <3> QED
      BY <3>1, PositionOf
  <2> QED
    BY <1>1, <2>1, <2>2, <2>3 DEF Advance, Logged
<1>5. Answered'
  <2>1. checkpoint'.state = memory'
    BY <1>1, CheckpointFields DEF Advance
  <2>2. Approvals(memory') = Approvals(memory)
    BY <1>1, Progress DEF Advance
  <2>3. Approvals(memory) \in Nat /\ Len(answers) \in Nat
    BY LenProperties DEF Approvals, IInv, TypeOK
  <2>4. Approvals(memory) + (IF answer THEN 1 ELSE 0) <= Len(answers)
    BY <1>1 DEF Advance, IInv, Answered
  <2>5. Approvals(memory') <= Len(answers) /\ ~answer'
    BY <1>1, <2>2, <2>3, <2>4
  <2>6. answers' = answers /\ pause' = pause /\ final' = final
    BY <1>1 DEF Advance
  <2> QED
    BY <2>1, <2>2, <2>3, <2>5, <2>6 DEF IInv, Answered
<1> QED
  BY <1>2, <1>3, <1>4, <1>5 DEF IInv

LEMMA ApproveKeepsIInv ==
  ASSUME IInv, Approve
  PROVE  IInv'
<1>1. PICK k, n \in 0..12 : Advance(k, n) /\ k \in {2, 10} /\ answer /\ answer' = FALSE
  BY ApproveAdvances
<1>2. TypeOK'
  <2>1. /\ UNCHANGED <<framework, operator, running, journal, answers, outcome, faults, phases>>
        /\ node \notin {Null, "reset"} /\ node' \notin {Null, "reset"}
        /\ node' \in Node \cup {"end"}
        /\ ~answer' /\ answer' \in BOOLEAN
    BY <1>1 DEF Advance, Flowing
  <2> QED
    BY <2>1, NullAssumption DEF Flowing, IInv, TypeOK, Point
<1>3. OnTheWay'
  <2>1. ProcessAt(n)'
    BY <1>1 DEF Advance, ProcessAt
  <2> QED
    BY <1>1, <2>1 DEF Advance, IInv, OnTheWay
<1>4. Logged'
  <2>1. n \notin 4..9
    BY <1>1 DEF Advance
  <2>2. \A j \in 0..12 : memory' = StateAt(j) => j = n
    BY <1>1, PositionOf DEF Advance
  <2>3. \A j \in 0..12, b \in BOOLEAN : checkpoint' = CheckpointAt(j, b) => j = n
    <3>1. checkpoint' = CheckpointAt(n, FALSE)
      BY <1>1 DEF Advance
    <3> QED
      BY <3>1, PositionOf
  <2> QED
    BY <1>1, <2>1, <2>2, <2>3 DEF Advance, Logged
<1>5. Answered'
  <2>1. checkpoint'.state = memory'
    BY <1>1, CheckpointFields DEF Advance
  <2>2. Approvals(memory') = Approvals(memory) + 1
    BY <1>1, Progress DEF Advance
  <2>3. Approvals(memory) \in Nat /\ Len(answers) \in Nat
    BY LenProperties DEF Approvals, IInv, TypeOK
  <2>4. Approvals(memory) + (IF answer THEN 1 ELSE 0) <= Len(answers)
    BY <1>1 DEF Advance, IInv, Answered
  <2>5. Approvals(memory') <= Len(answers) /\ ~answer'
    BY <1>1, <2>2, <2>3, <2>4
  <2>6. answers' = answers /\ pause' = pause /\ final' = final
    BY <1>1 DEF Advance
  <2> QED
    BY <2>1, <2>2, <2>3, <2>5, <2>6 DEF IInv, Answered
<1> QED
  BY <1>2, <1>3, <1>4, <1>5 DEF IInv

LEMMA ExecutedKeepsIInv ==
  ASSUME IInv, Executed
  PROVE  IInv'
<1>1. PICK k, n \in 0..12 : /\ Advance(k, n) /\ k \in {3, 7} /\ node = "recorded" /\ ~answer
                            /\ answer' = FALSE
  BY ExecutedAdvances
<1>2. TypeOK'
  <2>1. /\ UNCHANGED <<framework, operator, running, journal, answers, outcome, faults, phases>>
        /\ node \notin {Null, "reset"} /\ node' \notin {Null, "reset"}
        /\ node' \in Node \cup {"end"}
        /\ ~answer' /\ answer' \in BOOLEAN
    BY <1>1 DEF Advance, Flowing
  <2> QED
    BY <2>1, NullAssumption DEF Flowing, IInv, TypeOK, Point
<1>3. OnTheWay'
  <2>1. ProcessAt(n)'
    BY <1>1 DEF Advance, ProcessAt
  <2> QED
    BY <1>1, <2>1 DEF Advance, IInv, OnTheWay
<1>4. Logged'
  BY <1>1 DEF Advance, IInv, Logged
<1>5. Answered'
  <2>1. checkpoint'.state = memory'
    BY <1>1, CheckpointFields DEF Advance
  <2>2. Approvals(memory') = Approvals(memory)
    BY <1>1, Progress DEF Advance
  <2>3. Approvals(memory) \in Nat /\ Len(answers) \in Nat
    BY LenProperties DEF Approvals, IInv, TypeOK
  <2>4. Approvals(memory) + (IF answer THEN 1 ELSE 0) <= Len(answers)
    BY <1>1 DEF Advance, IInv, Answered
  <2>5. Approvals(memory') <= Len(answers) /\ ~answer'
    BY <1>1, <2>2, <2>3, <2>4
  <2>6. answers' = answers /\ pause' = pause /\ final' = final
    BY <1>1 DEF Advance
  <2> QED
    BY <2>1, <2>2, <2>3, <2>5, <2>6 DEF IInv, Answered
<1> QED
  BY <1>2, <1>3, <1>4, <1>5 DEF IInv

LEMMA RecordOnceKeepsIInv ==
  ASSUME IInv, RecordOnce
  PROVE  IInv'
<1>1. PICK k \in 0..12 : memory = StateAt(k) /\ k \in {3, 7}
  BY WayNodes, NullAssumption DEF IInv, Flowing, OnTheWay, ProcessAt, RecordOnce, Node, Point
<1>2. /\ node = "execute" /\ node' = "recorded"
      /\ UNCHANGED <<framework, operator, running, memory, answer, checkpoint, pause, final,
                     last, outcome, answers, faults, phases>>
  BY DEF RecordOnce, args, ended, bounds
<1>3. Flowing /\ Flowing'
  BY <1>2, NullAssumption DEF Flowing, Node, Point
<1>4. journal' \in {<<0>>, <<0, 1>>}
  <2>1. memory.attempt = (IF k = 3 THEN 0 ELSE 1)
    BY <1>1, Progress
  <2>2. k = 7 => journal # <<>>
    BY <1>1, <1>3 DEF IInv, Logged
  <2>3. CASE journal = <<>>
    <3>1. journal' = Append(journal, memory.attempt)
      BY <2>3 DEF RecordOnce
    <3> QED
      BY <1>1, <2>1, <2>2, <2>3, <3>1, Appended
  <2>4. CASE journal = <<0>>
    <3>1. k = 3 => journal' = journal
      BY <2>1, <2>4 DEF RecordOnce
    <3>2. k # 3 => journal' = Append(journal, 1)
      BY <2>1, <2>4 DEF RecordOnce
    <3> QED
      BY <2>4, <3>1, <3>2, Appended
  <2>5. CASE journal = <<0, 1>>
    <3>1. journal' = journal
      BY <2>1, <2>5 DEF RecordOnce
    <3> QED
      BY <2>5, <3>1
  <2> QED
    BY <2>3, <2>4, <2>5 DEF IInv, TypeOK
<1>5. journal' # <<>>
  BY <1>4
<1>6. TypeOK'
  BY <1>2, <1>3, <1>4, NullAssumption DEF IInv, TypeOK, Point, Node, Gate
<1>7. OnTheWay'
  <2>1. ProcessAt(k)'
    BY <1>1, <1>2 DEF ProcessAt
  <2> QED
    BY <1>2, <1>3, <2>1 DEF IInv, OnTheWay
<1>8. Logged'
  BY <1>5 DEF Logged
<1>9. Answered'
  BY <1>2, <1>3 DEF IInv, Answered
<1> QED
  BY <1>6, <1>7, <1>8, <1>9 DEF IInv

LEMMA ResumeKeepsIInv ==
  ASSUME IInv, NEW phase \in {"resume-intent", "resume-promotion"}, Resume(phase)
  PROVE  IInv'
<1>1. \E k \in 0..12, b \in BOOLEAN :
        ResumePoint = CheckpointAt(k, b) /\ (framework = "maf" => k \in {2, 10})
  <2>1. CASE framework = "maf"
    <3>1. ResumePoint = CheckpointAt(2, TRUE) \/ ResumePoint = CheckpointAt(10, TRUE)
      BY <2>1 DEF IInv, OnTheWay, ResumePoint, Resume
    <3>2. 2 \in 0..12 /\ 10 \in 0..12 /\ TRUE \in BOOLEAN
      OBVIOUS
    <3> QED
      BY <3>1, <3>2
  <2>2. CASE framework # "maf"
    BY <2>2 DEF IInv, OnTheWay, ResumePoint, Resume
  <2> QED
    BY <2>1, <2>2
<1>2. PICK k \in 0..12, b \in BOOLEAN :
        ResumePoint = CheckpointAt(k, b) /\ (framework = "maf" => k \in {2, 10})
  BY <1>1
<1>3. memory' = StateAt(k) /\ node' = NodeAt(k)
  BY <1>2, CheckpointFields DEF Resume
<1>4. /\ running' = phase /\ answers' = Append(answers, phase) /\ phases' = phases + 1
      /\ UNCHANGED <<framework, operator, checkpoint, pause, final, journal, last, outcome, faults>>
  BY DEF Resume, args, disk, ended
<1>5. answer' \in BOOLEAN /\ (answer' => node' \in Gate)
  BY UnaskedAssumption DEF Resume
<1>6. node' \in Node \cup {"end"} /\ node' \notin {Null, "reset", "paused", "writing", "recorded"}
  BY <1>3, WayNodes, NullAssumption DEF Node, Gate, Point
<1>7. answers' \in Seq({"resume-intent", "resume-promotion"}) /\ Len(answers') = Len(answers) + 1
      /\ Len(answers) \in Nat
  BY <1>4, AppendProperties, LenProperties DEF IInv, TypeOK
<1>8. TypeOK'
  BY <1>4, <1>5, <1>6, <1>7, NullAssumption DEF IInv, TypeOK, Flowing, Point
<1>9. OnTheWay'
  <2>1. ProcessAt(k)' /\ k \in 0..12
    BY <1>3 DEF ProcessAt
  <2> QED
    BY <1>4, <1>6, <2>1 DEF IInv, OnTheWay
<1>10. Logged'
  <2>1. \A j \in 0..12 : j \in 4..9 /\ memory' = StateAt(j) => j = k
    BY <1>3, PositionOf
  <2>2. k \in 4..9 => journal # <<>>
    BY <1>2 DEF IInv, Logged, ResumePoint, TypeOK, Framework
  <2> QED
    BY <1>4, <1>6, <2>1, <2>2 DEF IInv, Logged
<1>11. Answered'
  <2>1. Approvals(memory') <= Len(answers)
    BY DEF IInv, Answered, Resume, ResumePoint
  <2>2. \A s : Approvals(s) \in Nat
    BY DEF Approvals
  <2> QED
    BY <1>4, <1>7, <2>1, <2>2 DEF IInv, Answered
<1> QED
  BY <1>8, <1>9, <1>10, <1>11 DEF IInv

\* A phase that starts no process changes nothing but how it ended.
LEMMA RestKeepsIInv ==
  ASSUME IInv, UNCHANGED <<args, process, disk, answers, faults>>, phases' \in Nat,
         outcome' \in {"ok", "asserted", "raised", "died"}
  PROVE  IInv'
<1> USE DEF IInv, Flowing, args, process, disk
<1>1. TypeOK'
  BY DEF TypeOK
<1>2. OnTheWay'
  BY DEF OnTheWay, ProcessAt
<1>3. Logged'
  BY DEF Logged
<1>4. Answered'
  BY DEF Answered
<1> QED
  BY <1>1, <1>2, <1>3, <1>4

LEMMA NextKeepsIInv ==
  ASSUME IInv, [Next]_vars
  PROVE  IInv'
<1>1. faults \in Nat /\ phases \in Nat
  BY DEF IInv, TypeOK
<1>2. CASE Start
  BY <1>2, StartKeepsIInv
<1>3. CASE Verify
  <2>1. /\ UNCHANGED <<args, process, disk, answers, faults>> /\ phases' = phases + 1
        /\ outcome' \in {"ok", "asserted", "raised"}
    BY <1>3 DEF Verify, VerifySnapshot, VerifyFinal, VerifyRaises, Judge
  <2> QED
    BY <1>1, <2>1, RestKeepsIInv
<1>4. ASSUME NEW phase \in {"resume-intent", "resume-promotion"}, Resume(phase)
      PROVE  IInv'
  BY <1>4, ResumeKeepsIInv
<1>5. ASSUME NEW phase \in {"resume-intent", "resume-promotion"}, ResumeRaises(phase)
      PROVE  IInv'
  BY <1>1, <1>5, RestKeepsIInv DEF ResumeRaises
<1>6. CASE RemoveCheckpoints
  BY <1>6, RemoveCheckpointsKeepsIInv
<1>7. CASE RemoveJournal
  BY <1>7, RemoveJournalKeepsIInv
<1>8. CASE RemovePause
  BY <1>8, RemovePauseKeepsIInv
<1>9. CASE RemoveFinal
  BY <1>9, RemoveFinalKeepsIInv
<1>10. CASE Begin
  BY <1>10, BeginKeepsIInv
<1>11. CASE Plain
  BY <1>11, PlainKeepsIInv
<1>12. CASE RecordOnce
  BY <1>12, RecordOnceKeepsIInv
<1>13. CASE Executed
  BY <1>13, ExecutedKeepsIInv
<1>14. CASE Approve
  BY <1>14, ApproveKeepsIInv
<1>15. CASE Ask
  BY <1>15, AskKeepsIInv
<1>16. CASE TruncateResult
  BY <1>16, TruncateResultKeepsIInv
<1>17. CASE WriteResult
  BY <1>17, WriteResultKeepsIInv
<1>18. CASE Close \/ AssertionFails
  BY <1>1, <1>18, EndKeepsIInv DEF Close, AssertionFails, bounds
<1>19. CASE Die
  BY <1>1, <1>19, EndKeepsIInv DEF Die
<1>20. CASE UNCHANGED vars
  BY <1>1, <1>20, RestKeepsIInv DEF vars, ended, bounds, IInv, TypeOK
<1> QED
  BY <1>2, <1>3, <1>4, <1>5, <1>6, <1>7, <1>8, <1>9, <1>10, <1>11, <1>12, <1>13, <1>14, <1>15,
     <1>16, <1>17, <1>18, <1>19, <1>20 DEF Next, Work

LEMMA SpecIInv == Spec => []IInv
BY InitIInv, NextKeepsIInv, PTL DEF Spec
-----------------------------------------------------------------------------
\* Whatever dies, is run again or in another order, in either framework: each state,
\* in memory, in a checkpoint, in pause.json or in the final artifact, has gone the
\* characterization's way so far, no node left out or entered twice.
THEOREM OrchestrationTraces == Spec => []TracesAgree
<1>1. IInv => TracesAgree
  <2> SUFFICES ASSUME IInv, NEW s \in States
               PROVE  /\ Len(s.trace) <= Len(CommonTrace)
                      /\ s.trace = SubSeq(CommonTrace, 1, Len(s.trace))
    BY DEF TracesAgree
  <2>1. PICK k \in 0..12 : s = StateAt(k)
    <3>1. CASE s = memory /\ memory \notin {Null, Torn}
      BY <3>1 DEF IInv, TypeOK, OnTheWay, ProcessAt
    <3>2. CASE s = final /\ final \notin {Null, Torn}
      BY <3>2 DEF IInv, OnTheWay
    <3>3. CASE s = checkpoint.state /\ checkpoint \notin {Null, Torn}
      BY <3>3, NotNull, CheckpointFields, OnePosition, OneCheckpoint DEF IInv, OnTheWay
    <3>4. CASE s = pause.state /\ pause \notin {Null, Torn}
      <4>1. s = StateAt(2) \/ s = StateAt(10)
        <5>1. pause = CheckpointAt(2, TRUE) \/ pause = CheckpointAt(10, TRUE)
          BY <3>4 DEF IInv, OnTheWay
        <5>2. CheckpointAt(2, TRUE).state = StateAt(2) /\ CheckpointAt(10, TRUE).state = StateAt(10)
          BY CheckpointFields
        <5> QED
          BY <3>4, <5>1, <5>2
      <4> QED
        BY <4>1
    <3> QED
      BY <3>1, <3>2, <3>3, <3>4 DEF States
  <2>2. s.trace = SubSeq(CommonTrace, 1, k)
    BY <2>1 DEF StateAt
  <2>3. Len(s.trace) = k
    BY <2>2, TraceLength
  <2> QED
    BY <2>2, <2>3, TraceTyped
<1> QED
  BY <1>1, SpecIInv, PTL

\* Each execution takes effect once and in the order of attempts, however often the
\* node execute is entered and its record made again.
THEOREM OrchestrationJournal == Spec => []JournalOnce
<1>1. IInv => JournalOnce
  BY DEF IInv, TypeOK, JournalOnce
<1> QED
  BY <1>1, SpecIInv, PTL

\* No gate is passed twice on one answer of the operator.
THEOREM OrchestrationHuman == Spec => []HumanAtEveryGate
<1>1. IInv => HumanAtEveryGate
  <2> SUFFICES ASSUME IInv, NEW s \in States
               PROVE  Approvals(s) <= Len(answers)
    BY DEF HumanAtEveryGate
  <2>1. Approvals(s) \in Nat /\ Len(answers) \in Nat
    BY LenProperties DEF Approvals, IInv, TypeOK
  <2>2. CASE s = memory /\ memory \notin {Null, Torn}
    BY <2>1, <2>2 DEF IInv, TypeOK, Answered
  <2> QED
    BY <2>2 DEF States, IInv, Answered, OnTheWay
<1> QED
  BY <1>1, SpecIInv, PTL
-----------------------------------------------------------------------------
(* The operator who retries *)

\* What is said of LangGraph holds from the start, and every step keeps it.
LEMMA InitLangGraph == Init => LangGraphInv
<1> SUFFICES ASSUME Init PROVE LangGraphInv
  OBVIOUS
<1>1. pause = Null /\ ~Flowing /\ node \notin {"writing", "closing"}
  BY NullAssumption DEF Init, Flowing, Point
<1> QED
  BY <1>1 DEF LangGraphInv

LEMMA AdvanceKeepsLangGraph ==
  ASSUME LangGraphInv, NEW k \in 0..12, NEW n \in 0..12, Advance(k, n)
  PROVE  LangGraphInv'
<1>1. \A j \in 0..12 : memory' = StateAt(j) => j = n
  BY PositionOf DEF Advance
<1>2. checkpoint' = CheckpointAt(n, FALSE)
  BY DEF Advance
<1> QED
  BY <1>1, <1>2 DEF Advance, LangGraphInv

LEMMA NextKeepsLangGraph ==
  ASSUME IInv, LangGraphInv, [Next]_vars
  PROVE  LangGraphInv'
<1>1. CASE Plain
  BY <1>1, PlainAdvances, AdvanceKeepsLangGraph
<1>2. CASE Approve
  BY <1>2, ApproveAdvances, AdvanceKeepsLangGraph
<1>3. CASE Executed
  BY <1>3, ExecutedAdvances, AdvanceKeepsLangGraph
<1>4. CASE Ask
  <2>1. PICK k \in 0..12 : k \in {2, 10} /\ memory = StateAt(k) /\ node = NodeAt(k)
    BY <1>4, WayNodes, NullAssumption
    DEF IInv, Flowing, OnTheWay, ProcessAt, Ask, Gate, Node, Point
  <2>2. /\ framework' = framework /\ memory' = memory /\ pause' = pause /\ node' = "paused"
        /\ checkpoint' = CheckpointAt(k, TRUE)
    BY <1>4, <2>1 DEF Ask, CheckpointAt, args
  <2>3. \A j \in 0..12 : memory' = StateAt(j) => j = k
    BY <2>1, <2>2, PositionOf
  <2> QED
    BY <2>2, <2>3 DEF LangGraphInv
<1>5. CASE RecordOnce
  BY <1>5, NullAssumption DEF RecordOnce, LangGraphInv, Flowing, Node, Point, args
<1>6. CASE TruncateResult
  BY <1>6 DEF TruncateResult, LangGraphInv, args
<1>7. CASE WriteResult
  BY <1>7 DEF WriteResult, LangGraphInv, args
<1>8. CASE Close \/ AssertionFails \/ Die
  BY <1>8, NullAssumption DEF Close, AssertionFails, Die, End, LangGraphInv, Flowing, args,
      disk, Point
<1>9. CASE Start
  BY <1>9, NullAssumption DEF Start, LangGraphInv, Flowing, args, disk
<1>10. CASE Verify
  BY <1>10 DEF Verify, LangGraphInv, Flowing, args, disk, process
<1>11. ASSUME NEW phase \in {"resume-intent", "resume-promotion"}, Resume(phase)
       PROVE  LangGraphInv'
  <2> SUFFICES ASSUME framework = "langgraph" PROVE LangGraphInv'
    BY <1>11 DEF LangGraphInv, Resume, args
  <2>1. PICK k \in 0..12, b \in BOOLEAN : checkpoint = CheckpointAt(k, b)
    BY <1>11 DEF Resume, IInv, OnTheWay
  <2>2. memory' = StateAt(k) /\ node' = NodeAt(k) /\ checkpoint' = checkpoint /\ pause' = pause
    BY <1>11, <2>1, CheckpointFields DEF Resume, ResumePoint, disk
  <2>3. \A j \in 0..12 : memory' = StateAt(j) => j = k
    BY <2>2, PositionOf
  <2>4. node' \notin {"writing", "closing"}
    BY <2>2, WayNodes DEF Node, Gate
  <2> QED
    BY <2>1, <2>2, <2>3, <2>4 DEF LangGraphInv
<1>12. ASSUME NEW phase \in {"resume-intent", "resume-promotion"}, ResumeRaises(phase)
       PROVE  LangGraphInv'
  BY <1>12 DEF ResumeRaises, LangGraphInv, Flowing, args, process, disk
<1>13. CASE RemoveCheckpoints \/ RemoveJournal \/ RemovePause \/ RemoveFinal
  BY <1>13 DEF RemoveCheckpoints, RemoveJournal, RemovePause, RemoveFinal, LangGraphInv,
      Flowing, args, process
<1>14. CASE Begin
  <2>1. memory' = StateAt(0) /\ node' = "capture" /\ framework' = framework /\ pause' = pause
    BY <1>14, AtTheStart DEF Begin, args, disk
  <2>2. \A j \in 0..12 : memory' = StateAt(j) => j = 0
    BY <2>1, PositionOf
  <2> QED
    BY <2>1, <2>2 DEF LangGraphInv
<1>15. CASE UNCHANGED vars
  BY <1>15 DEF vars, args, process, disk, LangGraphInv, Flowing
<1> QED
  BY <1>1, <1>2, <1>3, <1>4, <1>5, <1>6, <1>7, <1>8, <1>9, <1>10, <1>11, <1>12, <1>13, <1>14,
     <1>15 DEF Next, Work

\* What the node says of the position.
LEMMA Behind ==
  ASSUME IInv, Flowing, NEW k \in 0..12, memory = StateAt(k)
  PROVE  /\ node \in Gate => k \in {2, 10}
         /\ node = "execute" => k \in {3, 7}
         /\ node = "recorded" => k \in {3, 7} /\ journal # <<>>
         /\ node = "paused" => k \in {2, 10} /\ checkpoint = CheckpointAt(k, TRUE)
         /\ node = "writing" => /\ k \in {2, 10, 12}
                                /\ k # 12 => checkpoint = CheckpointAt(k, TRUE)
                                /\ (running = "resume-promotion" <=> k = 12)
         /\ node = "closing" => k \in {2, 10, 12}
         /\ node = "end" => k = 12
         /\ answer => node \in Gate
<1>1. \A j \in 0..12 : memory = StateAt(j) => j = k
  BY PositionOf
<1>2. ProcessAt(k)
  BY <1>1 DEF IInv, OnTheWay, ProcessAt
<1>3. /\ node \in Gate => k \in {2, 10}
      /\ node = "execute" => k \in {3, 7}
      /\ node = "recorded" => k \in {3, 7}
      /\ node = "paused" => k \in {2, 10}
      /\ node \in {"writing", "closing"} => k \in {2, 10, 12}
      /\ node = "end" => k = 12
  BY <1>2, WayNodes DEF ProcessAt, Gate, Node
<1>4. node = "recorded" => journal # <<>>
  BY DEF IInv, Logged
<1>5. /\ node = "paused" => checkpoint = CheckpointAt(k, TRUE)
      /\ node = "writing" /\ k # 12 => checkpoint = CheckpointAt(k, TRUE)
  BY <1>3 DEF IInv, OnTheWay
<1>6. node = "writing" => (running = "resume-promotion" <=> k = 12)
  BY <1>1 DEF IInv, OnTheWay
<1>7. answer => node \in Gate
  BY DEF IInv, TypeOK
<1> QED
  BY <1>3, <1>4, <1>5, <1>6, <1>7

\* The two gates, asked, and the end.
LEMMA Gates ==
  /\ CheckpointAt(2, TRUE) # CheckpointAt(10, TRUE)
  /\ \A k \in {2, 10} : CheckpointAt(k, TRUE) \notin {Null, Torn}
  /\ CheckpointAt(2, TRUE).next = "intent_gate" /\ CheckpointAt(10, TRUE).next = "promotion_gate"
  /\ CheckpointAt(2, TRUE).state = StateAt(2) /\ CheckpointAt(10, TRUE).state = StateAt(10)
  /\ StateAt(12) \notin {Null, Torn}
<1>1. 2 \in 0..12 /\ 10 \in 0..12 /\ 12 \in 0..12 /\ TRUE \in BOOLEAN
  OBVIOUS
<1>2. NodeAt(2) = "intent_gate" /\ NodeAt(10) = "promotion_gate"
  BY <1>1, WayNodes
<1>3. /\ CheckpointAt(2, TRUE) \notin {Null, Torn} /\ CheckpointAt(10, TRUE) \notin {Null, Torn}
      /\ StateAt(12) \notin {Null, Torn}
  BY <1>1, NotNull
<1>4. CheckpointAt(2, TRUE) # CheckpointAt(10, TRUE)
  <2>1. Position(StateAt(2)) = 2 /\ Position(StateAt(10)) = 10
    BY <1>1, PositionOf
  <2>2. CheckpointAt(2, TRUE).state = StateAt(2) /\ CheckpointAt(10, TRUE).state = StateAt(10)
    BY CheckpointFields
  <2>3. StateAt(2) # StateAt(10)
    BY <2>1
  <2> QED
    BY <2>2, <2>3, Zenon
<1> QED
  BY <1>2, <1>3, <1>4, CheckpointFields

\* The points behind a gate or the end are none of the nodes, and Null none of either.
LEMMA Apart ==
  /\ Gate \subseteq Node
  /\ \A n \in Node \cup {Null} : n \notin {"reset", "recorded", "paused", "writing", "closing",
       "end"}
  /\ Null \notin Node /\ Null \notin {"pass", "fail"} /\ Null # Torn
  /\ \A i \in 1..4 : Null # Phases[i]
  /\ Null \notin {"start", "resume-intent", "resume-promotion", "verify"}
BY NullAssumption DEF Node, Gate, Point, Verdict, Phases

\* The steps of a process, and what is left of its variables when it ends.
Working ==
  \/ RemoveCheckpoints \/ RemoveJournal \/ RemovePause \/ RemoveFinal \/ Begin
  \/ Plain \/ RecordOnce \/ Executed \/ Approve \/ Ask
  \/ TruncateResult \/ WriteResult \/ Close \/ AssertionFails \/ Die

Ended(how) ==
  /\ running' = "none" /\ last' = running /\ outcome' = how
  /\ ~Flowing' /\ node' = Null
  /\ UNCHANGED <<framework, operator, checkpoint, pause, final, journal, verdict>>

\* The end of a process forgets what was in memory.
LEMMA Ends ==
  ASSUME NEW how, End(how), UNCHANGED <<args, disk, verdict>>
  PROVE  Ended(how)
BY DEF End, Ended, Flowing, args, disk

\* Whoever asks, records or writes is past the reset.
LEMMA Flows ==
  ASSUME RecordOnce \/ Ask \/ TruncateResult \/ WriteResult \/ Close \/ AssertionFails
  PROVE  Flowing
BY NullAssumption
  DEF RecordOnce, Ask, TruncateResult, WriteResult, Close, AssertionFails, Flowing, Gate, Node,
      Point

\* A process of the phase start goes no further than the intent gate.
LEMMA StartWorks ==
  ASSUME IInv, LangGraphInv, running = "start", StartInv, Working
  PROVE  (Starting /\ StartInv)' \/ (Intending /\ IntentInv)'
<1>1. CASE RemoveCheckpoints \/ RemoveJournal \/ RemovePause \/ RemoveFinal
  BY <1>1 DEF RemoveCheckpoints, RemoveJournal, RemovePause, RemoveFinal, Starting, StartInv,
      Flowing, args, process, ended
<1>2. CASE Begin
  <2>1. memory' = StateAt(0) /\ node' = "capture" /\ running' = "start"
        /\ UNCHANGED <<checkpoint, pause, final, journal, verdict, outcome>>
    BY <1>2, AtTheStart DEF Begin, args, disk, ended
  <2>2. \E k \in 0..12 : memory' = StateAt(k) /\ k <= 2 /\ k = 0
    BY <2>1
  <2> QED
    BY <2>1, <2>2 DEF Starting, StartInv
<1>3. ASSUME NEW k \in 0..12, NEW n \in 0..12, Advance(k, n), k \notin {2, 10}
      PROVE  (Starting /\ StartInv)'
  <2>1. k <= 2
    BY <1>3, PositionOf DEF StartInv, Advance
  <2>2. n <= 2 /\ memory' = StateAt(n) /\ node' # "closing" /\ running' = "start"
        /\ UNCHANGED <<pause, journal, verdict, outcome>>
    BY <1>3, <2>1 DEF Advance
  <2>3. checkpoint' # Null
    BY <1>3, NotNull DEF Advance
  <2> QED
    BY <2>2, <2>3 DEF Starting, StartInv
<1>4. CASE Plain
  BY <1>3, <1>4, PlainAdvances
<1>5. CASE Executed
  <2>1. PICK k \in 0..12, n \in 0..12 : Advance(k, n) /\ k \in {3, 7}
    BY <1>5, ExecutedAdvances
  <2>2. k \notin {2, 10}
    BY <2>1
  <2> QED
    BY <1>3, <2>1, <2>2
<1>6. CASE Approve
  BY <1>6 DEF Approve, IInv, TypeOK
<1>7. CASE Die
  <2>1. Ended("died")
    BY <1>7, Ends DEF Die
  <2> QED
    BY <2>1, Apart DEF Ended, Starting, Rests, StartInv
<1>8. ASSUME RecordOnce \/ Ask \/ TruncateResult \/ WriteResult \/ Close \/ AssertionFails
      PROVE  (Starting /\ StartInv)' \/ (Intending /\ IntentInv)'
  <2>1. PICK k \in 0..12 : memory = StateAt(k) /\ k <= 2 /\ (checkpoint = Null => k = 0)
    BY <1>8, Flows DEF StartInv
  <2>2. /\ node # "execute" /\ node # "end"
        /\ node \in {"paused", "writing"} => k = 2 /\ checkpoint = CheckpointAt(2, TRUE)
    <3>1. Flowing
      BY <1>8, Flows
    <3>2. /\ node = "execute" => k \in {3, 7}
          /\ node = "end" => k = 12
          /\ node \in {"paused", "writing"} => k \in {2, 10, 12}
      BY <2>1, <3>1, Behind
    <3>3. node \in {"paused", "writing"} => checkpoint = CheckpointAt(k, TRUE)
      BY <2>1, <3>1, Behind
    <3> QED
      <4>1. node # "execute" /\ node # "end"
        BY <2>1, <3>2
      <4>2. node \in {"paused", "writing"} => k = 2
        BY <2>1, <3>2
      <4> QED
        BY <4>1, <4>2, <3>3
  <2>3. /\ pause # Null => framework = "maf"
        /\ node \in {"writing", "closing"} => framework = "maf"
    BY DEF LangGraphInv, IInv, TypeOK, Framework
  <2>4. CASE Ask
    <3>1. checkpoint' # Null
      <4>1. k = 2 /\ node = NodeAt(2)
        BY <1>8, <2>1, <2>4, Flows, Behind, WayNodes, PositionOf
        DEF IInv, OnTheWay, ProcessAt, Ask, Gate
      <4>2. checkpoint' = CheckpointAt(2, TRUE)
        BY <2>1, <2>4, <4>1 DEF Ask, CheckpointAt
      <4> QED
        BY <4>2, Gates
    <3> QED
      BY <2>1, <2>4, <3>1 DEF Ask, args, ended, Starting, StartInv
  <2>5. CASE TruncateResult
    BY <2>1, <2>5 DEF TruncateResult, Result, args, ended, Starting, StartInv
  <2>6. CASE WriteResult
    <3>1. pause' = CheckpointAt(2, TRUE)
      BY <2>2, <2>6 DEF WriteResult, Result
    <3> QED
      BY <2>1, <2>6, <3>1 DEF WriteResult, args, ended, Starting, StartInv
  <2>7. CASE AssertionFails
    <3>1. node = "paused" /\ checkpoint.next = "intent_gate"
      BY <2>2, <2>7, Gates DEF AssertionFails
    <3> QED
      BY <2>7, <3>1 DEF AssertionFails, AsIntended, LangGraphAsIntended, MafAsIntended
  <2>8. CASE Close
    <3>1. Ended("ok")
      BY <2>8, Ends DEF Close
    <3>2. CASE framework = "maf"
      <4>1. pause = CheckpointAt(2, TRUE) /\ checkpoint # Null
        <5>1. node = "closing"
          BY <2>8, <3>2 DEF Close
        <5>2. k \in {2, 10, 12}
          <6>1. Flowing
            BY <1>8, Flows
          <6> QED
            BY <2>1, <5>1, <6>1, Behind
        <5> QED
          BY <2>1, <5>1, <5>2 DEF StartInv
      <4>2. CheckpointAt(2, TRUE) # CheckpointAt(10, TRUE) /\ CheckpointAt(2, TRUE) # Torn
        BY Gates
      <4> QED
        BY <3>1, <3>2, <4>1, <4>2, Apart
        DEF Ended, Intending, Rests, IntentInv, IntentPause, StartInv, Framework
    <3>3. CASE framework = "langgraph"
      <4>1. checkpoint = CheckpointAt(2, TRUE)
        BY <2>2, <2>3, <2>8, <3>3 DEF Close
      <4>2. IntentDatabase(2, TRUE)'
        BY <3>1, <4>1 DEF Ended, IntentDatabase, LoggedAt
      <4>3. checkpoint # Null
        BY <4>1, Gates
      <4>4. \E j \in 0..12, b \in BOOLEAN : IntentDatabase(j, b)'
        <5> WITNESS 2 \in 0..12, TRUE \in BOOLEAN
        <5> QED
          BY <4>2
      <4> QED
        BY <3>1, <3>3, <4>3, <4>4, Apart
        DEF Ended, Intending, Rests, IntentInv, StartInv
    <3> QED
      BY <3>2, <3>3 DEF IInv, TypeOK, Framework
  <2>9. CASE RecordOnce
    BY <2>2, <2>9 DEF RecordOnce
  <2> QED
    BY <1>8, <2>4, <2>5, <2>6, <2>7, <2>8, <2>9
<1> QED
  BY <1>1, <1>2, <1>4, <1>5, <1>6, <1>7, <1>8 DEF Working

\* What the log has does not get lost, and at the second execution it is full.
LEMMA Records ==
  ASSUME IInv, RecordOnce, NEW k \in 0..12, memory = StateAt(k)
  PROVE  /\ k \in {3, 7}
         /\ journal # <<>> => journal' # <<>>
         /\ journal = <<0, 1>> => journal' = <<0, 1>>
         /\ k = 7 /\ journal # <<>> => journal' = <<0, 1>>
<1>1. k \in {3, 7}
  BY Flows, Behind DEF RecordOnce
<1>2. memory.attempt = IF k = 3 THEN 0 ELSE 1
  BY <1>1, Progress
<1>3. journal \in {<<>>, <<0>>, <<0, 1>>}
  BY DEF IInv, TypeOK
<1> QED
  BY <1>1, <1>2, <1>3, Appended DEF RecordOnce

\* Only the phase start resets.
LEMMA NoReset ==
  ASSUME IInv, running # "start"
  PROVE  ~(RemoveCheckpoints \/ RemoveJournal \/ RemovePause \/ RemoveFinal \/ Begin)
BY DEF IInv, TypeOK, RemoveCheckpoints, RemoveJournal, RemovePause, RemoveFinal, Begin

\* A process of resume-intent: a node returns, ...
LEMMA IntentAdvances ==
  ASSUME IInv, LangGraphInv, running = "resume-intent", IntentInv,
         NEW k \in 0..12, NEW n \in 0..12, Advance(k, n), answer' = FALSE,
         k \notin {3, 7} \/ node = "recorded", k # 10 \/ answer, k # 2 \/ answer,
         node \notin {"writing", "closing", Null}
  PROVE  (Intending /\ IntentInv)'
<1>1. IntentAt(k)
  BY PositionOf DEF Advance, IntentInv, IntentAt
<1>2. /\ running' = "resume-intent" /\ node' \notin {"recorded", "closing"}
      /\ checkpoint' = CheckpointAt(n, FALSE)
      /\ memory' = StateAt(n) /\ n = k + 1
      /\ UNCHANGED <<framework, pause, journal, outcome, verdict, faults>>
  BY DEF Advance
<1>3. /\ n >= 3 /\ (n >= 4 => journal # <<>>) /\ (n >= 8 => journal = <<0, 1>>)
      /\ faults = 0 => n <= 10
  BY <1>1, <1>2, Behind DEF IntentAt, LoggedAt, Advance
<1>4. IntentAt(n)'
  BY <1>2, <1>3 DEF IntentAt, LoggedAt
<1>5. IntentDatabase(n, FALSE)'
  BY <1>2, <1>3 DEF IntentDatabase, LoggedAt
<1>6. framework = "maf" => IntentPause'
  BY <1>2 DEF IntentInv, IntentPause
<1>7. checkpoint' # Null
  BY <1>2, NotNull
<1>8. (\E b \in BOOLEAN : IntentDatabase(n, b))'
  <2> WITNESS FALSE \in BOOLEAN
  <2> QED
    BY <1>5
<1> QED
  BY <1>2, <1>4, <1>6, <1>7, <1>8 DEF Intending, IntentInv

\* ... it ends well, paused at the promotion gate, ...
LEMMA IntentEnds ==
  ASSUME IInv, LangGraphInv, running = "resume-intent", IntentInv, Close
  PROVE  (Promoting /\ PromotionInv)'
<1>1. Ended("ok")
  BY Ends DEF Close
<1>2. PICK k \in 0..12 : IntentAt(k)
  BY Flows DEF IntentInv
<1>3. CASE framework = "maf"
  <2>1. node = "closing" /\ pause = CheckpointAt(10, TRUE) /\ journal = <<0, 1>>
    BY <1>3, Gates DEF Close, IntentInv, IntentPause
  <2> QED
    BY <1>1, <1>3, <2>1, Apart DEF Ended, Promoting, Rests, PromotionInv, IntentInv
<1>4. CASE framework = "langgraph"
  <2>1. node = "paused"
    BY <1>4 DEF Close, LangGraphInv, AsIntended, LangGraphAsIntended
  <2>2. k \in {2, 10} /\ checkpoint = CheckpointAt(k, TRUE) /\ ~answer
    BY <1>2, <2>1, Flows, Behind, Apart DEF IntentAt, IInv, TypeOK
  <2>3. k = 10
    BY <1>2, <2>2 DEF IntentAt
  <2>4. checkpoint = CheckpointAt(10, TRUE) /\ journal = <<0, 1>>
    BY <1>2, <2>2, <2>3 DEF IntentAt, LoggedAt
  <2>5. \E j \in 0..12, b \in BOOLEAN : checkpoint = CheckpointAt(j, b) /\ j >= 10 /\ (j = 10 => b)
    <3> WITNESS 10 \in 0..12, TRUE \in BOOLEAN
    <3> QED
      BY <2>4
  <2> QED
    BY <1>1, <1>4, <2>4, <2>5, Apart DEF Ended, Promoting, Rests, PromotionInv, IntentInv
<1> QED
  BY <1>3, <1>4 DEF IInv, TypeOK, Framework

\* ... its assertion fails, which takes an earlier death, ...
LEMMA IntentFails ==
  ASSUME IInv, LangGraphInv, running = "resume-intent", IntentInv, AssertionFails
  PROVE  (Intending /\ IntentInv)'
<1>1. Ended("asserted") /\ faults' = faults
  BY Ends DEF AssertionFails, bounds
<1>2. PICK k \in 0..12 : IntentAt(k)
  BY Flows DEF IntentInv
<1>3. node = "end"
  <2> SUFFICES ASSUME node = "paused" PROVE FALSE
    BY DEF AssertionFails
  <2>1. k \in {2, 10} /\ checkpoint = CheckpointAt(k, TRUE) /\ ~answer
    BY <1>2, Flows, Behind, Apart DEF IntentAt, IInv, TypeOK
  <2>2. k = 10
    BY <1>2, <2>1 DEF IntentAt
  <2>3. checkpoint.next = "promotion_gate"
    BY <2>1, <2>2, Gates
  <2> QED
    BY <2>3 DEF AssertionFails, AsIntended, LangGraphAsIntended, MafAsIntended
<1>4. k = 12
  BY <1>2, <1>3, Flows, Behind DEF IntentAt
<1>5. faults > 0
  BY <1>2, <1>4 DEF IntentAt, IInv, TypeOK
<1>6. pause # Torn
  BY <1>3, Apart DEF IntentInv, IntentPause, LangGraphInv, IInv, TypeOK, Framework
<1>7. framework = "maf" => IntentPause'
  BY <1>1, <1>5, <1>6, Apart DEF Ended, IntentInv, IntentPause
<1>8. framework = "langgraph" => \E j \in 0..12, b \in BOOLEAN : IntentDatabase(j, b)'
  BY <1>1, <1>5 DEF Ended, IntentInv, IntentDatabase, LoggedAt
<1> QED
  BY <1>1, <1>5, <1>6, <1>7, <1>8 DEF Ended, Intending, Rests, IntentInv

\* ... or it dies.
LEMMA IntentDies ==
  ASSUME IInv, running = "resume-intent", IntentInv, Die
  PROVE  (Intending /\ IntentInv)'
<1>1. Ended("died") /\ faults' = faults + 1 /\ faults' > 0
  BY Ends DEF Die, IInv, TypeOK
<1>2. framework = "maf" => IntentPause'
  BY <1>1, Apart DEF Ended, IntentInv, IntentPause
<1>3. framework = "langgraph" => \E j \in 0..12, b \in BOOLEAN : IntentDatabase(j, b)'
  BY <1>1 DEF Ended, IntentInv, IntentDatabase, LoggedAt
<1> QED
  BY <1>1, <1>2, <1>3 DEF Ended, Intending, Rests, IntentInv

\* Every step of it keeps what is said of the phase.
LEMMA IntentWorks ==
  ASSUME IInv, LangGraphInv, running = "resume-intent", IntentInv, Working
  PROVE  (Intending /\ IntentInv)' \/ (Promoting /\ PromotionInv)'
<1>1. CASE Plain
  <2>1. PICK k \in 0..12, n \in 0..12 :
          Advance(k, n) /\ k \notin {2, 3, 7, 10, 12} /\ ~answer /\ answer' = FALSE
    BY <1>1, PlainAdvances
  <2>2. node \notin {"writing", "closing", Null}
    BY <1>1, Apart DEF Plain
  <2>3. k \notin {3, 7} /\ k # 10 /\ k # 2
    BY <2>1
  <2> QED
    BY <2>1, <2>2, <2>3, IntentAdvances
<1>2. CASE Executed
  <2>1. PICK k \in 0..12, n \in 0..12 :
          Advance(k, n) /\ k \in {3, 7} /\ node = "recorded" /\ answer' = FALSE
    BY <1>2, ExecutedAdvances
  <2>2. node \notin {"writing", "closing", Null}
    BY <2>1, NullAssumption DEF Point
  <2>3. k # 10 /\ k # 2
    BY <2>1
  <2> QED
    BY <2>1, <2>2, <2>3, IntentAdvances
<1>3. CASE Approve
  <2>1. PICK k \in 0..12, n \in 0..12 : Advance(k, n) /\ k \in {2, 10} /\ answer /\ answer' = FALSE
    BY <1>3, ApproveAdvances
  <2>2. node \notin {"writing", "closing", Null}
    BY <1>3, Apart DEF Approve
  <2>3. k \notin {3, 7}
    BY <2>1
  <2> QED
    BY <2>1, <2>2, <2>3, IntentAdvances
<1>4. ASSUME RecordOnce \/ Ask \/ TruncateResult \/ WriteResult
      PROVE  (Intending /\ IntentInv)'
  <2>1. Flowing
    BY <1>4, Flows
  <2>2. PICK k \in 0..12 : IntentAt(k)
    BY <2>1 DEF IntentInv
  <2>3. memory = StateAt(k)
    BY <2>2 DEF IntentAt
  <2>4. CASE RecordOnce
    <3>1. /\ node = "execute" /\ node' = "recorded"
          /\ UNCHANGED <<framework, running, memory, answer, checkpoint, pause, outcome,
               verdict, faults>>
      BY <2>4 DEF RecordOnce, args, ended, bounds
    <3>2. /\ k \in {3, 7} /\ (journal # <<>> => journal' # <<>>)
          /\ journal = <<0, 1>> => journal' = <<0, 1>>
          /\ k = 7 /\ journal # <<>> => journal' = <<0, 1>>
      BY <2>3, <2>4, Records
    <3>3. IntentAt(k)'
      BY <2>2, <3>1, <3>2 DEF IntentAt, LoggedAt
    <3>4. framework = "maf" => IntentPause'
      BY <3>1, <3>2, Apart DEF IntentInv, IntentPause, Node
    <3>5. framework = "langgraph" => \E j \in 0..12, b \in BOOLEAN : IntentDatabase(j, b)'
      BY <3>1, <3>2 DEF IntentInv, IntentDatabase, LoggedAt
    <3> QED
      BY <3>1, <3>3, <3>4, <3>5 DEF Intending, IntentInv
  <2>5. CASE Ask
    <3>1. node \in Gate /\ ~answer
      BY <2>5 DEF Ask
    <3>2. k \in {2, 10}
      BY <2>1, <2>3, <3>1, Behind
    <3>3. k = 10
      BY <2>2, <3>1, <3>2 DEF IntentAt
    <3>4. node = NodeAt(10)
      <4>1. ProcessAt(k)
        BY <2>1, <2>3, PositionOf DEF IInv, OnTheWay, ProcessAt
      <4> QED
        BY <3>1, <3>3, <4>1 DEF ProcessAt, Gate
    <3>5. /\ node' = "paused" /\ checkpoint' = CheckpointAt(10, TRUE)
          /\ UNCHANGED <<framework, running, memory, answer, journal, pause, outcome, verdict,
               faults>>
      BY <2>3, <2>5, <3>3, <3>4 DEF Ask, CheckpointAt, args, ended, bounds
    <3>6. IntentAt(k)'
      BY <2>2, <3>5 DEF IntentAt, LoggedAt
    <3>7. framework = "maf" => IntentPause'
      BY <3>1, <3>5, Apart DEF IntentInv, IntentPause, Gate
    <3>8. \E j \in 0..12, b \in BOOLEAN : IntentDatabase(j, b)'
      <4> WITNESS 10 \in 0..12, TRUE \in BOOLEAN
      <4> QED
        BY <2>2, <3>3, <3>5 DEF IntentAt, IntentDatabase, LoggedAt
    <3> QED
      BY <3>5, <3>6, <3>7, <3>8, Gates DEF Intending, IntentInv
  <2>6. CASE TruncateResult
    <3>1. /\ framework = "maf" /\ node' = "writing" /\ pause' = Torn
          /\ UNCHANGED <<framework, running, memory, answer, checkpoint, journal, outcome,
               verdict, faults>>
      BY <2>6 DEF TruncateResult, Result, args, ended, bounds
    <3>2. IntentAt(k)'
      BY <2>2, <3>1 DEF IntentAt, LoggedAt
    <3>3. IntentPause'
      BY <3>1, Gates DEF IntentPause
    <3> QED
      BY <3>1, <3>2, <3>3 DEF Intending, IntentInv
  <2>7. CASE WriteResult
    <3>1. node = "writing" /\ ~answer
      BY <2>7, Apart DEF WriteResult, IInv, TypeOK
    <3>2. k \in {2, 10} /\ checkpoint = CheckpointAt(k, TRUE)
      BY <2>1, <2>3, <3>1, Behind
    <3>3. k = 10
      BY <2>2, <3>1, <3>2 DEF IntentAt
    <3>4. /\ node' = "closing" /\ pause' = CheckpointAt(10, TRUE) /\ journal = <<0, 1>>
          /\ UNCHANGED <<framework, running, memory, answer, checkpoint, journal, outcome,
               verdict, faults>>
      BY <2>2, <2>7, <3>2, <3>3 DEF WriteResult, Result, IntentAt, LoggedAt, args, ended, bounds
    <3>5. IntentAt(k)'
      BY <2>2, <3>4 DEF IntentAt, LoggedAt
    <3>6. IntentPause'
      BY <3>4, Gates DEF IntentPause
    <3>7. framework # "langgraph"
      BY <3>1 DEF LangGraphInv
    <3> QED
      BY <3>4, <3>5, <3>6, <3>7 DEF Intending, IntentInv
  <2> QED
    BY <1>4, <2>4, <2>5, <2>6, <2>7
<1> QED
  BY <1>1, <1>2, <1>3, <1>4, IntentEnds, IntentFails, IntentDies, NoReset DEF Working

\* So does every step of resume-promotion, which is never stopped.
LEMMA PromotionWorks ==
  ASSUME IInv, LangGraphInv, running = "resume-promotion", PromotionInv, Working
  PROVE  (Promoting /\ PromotionInv)' \/ (Finished /\ FinishedInv)'
<1>1. ASSUME NEW k \in 0..12, NEW n \in 0..12, Advance(k, n)
      PROVE  (Promoting /\ PromotionInv)'
  <2>1. k >= 10
    BY <1>1, PositionOf DEF PromotionInv, Advance
  <2>2. /\ n >= 11 /\ memory' = StateAt(n) /\ node' # "closing" /\ running' = "resume-promotion"
        /\ checkpoint' = CheckpointAt(n, FALSE)
        /\ UNCHANGED <<framework, pause, final, journal, verdict, outcome>>
    BY <1>1, <2>1 DEF Advance
  <2>3. checkpoint' # Null
    BY <2>2, NotNull
  <2>4. \E j \in 0..12, b \in BOOLEAN : checkpoint' = CheckpointAt(j, b) /\ j >= 10 /\ (j = 10 => b)
    <3> WITNESS n \in 0..12, FALSE \in BOOLEAN
    <3> QED
      BY <2>2
  <2>5. \E j \in 0..12 : memory' = StateAt(j) /\ j >= 10 /\ (j = 10 => answer')
    BY <2>2
  <2> QED
    BY <2>2, <2>3, <2>4, <2>5 DEF Promoting, PromotionInv
<1>2. CASE Plain \/ Executed \/ Approve
  BY <1>1, <1>2, PlainAdvances, ExecutedAdvances, ApproveAdvances
<1>3. CASE Die
  <2>1. Ended("died")
    BY <1>3, Ends DEF Die
  <2> QED
    BY <2>1, Apart DEF Ended, Promoting, Rests, PromotionInv
<1>4. ASSUME RecordOnce \/ Ask \/ TruncateResult \/ WriteResult \/ Close \/ AssertionFails
      PROVE  (Promoting /\ PromotionInv)' \/ (Finished /\ FinishedInv)'
  <2>1. Flowing
    BY <1>4, Flows
  <2>2. PICK k \in 0..12 : memory = StateAt(k) /\ k >= 10 /\ (k = 10 => answer)
    BY <2>1 DEF PromotionInv
  <2>3. node \notin {"execute", "paused"} /\ (node \in Gate => answer)
    <3>1. /\ node = "execute" => k \in {3, 7}
          /\ node = "paused" => k \in {2, 10}
          /\ node \in Gate => k \in {2, 10}
          /\ answer => node \in Gate
      BY <2>1, <2>2, Behind
    <3> QED
      BY <2>2, <3>1, Apart
  <2>4. node = "writing" => k = 12
    BY <2>1, <2>2, Behind
  <2>5. CASE TruncateResult
    BY <2>2, <2>5 DEF TruncateResult, Result, args, ended, Promoting, PromotionInv
  <2>6. CASE WriteResult
    <3>1. final' = StateAt(12)
      BY <2>2, <2>4, <2>6 DEF WriteResult, Result
    <3> QED
      BY <2>2, <2>6, <3>1 DEF WriteResult, Result, args, ended, Promoting, PromotionInv
  <2>7. CASE Close
    <3>1. Ended("ok")
      BY <2>7, Ends DEF Close
    <3>2. CASE framework = "maf"
      BY <2>7, <3>1, <3>2 DEF Close, Ended, Finished, Rests, PromotionInv, FinishedInv
    <3>3. CASE framework = "langgraph"
      <4>1. node = "end"
        BY <2>3, <2>7, <3>3 DEF Close, LangGraphInv
      <4>2. k = 12
        BY <2>1, <2>2, <4>1, Behind
      <4>3. \E b \in BOOLEAN : checkpoint = CheckpointAt(12, b)
        BY <2>1, <2>2, <3>3, <4>2 DEF LangGraphInv
      <4> QED
        BY <3>1, <3>3, <4>3 DEF Ended, Finished, Rests, PromotionInv, FinishedInv
    <3> QED
      BY <3>2, <3>3 DEF IInv, TypeOK, Framework
  <2>8. ~RecordOnce /\ ~Ask /\ ~AssertionFails
    BY <2>3 DEF RecordOnce, Ask, AssertionFails, AsIntended, LangGraphAsIntended, MafAsIntended
  <2> QED
    BY <1>4, <2>5, <2>6, <2>7, <2>8
<1> QED
  BY <1>2, <1>3, <1>4, NoReset DEF Working

\* Which phase the operator who retries may run.
LEMMA Retries ==
  ASSUME operator = "retrying", NEW phase, MayRun(phase)
  PROVE  /\ running = "none" /\ outcome \in {"ok", "died"}
         /\ phase = "start" => Rests("start", "died") \/ Rests(Null, "ok")
         /\ phase = "resume-intent" => Rests("resume-intent", "died") \/ Rests("start", "ok")
         /\ phase = "resume-promotion" =>
              Rests("resume-promotion", "died") \/ Rests("resume-intent", "ok")
         /\ phase = "verify" => Rests("verify", "died") \/ Rests("resume-promotion", "ok")
BY DEF MayRun, Phases, Rests

\* At rest, or in a process, the part of the invariant that applies.
LEMMA Modes ==
  ASSUME operator = "retrying", RetryInv
  PROVE  /\ running = "start" => StartInv
         /\ running = "resume-intent" => IntentInv
         /\ running = "resume-promotion" => PromotionInv
         /\ Rests("start", "died") \/ Rests(Null, "ok") => StartInv
         /\ Rests("resume-intent", "died") \/ Rests("start", "ok") => IntentInv
         /\ Rests("resume-promotion", "died") \/ Rests("resume-intent", "ok") => PromotionInv
         /\ Rests("resume-promotion", "ok") => FinishedInv
         /\ ~Rests("verify", "died")
BY Apart DEF RetryInv, Starting, Intending, Promoting, Finished, Verified, Rests

\* resume-intent is run again on what the phases before it left.
LEMMA ResumeIntentKeepsRetry ==
  ASSUME IInv, operator = "retrying", RetryInv, LangGraphInv, Resume("resume-intent")
  PROVE  (Intending /\ IntentInv)'
<1>1. IntentInv /\ running = "none" /\ outcome \in {"ok", "died"}
  BY Retries, Modes DEF Resume
<1>2. /\ running' = "resume-intent" /\ node' = ResumePoint.next /\ memory' = ResumePoint.state
      /\ answer' \in IF ResumePoint.next \notin Gate THEN {FALSE}
                     ELSE IF ResumePoint.asked THEN {TRUE} ELSE Unasked
      /\ ResumePoint \notin {Null, Torn}
      /\ UNCHANGED <<framework, checkpoint, pause, final, journal, last, outcome, verdict, faults>>
  BY DEF Resume, args, disk, ended
<1>3. node = Null
  BY <1>1 DEF IInv, TypeOK
<1>4. \E k \in 0..12, b \in BOOLEAN :
        /\ ResumePoint = CheckpointAt(k, b) /\ LoggedAt(k) /\ k >= 2 /\ (k = 2 => b)
        /\ faults = 0 => k = 2
  <2>1. CASE framework = "maf"
    <3>1. pause \in {CheckpointAt(2, TRUE), CheckpointAt(10, TRUE)} /\ ResumePoint = pause
      BY <1>1, <1>2, <2>1 DEF IntentInv, IntentPause, ResumePoint
    <3>2. CASE pause = CheckpointAt(2, TRUE)
      <4> WITNESS 2 \in 0..12, TRUE \in BOOLEAN
      <4> QED
        BY <3>1, <3>2 DEF LoggedAt
    <3>3. CASE pause = CheckpointAt(10, TRUE)
      <4>1. journal = <<0, 1>> /\ faults # 0
        BY <1>1, <1>3, <2>1, <3>3, NullAssumption DEF IntentInv, IntentPause, Point
      <4> WITNESS 10 \in 0..12, TRUE \in BOOLEAN
      <4> QED
        BY <3>1, <3>3, <4>1 DEF LoggedAt
    <3> QED
      BY <3>1, <3>2, <3>3
  <2>2. CASE framework = "langgraph"
    BY <1>1, <2>2 DEF IntentInv, IntentDatabase, ResumePoint
  <2> QED
    BY <2>1, <2>2 DEF IInv, TypeOK, Framework
<1>5. PICK k \in 0..12, b \in BOOLEAN :
        /\ ResumePoint = CheckpointAt(k, b) /\ LoggedAt(k) /\ k >= 2 /\ (k = 2 => b)
        /\ faults = 0 => k = 2
  BY <1>4
<1>6. memory' = StateAt(k) /\ node' = NodeAt(k) /\ (k = 2 => answer')
  <2>1. memory' = StateAt(k) /\ node' = NodeAt(k)
    BY <1>2, <1>5, CheckpointFields
  <2>2. ResumePoint.next = NodeAt(k) /\ ResumePoint.asked = b
    BY <1>5, CheckpointFields
  <2>3. k = 2 => NodeAt(k) \in Gate
    BY WayNodes DEF Gate
  <2>4. k = 2 => answer' = TRUE
    BY <1>2, <1>5, <2>2, <2>3
  <2> QED
    BY <2>1, <2>4
<1>7. node' \notin {"recorded", "closing"}
  BY <1>6, WayNodes DEF Node, Gate
<1>8. IntentAt(k)'
  BY <1>2, <1>5, <1>6, <1>7 DEF IntentAt, LoggedAt
<1>9. framework = "maf" => IntentPause'
  BY <1>1, <1>2, <1>3, <1>7, NullAssumption DEF IntentInv, IntentPause, ResumePoint, Point
<1>10. framework = "langgraph" => \E j \in 0..12, a \in BOOLEAN : IntentDatabase(j, a)'
  BY <1>1, <1>2 DEF IntentInv, IntentDatabase, LoggedAt
<1> QED
  BY <1>1, <1>2, <1>8, <1>9, <1>10 DEF Intending, IntentInv

\* resume-promotion finds the pause, or the checkpoint, at or beyond its gate.
LEMMA ResumePromotionKeepsRetry ==
  ASSUME IInv, operator = "retrying", RetryInv, Resume("resume-promotion")
  PROVE  (Promoting /\ PromotionInv)'
<1>1. PromotionInv /\ running = "none" /\ outcome \in {"ok", "died"}
  BY Retries, Modes DEF Resume
<1>2. /\ running' = "resume-promotion" /\ node' = ResumePoint.next /\ memory' = ResumePoint.state
      /\ answer' \in IF ResumePoint.next \notin Gate THEN {FALSE}
                     ELSE IF ResumePoint.asked THEN {TRUE} ELSE Unasked
      /\ UNCHANGED <<framework, checkpoint, pause, final, journal, last, outcome, verdict>>
  BY DEF Resume, args, disk, ended
<1>3. \E k \in 0..12, b \in BOOLEAN : ResumePoint = CheckpointAt(k, b) /\ k >= 10 /\ (k = 10 => b)
  <2>1. CASE framework = "maf"
    <3> WITNESS 10 \in 0..12, TRUE \in BOOLEAN
    <3> QED
      BY <1>1, <2>1 DEF PromotionInv, ResumePoint
  <2>2. CASE framework = "langgraph"
    BY <1>1, <2>2 DEF PromotionInv, ResumePoint
  <2> QED
    BY <2>1, <2>2 DEF IInv, TypeOK, Framework
<1>4. PICK k \in 0..12, b \in BOOLEAN : ResumePoint = CheckpointAt(k, b) /\ k >= 10 /\ (k = 10 => b)
  BY <1>3
<1>5. memory' = StateAt(k) /\ node' = NodeAt(k) /\ (k = 10 => answer')
  <2>1. memory' = StateAt(k) /\ node' = NodeAt(k)
    BY <1>2, <1>4, CheckpointFields
  <2>2. ResumePoint.next = NodeAt(k) /\ ResumePoint.asked = b
    BY <1>4, CheckpointFields
  <2>3. k = 10 => NodeAt(k) \in Gate
    BY WayNodes DEF Gate
  <2>4. k = 10 => answer' = TRUE
    BY <1>2, <1>4, <2>2, <2>3
  <2> QED
    BY <2>1, <2>4
<1>6. node' # "closing"
  BY <1>5, WayNodes DEF Node, Gate
<1>7. \E j \in 0..12 : memory' = StateAt(j) /\ j >= 10 /\ (j = 10 => answer')
  BY <1>4, <1>5
<1> QED
  BY <1>1, <1>2, <1>6, <1>7 DEF Promoting, PromotionInv

\* A resume that raises at once is that of a torn pause.json.
LEMMA ResumeRaisesKeepsRetry ==
  ASSUME IInv, operator = "retrying", RetryInv,
         NEW phase \in {"resume-intent", "resume-promotion"}, ResumeRaises(phase)
  PROVE  (Intending /\ IntentInv)'
<1>1. /\ running = "none" /\ last' = phase /\ outcome' = "raised"
      /\ checkpoint = Null \/ (framework = "maf" /\ pause \in {Null, Torn})
      /\ UNCHANGED <<framework, running, node, memory, answer, checkpoint, pause, final,
           journal, verdict, faults>>
  BY DEF ResumeRaises, MayRun, args, process, disk
<1>2. node = Null /\ ~Flowing
  BY <1>1 DEF IInv, TypeOK, Flowing
<1>3. phase # "resume-promotion"
  <2> SUFFICES ASSUME phase = "resume-promotion" PROVE FALSE
    OBVIOUS
  <2>1. PromotionInv
    BY Retries, Modes DEF ResumeRaises
  <2> QED
    BY <1>1, <2>1, Gates DEF PromotionInv
<1>4. IntentInv
  BY <1>3, Retries, Modes DEF ResumeRaises
<1>5. framework = "maf" /\ pause = Torn /\ faults > 0
  BY <1>1, <1>2, <1>4, Gates, NullAssumption DEF IntentInv, IntentPause, Point
<1>6. IntentPause'
  BY <1>1, <1>4, <1>5 DEF IntentInv, IntentPause
<1>7. ~Flowing'
  BY <1>1, <1>2 DEF Flowing
<1> QED
  BY <1>1, <1>3, <1>4, <1>5, <1>6, <1>7 DEF Intending, Rests, IntentInv

\* verify finds the final state, and passes.
LEMMA VerifyKeepsRetry ==
  ASSUME IInv, operator = "retrying", RetryInv, Verify
  PROVE  Verified'
<1>1. FinishedInv /\ running = "none"
  BY Retries, Modes DEF Verify
<1>2. running' = "none"
  BY <1>1 DEF Verify, process
<1>3. Passes(StateAt(12))
  <2>1. /\ StateAt(12).intent_approved /\ StateAt(12).promotion_approved /\ StateAt(12).passed
        /\ StateAt(12).attempt = 1 /\ StateAt(12).output = 1
    <3>1. /\ StateAt(12).intent_approved <=> 12 >= 3
          /\ StateAt(12).promotion_approved <=> 12 >= 11
          /\ StateAt(12).passed <=> 12 >= 10
      BY DEF StateAt
    <3>2. StateAt(12).attempt = 1
      BY DEF StateAt
    <3>3. StateAt(12).output = 1
      BY DEF StateAt
    <3> QED
      BY <3>1, <3>2, <3>3
  <2> QED
    BY <1>1, <2>1 DEF FinishedInv, Passes
<1>4. ~VerifyRaises
  <2>1. journal # <<>>
    BY <1>1 DEF FinishedInv
  <2>2. framework = "langgraph" => checkpoint # Null
    BY <1>1, NotNull DEF FinishedInv
  <2>3. framework = "maf" => final \notin {Null, Torn}
    BY <1>1, Gates DEF FinishedInv
  <2> QED
    BY <2>1, <2>2, <2>3 DEF VerifyRaises
<1>5. Judge(StateAt(12))
  <2>1. CASE VerifySnapshot
    BY <1>1, <2>1, CheckpointFields DEF FinishedInv, VerifySnapshot
  <2>2. CASE VerifyFinal
    BY <1>1, <2>2 DEF FinishedInv, VerifyFinal
  <2> QED
    BY <1>4, <2>1, <2>2 DEF Verify
<1> QED
  BY <1>2, <1>3, <1>5 DEF Judge, Verified, Rests

\* Every step keeps the invariant of the operator who retries.
LEMMA NextKeepsRetry ==
  ASSUME IInv, LangGraphInv, RetryInv, [Next]_vars
  PROVE  RetryInv'
<1> SUFFICES ASSUME operator = "retrying" PROVE RetryInv'
  BY DEF RetryInv, Next, Work, vars, args, Start, Verify, Resume, ResumeRaises, RemoveCheckpoints,
     RemoveJournal, RemovePause, RemoveFinal, Begin, Plain, RecordOnce, Executed, Approve, Ask,
     TruncateResult, WriteResult, Close, AssertionFails, Die
<1>1. CASE Working
  <2>1. running # "none"
    BY <1>1, Flows, Apart
    DEF Working, IInv, TypeOK, RemoveCheckpoints, RemoveJournal, RemovePause, RemoveFinal, Begin,
        Plain, Executed, Approve, Die, Flowing
  <2>2. CASE running = "start"
    BY <1>1, <2>2, Modes, StartWorks DEF RetryInv
  <2>3. CASE running = "resume-intent"
    BY <1>1, <2>3, Modes, IntentWorks DEF RetryInv
  <2>4. CASE running = "resume-promotion"
    BY <1>1, <2>4, Modes, PromotionWorks DEF RetryInv
  <2> QED
    BY <2>1, <2>2, <2>3, <2>4 DEF IInv, TypeOK
<1>2. CASE Start
  <2>1. StartInv
    BY <1>2, Retries, Modes DEF Start
  <2>2. /\ running' = "start" /\ node' = "reset" /\ ~Flowing'
        /\ UNCHANGED <<checkpoint, pause, final, journal, outcome, verdict>>
    BY <1>2 DEF Start, Flowing, disk, ended
  <2> QED
    BY <2>1, <2>2 DEF RetryInv, Starting, StartInv
<1>3. CASE Verify
  BY <1>3, VerifyKeepsRetry DEF RetryInv
<1>4. ASSUME NEW phase \in {"resume-intent", "resume-promotion"}, Resume(phase)
      PROVE  RetryInv'
  BY <1>4, ResumeIntentKeepsRetry, ResumePromotionKeepsRetry DEF RetryInv
<1>5. ASSUME NEW phase \in {"resume-intent", "resume-promotion"}, ResumeRaises(phase)
      PROVE  RetryInv'
  BY <1>5, ResumeRaisesKeepsRetry DEF RetryInv
<1>6. CASE UNCHANGED vars
  <2>1. UNCHANGED <<framework, operator, running, node, memory, answer, checkpoint, pause, final,
                    journal, last, outcome, verdict, faults>>
    BY <1>6 DEF vars, args, process, disk, ended, bounds
  <2>2. Starting /\ StartInv => (Starting /\ StartInv)'
    BY <2>1 DEF Starting, StartInv, Rests, Flowing
  <2>3. Intending /\ IntentInv => (Intending /\ IntentInv)'
    <3>1. Intending => Intending'
      BY <2>1 DEF Intending, Rests
    <3>2. \A k : IntentAt(k) => IntentAt(k)'
      BY <2>1 DEF IntentAt, LoggedAt
    <3>3. \A k, b : IntentDatabase(k, b) => IntentDatabase(k, b)'
      BY <2>1 DEF IntentDatabase, LoggedAt
    <3>4. IntentPause => IntentPause'
      BY <2>1 DEF IntentPause
    <3> QED
      BY <2>1, <3>1, <3>2, <3>3, <3>4 DEF IntentInv, Flowing
  <2>4. Promoting /\ PromotionInv => (Promoting /\ PromotionInv)'
    BY <2>1 DEF Promoting, PromotionInv, Rests, Flowing
  <2>5. Finished /\ FinishedInv => (Finished /\ FinishedInv)'
    BY <2>1 DEF Finished, FinishedInv, Rests
  <2>6. Verified => Verified'
    BY <2>1 DEF Verified, Rests
  <2> QED
    BY <2>2, <2>3, <2>4, <2>5, <2>6 DEF RetryInv
<1> QED
  BY <1>1, <1>2, <1>3, <1>4, <1>5, <1>6 DEF Next, Work, Working

LEMMA InitRetry == Init => RetryInv
BY NullAssumption DEF Init, RetryInv, Starting, StartInv, Rests, Flowing, Point

LEMMA RetryInvStops ==
  ASSUME IInv, RetryInv
  PROVE  RetryStops
BY Apart
  DEF RetryInv, RetryStops, Starting, StartInv, Intending, IntentInv, Promoting, PromotionInv,
    Finished, FinishedInv, Verified, Rests

\* An operator who repeats only the phases that died never gets a failing verify, and
\* is stopped only in resume-intent: by the pause.json torn by an earlier death, or
\* by the assertion of a process that started at or beyond its own pause.
THEOREM OrchestrationRetry == Spec => []RetryStops
BY InitIInv, InitLangGraph, InitRetry, NextKeepsIInv, NextKeepsLangGraph, NextKeepsRetry,
    RetryInvStops, PTL DEF Spec
=============================================================================
