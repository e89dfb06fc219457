--------------------------- MODULE Orchestration ----------------------------
(***************************************************************************)
(* The two runners of orchestration-runtime-characterization: one flow     *)
(* with two human gates and one repair, run by LangGraph (a database with  *)
(* the thread's last checkpoint) or by the Microsoft Agent Framework (maf: *)
(* a directory of checkpoints and pause.json, which names the one a resume *)
(* goes on from).  Each phase is a process; any process may die.           *)
(***************************************************************************)
EXTENDS Naturals, Sequences

CONSTANTS Null,
          Torn,        \* a file that was truncated and not yet written
          Operators,   \* how the phases are run, of "retrying" and "any"
          Unasked,     \* whether LangGraph keeps an answer for a gate that has not asked
          MaxFaults,   \* bound on deaths
          MaxPhases    \* bound on the phases run

ASSUME OperatorsAssumption == Operators \subseteq {"retrying", "any"}
ASSUME UnaskedAssumption == Unasked \subseteq BOOLEAN
ASSUME BoundsAssumption == MaxFaults \in Nat /\ MaxPhases \in Nat

Framework == {"langgraph", "maf"}
Phases == <<"start", "resume-intent", "resume-promotion", "verify">>
Gate == {"intent_gate", "promotion_gate"}
Node == Gate \cup {"capture", "characterize", "execute", "observe", "falsify", "repair", "package"}
Verdict == {"pass", "fail"}
Point == {"reset", "recorded", "paused", "writing", "closing", "end"}   \* of run_phase, but no node

\* The flow's state, and what a framework persists: where to go on, with which state,
\* and whether the gate there was asked.
State == [trace : Seq(Node \X Nat), attempt : Nat, passed : BOOLEAN, intent_approved : BOOLEAN,
          promotion_approved : BOOLEAN, artifact : Nat \cup {Null}, output : Nat \cup {Null}]
Saved == [next : Node \cup {"end"}, state : State, asked : BOOLEAN]

ASSUME NullAssumption ==
  /\ Null \notin Node \cup Point \cup Verdict /\ Null # Torn
  /\ \A i \in 1..4 : Phases[i] # Null
  /\ \A v \in {Null, Torn} : v \notin State /\ v \notin Saved

InitialState ==
  [trace |-> <<>>, attempt |-> 0, passed |-> FALSE, intent_approved |-> FALSE,
   promotion_approved |-> FALSE, artifact |-> Null, output |-> Null]

Traced(s, event) == [s EXCEPT !.trace = Append(@, <<event, s.attempt>>)]

\* The state a node returns; a gate's is that after the human's approval.
Step(n, s) ==
  CASE n = "intent_gate" -> [Traced(s, n) EXCEPT !.intent_approved = TRUE]
    [] n = "promotion_gate" -> [Traced(s, n) EXCEPT !.promotion_approved = TRUE]
    [] n = "execute" -> [Traced(s, n) EXCEPT !.artifact = s.attempt]
    [] n = "falsify" -> [Traced(s, n) EXCEPT !.passed = s.attempt >= 1]
    [] n = "repair" -> Traced([s EXCEPT !.attempt = @ + 1], n)
    [] n = "package" -> [Traced(s, n) EXCEPT !.output = s.artifact]
    [] OTHER -> Traced(s, n)

\* Where falsify sends what it has judged.
Route(s) == IF s.passed THEN "promotion_gate" ELSE "repair"

\* The edge taken from a node that returned s.
Edge(n, s) ==
  CASE n = "capture" -> "characterize"
    [] n = "characterize" -> "intent_gate"
    [] n \in {"intent_gate", "repair"} -> "execute"
    [] n = "execute" -> "observe"
    [] n = "observe" -> "falsify"
    [] n = "falsify" -> Route(s)
    [] n = "promotion_gate" -> "package"
    [] n = "package" -> "end"

VARIABLES
  framework,
  operator,    \* "retrying": the phases in order, one that died again; "any": any order
  running,     \* the phase whose process runs, or "none"
  node,        \* where it is: a node or a point of run_phase
  memory,      \* the flow's state in the process
  answer,      \* the process holds a human answer that no gate has taken
  checkpoint,  \* the last one: next node, state, and whether its gate was asked
  pause,       \* maf: the checkpoint pause.json names, Null or Torn
  final,       \* maf: the state in final.json, Null or Torn
  journal,     \* side-effects.log: the attempts whose execution took effect
  last, outcome,   \* the phase that ended last and how: "ok", "asserted", "raised", "died"
  answers,     \* history: the phases that resumed since the last start
  verdict, faults, phases

args == <<framework, operator>>
process == <<running, node, memory, answer>>
disk == <<checkpoint, pause, final, journal>>
ended == <<last, outcome>>
bounds == <<faults, phases>>
vars == <<args, process, disk, ended, answers, verdict, bounds>>

Init ==
  /\ framework \in Framework /\ operator \in Operators
  /\ running = "none" /\ node = Null /\ memory = Null /\ answer = FALSE
  /\ checkpoint = Null /\ pause = Null /\ final = Null /\ journal = <<>>
  /\ last = Null /\ outcome = "ok" /\ answers = <<>>
  /\ verdict = Null /\ faults = 0 /\ phases = 0

\* Which phase the operator may run: the next one, or again the one that died.
MayRun(phase) ==
  /\ running = "none" /\ phases < MaxPhases
  /\ operator = "retrying" =>
       \/ outcome = "died" /\ phase = last
       \/ outcome = "ok" /\ phase = "start" /\ last = Null
       \/ outcome = "ok" /\ \E i \in 1..3 : last = Phases[i] /\ phase = Phases[i + 1]

End(how) ==
  /\ running' = "none" /\ node' = Null /\ memory' = Null /\ answer' = FALSE
  /\ last' = running /\ outcome' = how

(***************************************************************************)
(* start: remove what an earlier run left, then run the flow.              *)
(***************************************************************************)
Start ==
  /\ MayRun("start")
  /\ running' = "start" /\ node' = "reset" /\ phases' = phases + 1
  /\ UNCHANGED <<args, memory, answer, disk, ended, answers, verdict, faults>>

\* LangGraph unlinks the database before the log; maf goes through the directory, its
\* checkpoints one by one.  A later phase reads none of these but the one that pause.json
\* names: the step is its removal.
RemoveCheckpoints ==
  /\ node = "reset" /\ checkpoint # Null
  /\ checkpoint' = Null
  /\ UNCHANGED <<args, process, pause, final, journal, ended, answers, verdict, bounds>>

RemoveJournal ==
  /\ node = "reset" /\ journal # <<>>
  /\ framework = "langgraph" => checkpoint = Null
  /\ journal' = <<>>
  /\ UNCHANGED <<args, process, checkpoint, pause, final, ended, answers, verdict, bounds>>

RemovePause ==
  /\ node = "reset" /\ pause # Null
  /\ pause' = Null
  /\ UNCHANGED <<args, process, checkpoint, final, journal, ended, answers, verdict, bounds>>

RemoveFinal ==
  /\ node = "reset" /\ final # Null
  /\ final' = Null
  /\ UNCHANGED <<args, process, checkpoint, pause, journal, ended, answers, verdict, bounds>>

Begin ==
  /\ node = "reset"
  /\ checkpoint = Null /\ pause = Null /\ final = Null /\ journal = <<>>
  /\ node' = "capture" /\ memory' = InitialState
  /\ answers' = <<>>
  /\ UNCHANGED <<args, running, answer, disk, ended, verdict, bounds>>

(***************************************************************************)
(* The flow.  A checkpoint follows every node that returns.                *)
(***************************************************************************)
Return ==
  LET s == Step(node, memory)
      next == Edge(node, s)
  IN /\ memory' = s
     /\ checkpoint' = [next |-> next, state |-> s, asked |-> FALSE]
     /\ node' = next

Plain ==
  /\ node \in Node \ (Gate \cup {"execute"})
  /\ Return
  /\ UNCHANGED <<args, running, answer, pause, final, journal, ended, answers, verdict, bounds>>

\* Mutant: the log is appended to without a look.
RecordAlways ==
  /\ node = "execute"
  /\ journal' = Append(journal, memory.attempt)
  /\ node' = "recorded"
  /\ UNCHANGED <<args, running, memory, answer, checkpoint, pause, final, ended, answers,
                 verdict, bounds>>

\* _record_once: the operation is looked up in the log before it is appended.
RecordOnce ==
  /\ node = "execute"
  /\ journal' = IF \E i \in DOMAIN journal : journal[i] = memory.attempt THEN journal
                ELSE Append(journal, memory.attempt)
  /\ node' = "recorded"
  /\ UNCHANGED <<args, running, memory, answer, checkpoint, pause, final, ended, answers,
                 verdict, bounds>>

\* Mutant: the new state is persisted with the node it came from.
ExecutedInPlace ==
  /\ node = "recorded"
  /\ memory' = Step("execute", memory)
  /\ checkpoint' = [next |-> "execute", state |-> memory', asked |-> FALSE]
  /\ node' = "observe"
  /\ UNCHANGED <<args, running, answer, pause, final, journal, ended, answers, verdict, bounds>>

Executed ==
  /\ node = "recorded"
  /\ memory' = Step("execute", memory)
  /\ checkpoint' = [next |-> "observe", state |-> memory', asked |-> FALSE]
  /\ node' = "observe"
  /\ UNCHANGED <<args, running, answer, pause, final, journal, ended, answers, verdict, bounds>>

\* Mutant: the answer is good for every gate of the run.
ApproveAll ==
  /\ node \in Gate /\ answer
  /\ Return
  /\ UNCHANGED <<args, running, answer, pause, final, journal, ended, answers, verdict, bounds>>

\* A gate takes the answer the process was given.
Approve ==
  /\ node \in Gate /\ answer
  /\ Return
  /\ answer' = FALSE
  /\ UNCHANGED <<args, running, pause, final, journal, ended, answers, verdict, bounds>>

\* Without one it asks, and the framework persists the request and returns.
Ask ==
  /\ node \in Gate /\ ~answer
  /\ checkpoint' = [next |-> node, state |-> memory, asked |-> TRUE]
  /\ node' = "paused"
  /\ UNCHANGED <<args, running, memory, answer, pause, final, journal, ended, answers, verdict,
                 bounds>>

(***************************************************************************)
(* The end of a phase, after the framework's run: its assertions, and for  *)
(* maf the file the next phase needs, pause.json or final.json, which      *)
(* write_text first truncates.                                             *)
(***************************************************************************)
\* _assert_paused_on, or snapshot.next == ().
LangGraphAsIntended ==
  CASE running = "start" -> node = "paused" /\ checkpoint.next = "intent_gate"
    [] running = "resume-intent" -> node = "paused" /\ checkpoint.next = "promotion_gate"
    [] running = "resume-promotion" -> node = "end"

\* A request, whichever it is, or the output.
MafAsIntended == node = IF running = "resume-promotion" THEN "end" ELSE "paused"

AsIntended == IF framework = "maf" THEN MafAsIntended ELSE LangGraphAsIntended

\* The result file of the phase that runs takes the value v.
Result(v) ==
  IF running = "resume-promotion" THEN final' = v /\ UNCHANGED pause
                                  ELSE pause' = v /\ UNCHANGED final

TruncateResult ==
  /\ framework = "maf"
  /\ node \in {"paused", "end"} /\ AsIntended
  /\ Result(Torn)
  /\ node' = "writing"
  /\ UNCHANGED <<args, running, memory, answer, checkpoint, journal, ended, answers, verdict,
                 bounds>>

\* Mutant: pause.json goes on naming the checkpoint of the gate before.
WriteResultStale ==
  /\ node = "writing"
  /\ Result(IF running = "resume-promotion" THEN memory
            ELSE [checkpoint EXCEPT !.next = "intent_gate"])
  /\ node' = "closing"
  /\ UNCHANGED <<args, running, memory, answer, checkpoint, journal, ended, answers, verdict,
                 bounds>>

WriteResult ==
  /\ node = "writing"
  /\ Result(IF running = "resume-promotion" THEN memory ELSE checkpoint)
  /\ node' = "closing"
  /\ UNCHANGED <<args, running, memory, answer, checkpoint, journal, ended, answers, verdict,
                 bounds>>

Close ==
  /\ \/ node = "closing"
     \/ framework = "langgraph" /\ node \in {"paused", "end"} /\ AsIntended
  /\ End("ok")
  /\ UNCHANGED <<args, disk, answers, verdict, bounds>>

AssertionFails ==
  /\ node \in {"paused", "end"} /\ ~AsIntended
  /\ End("asserted")
  /\ UNCHANGED <<args, disk, answers, verdict, bounds>>

(***************************************************************************)
(* resume-intent and resume-promotion make the same call: LangGraph goes   *)
(* on from its last checkpoint, maf from the one in pause.json.  LangGraph *)
(* drops an answer the next node does not ask for; what it does with one   *)
(* for a gate that died before it asked is left open.                      *)
(***************************************************************************)
ResumePoint == IF framework = "maf" THEN pause ELSE checkpoint

Resume(phase) ==
  /\ MayRun(phase)
  /\ checkpoint # Null /\ ResumePoint \notin {Null, Torn}
  /\ running' = phase /\ node' = ResumePoint.next /\ memory' = ResumePoint.state
  /\ answer' \in IF ResumePoint.next \notin Gate THEN {FALSE}
                 ELSE IF ResumePoint.asked THEN {TRUE} ELSE Unasked
  /\ answers' = Append(answers, phase)
  /\ phases' = phases + 1
  /\ UNCHANGED <<args, disk, ended, verdict, faults>>

\* There is no checkpoint, or none that maf finds: pause.json is missing or empty, or what
\* it names is gone.  LangGraph then has no state to run its first node with; what it may
\* persist of that attempt holds none either, and counts as no checkpoint.
ResumeRaises(phase) ==
  /\ MayRun(phase)
  /\ checkpoint = Null \/ (framework = "maf" /\ pause \in {Null, Torn})
  /\ last' = phase /\ outcome' = "raised"
  /\ phases' = phases + 1
  /\ UNCHANGED <<args, process, disk, answers, verdict, faults>>

Passes(s) ==
  /\ journal = <<0, 1>>
  /\ s.intent_approved /\ s.promotion_approved
  /\ s.attempt = 1 /\ s.passed /\ s.output = 1

\* The assertions of verify.
Judge(s) ==
  /\ verdict' = IF Passes(s) THEN "pass" ELSE "fail"
  /\ last' = "verify" /\ outcome' = IF Passes(s) THEN "ok" ELSE "asserted"

VerifySnapshot ==
  /\ framework = "langgraph" /\ checkpoint # Null /\ journal # <<>>
  /\ Judge(checkpoint.state)

VerifyFinal ==
  /\ framework = "maf" /\ final \notin {Null, Torn} /\ journal # <<>>
  /\ Judge(final)

\* The log is missing, or what the state is read from is missing or empty.
VerifyRaises ==
  /\ \/ journal = <<>>
     \/ framework = "langgraph" /\ checkpoint = Null
     \/ framework = "maf" /\ final \in {Null, Torn}
  /\ last' = "verify" /\ outcome' = "raised"
  /\ UNCHANGED verdict

Verify ==
  /\ MayRun("verify")
  /\ VerifySnapshot \/ VerifyFinal \/ VerifyRaises
  /\ phases' = phases + 1
  /\ UNCHANGED <<args, process, disk, answers, faults>>

Die ==
  /\ running # "none" /\ faults < MaxFaults
  /\ End("died")
  /\ faults' = faults + 1
  /\ UNCHANGED <<args, disk, answers, verdict, phases>>

Work ==
  \/ Start \/ Verify
  \/ \E phase \in {"resume-intent", "resume-promotion"} : Resume(phase) \/ ResumeRaises(phase)
  \/ RemoveCheckpoints \/ RemoveJournal \/ RemovePause \/ RemoveFinal \/ Begin
  \/ Plain \/ RecordOnce \/ Executed \/ Approve \/ Ask
  \/ TruncateResult \/ WriteResult \/ Close \/ AssertionFails

Next == Work \/ Die

Spec == Init /\ [][Next]_vars

\* A process that does not die runs on, and the operator runs the next phase.
FairSpec == Spec /\ WF_vars(Work)
-----------------------------------------------------------------------------
\* The trace both runners report in the repository's results.
CommonTrace ==
  << <<"capture", 0>>, <<"characterize", 0>>, <<"intent_gate", 0>>, <<"execute", 0>>,
     <<"observe", 0>>, <<"falsify", 0>>, <<"repair", 1>>, <<"execute", 1>>, <<"observe", 1>>,
     <<"falsify", 1>>, <<"promotion_gate", 1>>, <<"package", 1>> >>

\* The states in the process and on disk.
States ==
  {s \in {memory, final} : s \notin {Null, Torn}} \cup
  {c.state : c \in {x \in {checkpoint, pause} : x \notin {Null, Torn}}}

Approvals(s) == (IF s.intent_approved THEN 1 ELSE 0) + (IF s.promotion_approved THEN 1 ELSE 0)

\* Whatever died and was run again from a checkpoint, in memory and on disk the
\* flow has gone the common way so far: no node twice, none left out.
TracesAgree ==
  \A s \in States :
    /\ Len(s.trace) <= Len(CommonTrace)
    /\ s.trace = SubSeq(CommonTrace, 1, Len(s.trace))

\* Re-executed or not, each execution takes effect once and in the order of attempts.
JournalOnce == journal \in {<<>>, <<0>>, <<0, 1>>}

\* Each gate that is passed took a human's answer of its own.
HumanAtEveryGate == \A s \in States : Approvals(s) <= Len(answers)

\* When phases are run again only if they died, verify does not fail on what they
\* leave, and one phase only may stop short, resume-intent run again: on the
\* pause.json it died writing, which no retry can read, or at its assertion, after
\* it went on from the pause it had already reached.
RetryStops ==
  operator = "retrying" =>
    /\ verdict # "fail"
    /\ outcome \in {"asserted", "raised"} =>
         /\ last = "resume-intent" /\ faults > 0
         /\ outcome = "raised" <=> pause = Torn

\* Such a flow comes to that end or to a passing verify, whatever died.
RetriedFlowEnds ==
  operator = "retrying" =>
    []RetryStops /\ <>(verdict = "pass" \/ outcome \in {"asserted", "raised"})

\* The promotion gate is passed by the phase that resumes it: the runner asserts
\* that resume-intent leaves the flow paused on promotion.
PromotionByItsPhase ==
  (\E s \in States : s.promotion_approved) =>
    \E i \in DOMAIN answers : answers[i] = "resume-promotion"
=============================================================================
