--------------------------- MODULE CrashBoundary ----------------------------
(***************************************************************************)
(* M3 and its characterization runners: one graph prepare -> effect ->     *)
(* post_checkpoint -> finish, run by LangGraph or by the Microsoft Agent   *)
(* Framework (maf) with a checkpoint after every node, and killed once at  *)
(* the boundary the scenario names.  Phases are processes of their own:    *)
(* start, inspect, resume, verify.  Besides the injected crash a process   *)
(* may die at any point.                                                   *)
(***************************************************************************)
EXTENDS Naturals

CONSTANTS Null,
          MaxFaults,   \* bound on crashes that are not injected
          MaxResumes   \* bound on the resumes

ASSUME BoundsAssumption == MaxFaults \in Nat /\ MaxResumes \in Nat

Scenario == {"before-effect", "after-effect-before-checkpoint", "after-checkpoint"}
EffectMode == {"naive", "idempotent"}
Framework == {"langgraph", "maf"}
CompletionClass == {"definite-no-effect", "ambiguous-completion", "completion-recorded"}
Node == {"prepare", "effect", "post_checkpoint", "finish"}
Past == {"post_checkpoint", "finish", "end"}   \* the checkpoints that follow the effect
Within == {"reset", "recorded", "applied", "output", "writing", "observing", "observed"}
Phase == {"start", "inspect", "resume", "verify"}
Verdict == {"pass", "fail"}

ASSUME NullAssumption ==
  Null \notin Node \cup Past \cup Within \cup CompletionClass \cup {"torn", "done"}
           \cup Phase \cup Verdict

VARIABLES
  framework, scenario, mode,  \* the arguments of every phase
  operator,     \* who runs the phases: "workflow" each once, in order and undisturbed; "any"
  running,      \* "none", or the phase whose process runs
  node,         \* where it is: a node, or a point within a phase
  attempts,     \* rows of the sink's table attempts
  effects,      \* rows of its table effects
  marker,       \* the file crashed-<label> exists
  saved,        \* the checkpoints on disk, each by the node it continues with, or "end"
  synced,       \* those that LangGraph's database holds without the -wal file beside it
  observation,  \* observation.json: Null, "torn" or a completion class
  final,        \* maf's final.json: Null, "torn" or "done"
  last,         \* of the workflow: the last phase that ended, or was killed, or "raised"
  verdict,      \* of verify: Null, "pass" or "fail"
  faults, resumes,
  died          \* history: where processes have died since a start last began the graph

args == <<framework, scenario, mode, operator>>
sink == <<attempts, effects>>
checkpoints == <<saved, synced>>
disk == <<sink, marker, checkpoints, observation, final>>
count == <<faults, resumes, died>>
vars == <<args, running, node, disk, last, verdict, count>>

Init ==
  /\ framework \in Framework /\ scenario \in Scenario /\ mode \in EffectMode
  /\ operator \in {"workflow", "any"}
  /\ running = "none" /\ node = Null
  /\ attempts = 0 /\ effects = 0 /\ marker = FALSE /\ saved = {} /\ synced = {}
  /\ observation = Null /\ final = Null
  /\ last = Null /\ verdict = Null /\ faults = 0 /\ resumes = 0 /\ died = {}

\* The workflow runs a phase after the one before it; otherwise in any order.
Follows(previous) == running = "none" /\ (operator = "workflow" => last = previous)

Ended(phase) == last' = IF operator = "workflow" THEN phase ELSE Null

\* The process ends: by itself, by the injected os._exit, or where it dies.
Exit == running' = "none" /\ node' = Null /\ Ended(running)

\* A connection that is closed moves what is in the -wal file into the database; a
\* process that dies leaves it there.
Close == saved' = saved /\ synced' = IF framework = "langgraph" THEN saved ELSE {}

\* Where the graph goes on from: the latest checkpoint there is.
Latest ==
  IF "end" \in saved THEN "end"
  ELSE IF "finish" \in saved THEN "finish"
  ELSE IF "post_checkpoint" \in saved THEN "post_checkpoint"
  ELSE IF "effect" \in saved THEN "effect"
  ELSE IF "prepare" \in saved THEN "prepare" ELSE Null

\* The graph's persisted output: LangGraph's is in its last checkpoint.
Output == IF framework = "langgraph" THEN Latest = "end" ELSE final = "done"

(***************************************************************************)
(* M3: the classification.                                                 *)
(***************************************************************************)
\* What inspect takes for a recorded completion.  LangGraph: the next nodes of
\* the thread's state, if it has one, do not contain effect.
LangGraphRecorded == Latest # "effect"

\* Mutant: maf's completion is taken as recorded one checkpoint early.
MafRecordedEarly == Latest \in Past \cup {"effect"}

\* maf: its last checkpoint was written after two iterations or more.
MafRecorded == Latest \in Past

CompletionRecorded == IF framework = "langgraph" THEN LangGraphRecorded ELSE MafRecorded

\* classify_completion raises when a completion is recorded without its effect.
Contradiction == CompletionRecorded /\ effects = 0

Classify ==
  IF effects = 0 THEN "definite-no-effect"
  ELSE IF CompletionRecorded THEN "completion-recorded" ELSE "ambiguous-completion"

ExpectedClass ==
  CASE scenario = "before-effect" -> "definite-no-effect"
    [] scenario = "after-effect-before-checkpoint" -> "ambiguous-completion"
    [] OTHER -> "completion-recorded"

ExpectedAttempts == IF scenario = "after-checkpoint" THEN 1 ELSE 2
ExpectedEffects ==
  IF scenario = "after-effect-before-checkpoint" /\ mode = "naive" THEN 2 ELSE 1

(***************************************************************************)
(* start: reset_case, then the graph from its beginning.                   *)
(***************************************************************************)
Start ==
  /\ Follows(Null)
  /\ running' = "start" /\ node' = "reset"
  /\ UNCHANGED <<args, disk, last, verdict, count>>

(* rmtree removes the files of the case one by one, in any order: the sink, the *)
(* marker, the observation and the output,                                      *)
RemoveFile ==
  /\ node = "reset"
  /\ \/ /\ attempts # 0 /\ attempts' = 0 /\ effects' = 0
        /\ UNCHANGED <<marker, observation, final>>
     \/ /\ marker /\ marker' = FALSE
        /\ UNCHANGED <<sink, observation, final>>
     \/ /\ observation # Null /\ observation' = Null
        /\ UNCHANGED <<sink, marker, final>>
     \/ /\ final # Null /\ final' = Null
        /\ UNCHANGED <<sink, marker, observation>>
  /\ UNCHANGED <<args, running, node, checkpoints, last, verdict, count>>

(* and the checkpoints.  Each of maf's is a file.  LangGraph's are in one, but for *)
(* what is in the -wal file: without it the others are left, without the database  *)
(* SQLite ignores it.                                                              *)
RemoveCheckpoint ==
  /\ node = "reset"
  /\ \/ /\ framework = "maf" /\ UNCHANGED synced
        /\ \E n \in saved : saved' = saved \ {n}
     \/ /\ framework = "langgraph" /\ saved' \in {{}, synced} \ {saved}
        /\ synced' = saved'
  /\ UNCHANGED <<args, running, node, sink, marker, observation, final, last, verdict, count>>

\* All is removed and the graph is invoked; maf may not persist its input.
Begin ==
  /\ node = "reset"
  /\ attempts = 0 /\ saved = {} /\ ~marker /\ observation = Null /\ final = Null
  /\ saved' \in IF framework = "maf" THEN {{}, {"prepare"}} ELSE {{"prepare"}}
  /\ node' = "prepare"
  /\ died' = {}
  /\ UNCHANGED <<args, running, sink, marker, synced, observation, final, last, verdict, faults,
                 resumes>>

(***************************************************************************)
(* The nodes.  The framework persists where to go on when a node returns.  *)
(***************************************************************************)
Return(next) == node' = next /\ saved' = saved \cup {next}

Prepare ==
  /\ node = "prepare"
  /\ Return("effect")
  /\ UNCHANGED <<args, running, sink, marker, synced, observation, final, last, verdict, count>>

\* The effect node begins with record_attempt.
Effect ==
  /\ node = "effect"
  /\ attempts' = attempts + 1
  /\ node' = "recorded"
  /\ UNCHANGED <<args, running, effects, marker, checkpoints, observation, final, last, verdict,
                 count>>

\* Where the scenario calls crash_once.
AtBoundary ==
  \/ scenario = "before-effect" /\ node = "recorded"
  \/ scenario = "after-effect-before-checkpoint" /\ node = "applied"
  \/ scenario = "after-checkpoint" /\ node = "post_checkpoint"

Crashes == AtBoundary /\ ~marker

\* Mutant: the process is killed without leaving the marker.
CrashUnmarked ==
  /\ Crashes
  /\ Exit
  /\ UNCHANGED <<args, disk, verdict, count>>

\* crash_once: the first time, the marker is written and the process killed.
CrashOnce ==
  /\ Crashes
  /\ marker' = TRUE
  /\ Exit
  /\ UNCHANGED <<args, sink, checkpoints, observation, final, verdict, count>>

\* Mutant: the idempotent sink looks into the table of attempts.
ApplyAfterAttempt == IF mode = "idempotent" /\ attempts > 0 THEN effects ELSE effects + 1

\* Mutant: the sink ignores its mode.
ApplyBlind == effects + 1

\* apply_effect: the idempotent sink looks for an effect of the operation first.
ApplyEffect == IF mode = "idempotent" /\ effects > 0 THEN effects ELSE effects + 1

Apply ==
  /\ node = "recorded" /\ ~Crashes
  /\ effects' = ApplyEffect
  /\ node' = "applied"
  /\ UNCHANGED <<args, running, attempts, marker, checkpoints, observation, final, last, verdict,
                 count>>

\* The ends of the nodes effect, post_checkpoint and finish.
ReturnFrom(point, next) ==
  /\ node = point /\ ~Crashes
  /\ Return(next)
  /\ UNCHANGED <<args, running, sink, marker, synced, observation, final, last, verdict, count>>

Applied == ReturnFrom("applied", "post_checkpoint")
PostCheckpoint == ReturnFrom("post_checkpoint", "finish")

Finish ==
  /\ node = "finish"
  /\ saved' = saved \cup {"end"} /\ node' = "output"
  /\ UNCHANGED <<args, running, sink, marker, synced, observation, final, last, verdict, count>>

\* maf's resume writes the output it was given to final.json: the file is truncated,
WritesFinal == framework = "maf" /\ running = "resume"

TruncateFinal ==
  /\ node = "output" /\ WritesFinal
  /\ final' = "torn" /\ node' = "writing"
  /\ UNCHANGED <<args, running, sink, marker, checkpoints, observation, last, verdict, count>>

\* and then written.
WriteFinal ==
  /\ node = "writing"
  /\ final' = "done"
  /\ Exit
  /\ UNCHANGED <<args, sink, marker, checkpoints, observation, verdict, count>>

(***************************************************************************)
(* inspect, resume, verify.                                                *)
(***************************************************************************)
\* maf asserts that there is a checkpoint; a contradiction raises.
InspectRaises ==
  /\ Follows("start")
  /\ (framework = "maf" /\ Latest = Null) \/ Contradiction
  /\ Close
  /\ Ended("raised")
  /\ UNCHANGED <<args, running, node, sink, marker, observation, final, verdict, count>>

\* Otherwise observation.json is truncated,
Inspect ==
  /\ Follows("start")
  /\ framework = "maf" => Latest # Null
  /\ ~Contradiction
  /\ running' = "inspect" /\ node' = "observing"
  /\ observation' = "torn"
  /\ UNCHANGED <<args, sink, marker, checkpoints, final, last, verdict, count>>

\* and written.
WriteObservation ==
  /\ node = "observing"
  /\ observation' = Classify
  /\ node' = "observed"
  /\ UNCHANGED <<args, running, sink, marker, checkpoints, final, last, verdict, count>>

\* inspect, and a graph whose output no file holds, end and close what they have open.
Leave ==
  /\ node = "observed" \/ (node = "output" /\ ~WritesFinal)
  /\ Exit /\ Close
  /\ UNCHANGED <<args, sink, marker, observation, final, verdict, count>>

\* Mutant: the graph is invoked anew instead of from its checkpoint.
ResumeAnew ==
  /\ Follows("inspect")
  /\ resumes < MaxResumes
  /\ Latest \in Node
  /\ running' = "resume" /\ node' = "prepare"
  /\ resumes' = resumes + 1
  /\ UNCHANGED <<args, disk, last, verdict, faults, died>>

\* The graph goes on from its last checkpoint.
Resume ==
  /\ Follows("inspect")
  /\ resumes < MaxResumes
  /\ Latest \in Node
  /\ running' = "resume" /\ node' = Latest
  /\ resumes' = resumes + 1
  /\ UNCHANGED <<args, disk, last, verdict, faults, died>>

\* There is nothing to run.  From the end LangGraph returns at once, and resume
\* with it, but maf yields no output and resume raises, as both do when nothing
\* was ever persisted.
ResumeNothing ==
  /\ Follows("inspect")
  /\ resumes < MaxResumes
  /\ Latest \in {Null, "end"}
  /\ Close
  /\ Ended(IF framework = "langgraph" /\ Latest = "end" THEN "resume" ELSE "raised")
  /\ resumes' = resumes + 1
  /\ UNCHANGED <<args, running, node, sink, marker, observation, final, verdict, faults, died>>

\* The assertions of verify; a missing or torn file fails it too.
Passes ==
  /\ observation = ExpectedClass
  /\ attempts = ExpectedAttempts /\ effects = ExpectedEffects
  /\ Output

Verify ==
  /\ Follows("resume")
  /\ verdict' = IF Passes THEN "pass" ELSE "fail"
  /\ Close
  /\ Ended("verify")
  /\ UNCHANGED <<args, running, node, sink, marker, observation, final, count>>

\* A process dies where nothing injects it.
Fault ==
  /\ running # "none"
  /\ operator = "any" /\ faults < MaxFaults
  /\ faults' = faults + 1 /\ died' = died \cup {node}
  /\ Exit
  /\ UNCHANGED <<args, disk, verdict, resumes>>

Run ==
  \/ RemoveFile \/ RemoveCheckpoint \/ Begin
  \/ Prepare \/ Effect \/ CrashOnce \/ Apply \/ Applied \/ PostCheckpoint \/ Finish
  \/ TruncateFinal \/ WriteFinal \/ WriteObservation \/ Leave

RunPhase == Start \/ Inspect \/ InspectRaises \/ Resume \/ ResumeNothing \/ Verify

Next == Run \/ RunPhase \/ Fault

Spec == Init /\ [][Next]_vars

\* A process runs on, and the workflow's shell runs each phase once the one before ended.
FairSpec == Spec /\ WF_vars(Run) /\ WF_vars(RunPhase)
-----------------------------------------------------------------------------
\* The files are of one case: no start has died among the removals, or is at them, since
\* one began the graph.
Intact == "reset" \notin died /\ node # "reset"

\* An effect whose attempt is in the sink is never lost: while the files are of one
\* case, a checkpoint past the effect node, or the output, means that the effect is
\* visible; and even among the remains of a reset that died, the attempts of such a
\* checkpoint have theirs.  Nor is the output of a finished graph lost, unless a process
\* is, or died, between maf's last checkpoint and its final.json (no later resume can
\* write it) or in the reset.
NothingLost ==
  /\ Intact /\ (Latest \in Past \/ Output) => effects > 0
  /\ Latest \in Past /\ attempts > 0 => effects > 0
  /\ Latest = "end" /\ ~Output =>
       framework = "maf" /\ \E point \in {"output", "writing", "reset"} : point \in died \cup {node}

\* What inspect classified as completion-recorded stays beyond replay: no later resume
\* starts at or before the effect node.  The exception is a start that died in its
\* reset: observation.json may then be left beside an older checkpoint than it speaks of.
RecordedMeansNoReplay == Intact /\ observation = "completion-recorded" => Latest \in Past

\* With the idempotent sink, any number of deaths and resumes leaves one effect.
IdempotentOneEffect == mode = "idempotent" => effects <= 1

\* Past its checkpoint the effect node is not entered again, and no process takes
\* the checkpoint back before it, unless start removes what there is.
CheckpointedNotRepeated ==
  [][(Latest \in Past /\ node # "reset") => attempts' = attempts /\ Latest' \in Past]_vars

\* The workflow of the repository ends with a passing verify, whatever the
\* framework, the boundary and the sink: class, attempts and effects as expected.
WorkflowPasses == operator = "workflow" => <>(verdict = "pass")
=============================================================================
