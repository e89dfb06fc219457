------------------------ MODULE CrashBoundaryProofs -------------------------
(***************************************************************************)
(* The safety of the crash-boundary runners, whatever order the phases are *)
(* run in, however often their processes die, and whichever files of the   *)
(* case a start that dies leaves behind.                                   *)
(***************************************************************************)
EXTENDS CrashBoundary, TLAPS

Checkpoint == Node \cup {"end"}

TypeOK ==
  /\ framework \in Framework /\ scenario \in Scenario /\ mode \in EffectMode
  /\ operator \in {"workflow", "any"}
  /\ running \in {"none", "start", "inspect", "resume"}
  /\ node \in Node \cup Within \cup {Null}
  /\ running = "none" <=> node = Null
  /\ node = "reset" => running = "start"
  /\ running = "inspect" <=> node \in {"observing", "observed"}
  /\ node = "writing" => WritesFinal
  /\ attempts \in Nat /\ effects \in Nat
  /\ marker \in BOOLEAN
  /\ saved \in SUBSET Checkpoint /\ synced \in SUBSET saved
  /\ framework = "maf" => synced = {}
  /\ observation \in CompletionClass \cup {Null, "torn"}
  /\ final \in {Null, "torn", "done"}
  /\ faults \in Nat /\ resumes \in Nat
  /\ died \in SUBSET (Node \cup Within)

\* Where the graph's process is, it has just come from the latest checkpoint.
AtCheckpoint ==
  /\ node = "prepare" => Latest \in {Null, "prepare"}
  /\ node \in {"effect", "recorded", "applied"} => Latest = "effect"
  /\ node \in {"post_checkpoint", "finish"} => Latest = node
  /\ node \in {"output", "writing"} => Latest = "end"

\* The first run never passes the boundary of its scenario: the marker is not there
\* to stop the injected crash.
BeforeBoundary ==
  running = "start" /\ node # "reset" =>
    /\ ~marker
    /\ node \notin {"finish", "output"}
    /\ scenario = "before-effect" => node \in {"prepare", "effect", "recorded"}
    /\ scenario = "after-effect-before-checkpoint" => node # "post_checkpoint"

\* While the files are of one case, maf's output is that of a finished graph.
OutputOfFinished == Intact /\ final # Null => Latest = "end"

\* What the sink holds at each point: an effect is never without its attempt, an
\* attempt that went past the effect node not without its effect, and while the files
\* are of one case the checkpoint tells which it is.
SinkInv ==
  /\ attempts = 0 => effects = 0
  /\ node = "recorded" => attempts > 0
  /\ node = "applied" => effects > 0
  /\ Latest \in Past /\ attempts > 0 => effects > 0
  /\ Intact /\ Latest \in Past => effects > 0
  /\ Intact /\ Latest \in {Null, "prepare"} => attempts = 0

\* While the files are of one case, a recorded completion is of a checkpoint past it.
RecordedInv == Intact /\ observation = "completion-recorded" => Latest \in Past

\* Without a death on the way to it the output follows the last checkpoint.
FinishedInv ==
  Latest = "end" /\ ~Output =>
    framework = "maf" /\ \E point \in {"output", "writing", "reset"} : point \in died \cup {node}

IInv ==
  /\ TypeOK /\ AtCheckpoint /\ BeforeBoundary /\ OutputOfFinished
  /\ SinkInv /\ RecordedInv /\ FinishedInv

\* What the sink holds when the injected crash has happened, and what becomes of it
\* when the effect node is entered again.
SinkIs(a, e) == attempts = a /\ effects = e

FirstEffects == IF scenario = "before-effect" THEN 0 ELSE 1

AfterCrash ==
  /\ marker
  /\ SinkIs(1, FirstEffects)
  /\ Latest = IF scenario = "after-checkpoint" THEN "post_checkpoint" ELSE "effect"

\* The state of the workflow's phases, each run once, in order and undisturbed.
FirstRun ==
  /\ node \in {Null, "reset", "prepare", "effect"} => SinkIs(0, 0)
  /\ node = "recorded" => SinkIs(1, 0)
  /\ node \in {"applied", "post_checkpoint"} => SinkIs(1, 1)

SecondRun ==
  /\ node \in {"effect", "recorded", "applied", "post_checkpoint", "finish", "output", "writing"}
  /\ scenario = "after-checkpoint" => node \notin {"effect", "recorded", "applied"}
  /\ node = "effect" => SinkIs(1, FirstEffects)
  /\ node = "recorded" => SinkIs(2, FirstEffects)
  /\ node \notin {"effect", "recorded"} => SinkIs(ExpectedAttempts, ExpectedEffects)

WorkflowInv ==
  operator = "workflow" =>
    /\ last \in Phase \cup {Null} /\ verdict \in Verdict \cup {Null}
    /\ last = Null => running \in {"none", "start"} /\ FirstRun
    /\ last = "start" => running \in {"none", "inspect"} /\ AfterCrash
    /\ node = "observed" \/ last \in {"inspect", "resume"} => observation = ExpectedClass
    /\ last = "inspect" /\ running = "none" => AfterCrash
    /\ last = "inspect" /\ running # "none" => running = "resume" /\ marker /\ SecondRun
    /\ last \in {"resume", "verify"} => running = "none"
    /\ last = "resume" => Passes
    /\ verdict # "fail"
-----------------------------------------------------------------------------
LEMMA LatestType == Latest \in Checkpoint \cup {Null}
BY DEF Latest, Checkpoint, Node

(* Each action keeps the invariant, in the order of CrashBoundary *)

LEMMA StartKeepsIInv ==
  ASSUME IInv, Start
  PROVE  IInv'
<1> USE NullAssumption DEF IInv, args, sink, disk, checkpoints, count, Node, Within, Past,
      Follows, Start
<1>1. Latest' = Latest
  BY DEF Latest
<1>2. TypeOK'
  BY <1>1 DEF TypeOK, WritesFinal, Checkpoint
<1>3. AtCheckpoint'
  BY <1>1 DEF AtCheckpoint
<1>4. BeforeBoundary'
  BY <1>1 DEF BeforeBoundary
<1>5. OutputOfFinished'
  BY <1>1 DEF OutputOfFinished, TypeOK, Intact
<1>6. SinkInv'
  BY <1>1 DEF SinkInv, TypeOK, AtCheckpoint, Intact
<1>7. RecordedInv'
  BY <1>1 DEF RecordedInv, TypeOK, Intact
<1>8. FinishedInv'
  BY <1>1 DEF FinishedInv, TypeOK, Output
<1> QED
  BY <1>2, <1>3, <1>4, <1>5, <1>6, <1>7, <1>8

LEMMA RemoveFileKeepsIInv ==
  ASSUME IInv, RemoveFile
  PROVE  IInv'
<1> USE NullAssumption DEF IInv, args, sink, disk, checkpoints, count, Node, Within, Past,
      RemoveFile
<1>1. Latest' = Latest
  BY DEF Latest
<1>2. TypeOK'
  <2>1. attempts' \in Nat /\ effects' \in Nat
    BY DEF TypeOK
  <2>2. marker' \in BOOLEAN /\ observation' \in {observation, Null} /\ final' \in {final, Null}
    BY DEF TypeOK
  <2> QED
    BY <2>1, <2>2 DEF TypeOK, WritesFinal
<1>3. AtCheckpoint'
  BY <1>1 DEF AtCheckpoint
<1>4. BeforeBoundary'
  BY <1>1 DEF BeforeBoundary
<1>5. OutputOfFinished'
  BY <1>1 DEF OutputOfFinished, TypeOK, Intact
<1>6. SinkInv'
  BY <1>1 DEF SinkInv, TypeOK, AtCheckpoint, Intact
<1>7. RecordedInv'
  BY <1>1 DEF RecordedInv, TypeOK, Intact
<1>8. FinishedInv'
  BY <1>1 DEF FinishedInv, TypeOK, Output, Framework
<1> QED
  BY <1>2, <1>3, <1>4, <1>5, <1>6, <1>7, <1>8

LEMMA RemoveCheckpointKeepsIInv ==
  ASSUME IInv, RemoveCheckpoint
  PROVE  IInv'
<1> USE NullAssumption DEF IInv, args, sink, disk, checkpoints, count, Node, Within, Past,
      RemoveCheckpoint
<1>1. Latest' \in Past => Latest \in Past
  BY DEF TypeOK, Latest
<1>2. TypeOK'
  <2>1. saved' \subseteq saved /\ synced' \subseteq saved' /\ (framework = "maf" => synced' = {})
    BY DEF TypeOK
  <2> QED
    BY <2>1 DEF TypeOK, WritesFinal
<1>3. AtCheckpoint'
  BY <1>1 DEF AtCheckpoint
<1>4. BeforeBoundary'
  BY <1>1 DEF BeforeBoundary
<1>5. OutputOfFinished'
  BY <1>1 DEF OutputOfFinished, TypeOK, Intact
<1>6. SinkInv'
  BY <1>1 DEF SinkInv, TypeOK, AtCheckpoint, Intact
<1>7. RecordedInv'
  BY <1>1 DEF RecordedInv, TypeOK, Intact
<1>8. FinishedInv'
  BY <1>1 DEF FinishedInv, TypeOK, Output, Framework
<1> QED
  BY <1>2, <1>3, <1>4, <1>5, <1>6, <1>7, <1>8

LEMMA BeginKeepsIInv ==
  ASSUME IInv, Begin
  PROVE  IInv'
<1> USE NullAssumption DEF IInv, args, sink, disk, checkpoints, count, Node, Within, Past, Begin
<1>1. Latest' \in {Null, "prepare"}
  BY DEF Latest
<1>2. TypeOK'
  BY <1>1 DEF TypeOK, WritesFinal, Checkpoint
<1>3. AtCheckpoint'
  BY <1>1 DEF AtCheckpoint
<1>4. BeforeBoundary'
  BY <1>1 DEF BeforeBoundary
<1>5. OutputOfFinished'
  BY <1>1 DEF OutputOfFinished, TypeOK, Intact
<1>6. SinkInv'
  BY <1>1 DEF SinkInv, TypeOK, AtCheckpoint, Intact
<1>7. RecordedInv'
  BY <1>1 DEF RecordedInv, TypeOK, Intact, CompletionClass
<1>8. FinishedInv'
  BY <1>1 DEF FinishedInv, TypeOK, Output
<1> QED
  BY <1>2, <1>3, <1>4, <1>5, <1>6, <1>7, <1>8

LEMMA PrepareKeepsIInv ==
  ASSUME IInv, Prepare
  PROVE  IInv'
<1> USE NullAssumption DEF IInv, args, sink, disk, checkpoints, count, Node, Within, Past,
      Return, Prepare
<1>1. Latest' = "effect"
  BY DEF AtCheckpoint, TypeOK, Checkpoint, Latest
<1>2. TypeOK'
  BY <1>1 DEF TypeOK, WritesFinal, Checkpoint
<1>3. AtCheckpoint'
  BY <1>1 DEF AtCheckpoint
<1>4. BeforeBoundary'
  BY <1>1 DEF BeforeBoundary
<1>5. OutputOfFinished'
  BY <1>1 DEF OutputOfFinished, TypeOK, Intact, AtCheckpoint
<1>6. SinkInv'
  BY <1>1 DEF SinkInv, TypeOK, AtCheckpoint, Intact
<1>7. RecordedInv'
  BY <1>1 DEF RecordedInv, TypeOK, Intact, AtCheckpoint
<1>8. FinishedInv'
  BY <1>1 DEF FinishedInv, TypeOK, Output
<1> QED
  BY <1>2, <1>3, <1>4, <1>5, <1>6, <1>7, <1>8

LEMMA EffectKeepsIInv ==
  ASSUME IInv, Effect
  PROVE  IInv'
<1> USE NullAssumption DEF IInv, args, sink, disk, checkpoints, count, Node, Within, Past, Effect
<1>1. Latest' = Latest
  BY DEF Latest
<1>2. TypeOK'
  BY <1>1 DEF TypeOK, WritesFinal, Checkpoint
<1>3. AtCheckpoint'
  BY <1>1 DEF AtCheckpoint
<1>4. BeforeBoundary'
  BY <1>1 DEF BeforeBoundary
<1>5. OutputOfFinished'
  BY <1>1 DEF OutputOfFinished, TypeOK, Intact
<1>6. SinkInv'
  BY <1>1 DEF SinkInv, TypeOK, AtCheckpoint, Intact
<1>7. RecordedInv'
  BY <1>1 DEF RecordedInv, TypeOK, Intact
<1>8. FinishedInv'
  BY <1>1 DEF FinishedInv, TypeOK, Output
<1> QED
  BY <1>2, <1>3, <1>4, <1>5, <1>6, <1>7, <1>8

LEMMA CrashOnceKeepsIInv ==
  ASSUME IInv, CrashOnce
  PROVE  IInv'
<1> USE NullAssumption DEF IInv, args, sink, disk, checkpoints, count, Node, Within, Past, Exit,
      Crashes, AtBoundary, CrashOnce
<1>1. Latest' = Latest
  BY DEF Latest
<1>2. TypeOK'
  BY <1>1 DEF TypeOK, WritesFinal, Checkpoint
<1>3. AtCheckpoint'
  BY <1>1 DEF AtCheckpoint
<1>4. BeforeBoundary'
  BY <1>1 DEF BeforeBoundary
<1>5. OutputOfFinished'
  BY <1>1 DEF OutputOfFinished, TypeOK, Intact
<1>6. SinkInv'
  BY <1>1 DEF SinkInv, TypeOK, AtCheckpoint, Intact
<1>7. RecordedInv'
  BY <1>1 DEF RecordedInv, TypeOK, Intact
<1>8. FinishedInv'
  BY <1>1 DEF FinishedInv, TypeOK, Output
<1> QED
  BY <1>2, <1>3, <1>4, <1>5, <1>6, <1>7, <1>8

LEMMA ApplyKeepsIInv ==
  ASSUME IInv, Apply
  PROVE  IInv'
<1> USE NullAssumption DEF IInv, args, sink, disk, checkpoints, count, Node, Within, Past,
      Crashes, AtBoundary, ApplyEffect, Apply
<1>1. Latest' = Latest
  BY DEF Latest
<1>2. TypeOK'
  BY <1>1 DEF TypeOK, WritesFinal, Checkpoint
<1>3. AtCheckpoint'
  BY <1>1 DEF AtCheckpoint
<1>4. BeforeBoundary'
  BY <1>1 DEF BeforeBoundary
<1>5. OutputOfFinished'
  BY <1>1 DEF OutputOfFinished, TypeOK, Intact
<1>6. SinkInv'
  BY <1>1 DEF SinkInv, TypeOK, AtCheckpoint, Intact
<1>7. RecordedInv'
  BY <1>1 DEF RecordedInv, TypeOK, Intact
<1>8. FinishedInv'
  BY <1>1 DEF FinishedInv, TypeOK, Output
<1> QED
  BY <1>2, <1>3, <1>4, <1>5, <1>6, <1>7, <1>8

LEMMA AppliedKeepsIInv ==
  ASSUME IInv, Applied
  PROVE  IInv'
<1> USE NullAssumption DEF IInv, args, sink, disk, checkpoints, count, Node, Within, Past,
      Return, ReturnFrom, Crashes, AtBoundary, Applied
<1>1. Latest' = "post_checkpoint"
  BY DEF AtCheckpoint, TypeOK, Checkpoint, Latest
<1>2. TypeOK'
  BY <1>1 DEF TypeOK, WritesFinal, Checkpoint
<1>3. AtCheckpoint'
  BY <1>1 DEF AtCheckpoint
<1>4. BeforeBoundary'
  BY <1>1 DEF BeforeBoundary
<1>5. OutputOfFinished'
  BY <1>1 DEF OutputOfFinished, TypeOK, Intact, AtCheckpoint
<1>6. SinkInv'
  BY <1>1 DEF SinkInv, TypeOK, AtCheckpoint, Intact
<1>7. RecordedInv'
  BY <1>1 DEF RecordedInv, TypeOK, Intact
<1>8. FinishedInv'
  BY <1>1 DEF FinishedInv, TypeOK, Output
<1> QED
  BY <1>2, <1>3, <1>4, <1>5, <1>6, <1>7, <1>8

LEMMA PostCheckpointKeepsIInv ==
  ASSUME IInv, PostCheckpoint
  PROVE  IInv'
<1> USE NullAssumption DEF IInv, args, sink, disk, checkpoints, count, Node, Within, Past,
      Return, ReturnFrom, Crashes, AtBoundary, PostCheckpoint
<1>1. Latest' = "finish"
  BY DEF AtCheckpoint, TypeOK, Checkpoint, Latest
<1>2. TypeOK'
  BY <1>1 DEF TypeOK, WritesFinal, Checkpoint
<1>3. AtCheckpoint'
  BY <1>1 DEF AtCheckpoint
<1>4. BeforeBoundary'
  BY <1>1 DEF BeforeBoundary, TypeOK, Scenario
<1>5. OutputOfFinished'
  BY <1>1 DEF OutputOfFinished, TypeOK, Intact, AtCheckpoint
<1>6. SinkInv'
  BY <1>1 DEF SinkInv, TypeOK, AtCheckpoint, Intact
<1>7. RecordedInv'
  BY <1>1 DEF RecordedInv, TypeOK, Intact
<1>8. FinishedInv'
  BY <1>1 DEF FinishedInv, TypeOK, Output
<1> QED
  BY <1>2, <1>3, <1>4, <1>5, <1>6, <1>7, <1>8

LEMMA FinishKeepsIInv ==
  ASSUME IInv, Finish
  PROVE  IInv'
<1> USE NullAssumption DEF IInv, args, sink, disk, checkpoints, count, Node, Within, Past, Finish
<1>1. Latest' = "end"
  BY DEF Latest
<1>2. TypeOK'
  BY <1>1 DEF TypeOK, WritesFinal, Checkpoint
<1>3. AtCheckpoint'
  BY <1>1 DEF AtCheckpoint
<1>4. BeforeBoundary'
  BY <1>1 DEF BeforeBoundary
<1>5. OutputOfFinished'
  BY <1>1 DEF OutputOfFinished, TypeOK, Intact
<1>6. SinkInv'
  BY <1>1 DEF SinkInv, TypeOK, AtCheckpoint, Intact
<1>7. RecordedInv'
  BY <1>1 DEF RecordedInv, TypeOK, Intact
<1>8. FinishedInv'
  BY <1>1 DEF FinishedInv, TypeOK, Output, Framework
<1> QED
  BY <1>2, <1>3, <1>4, <1>5, <1>6, <1>7, <1>8

LEMMA TruncateFinalKeepsIInv ==
  ASSUME IInv, TruncateFinal
  PROVE  IInv'
<1> USE NullAssumption DEF IInv, args, sink, disk, checkpoints, count, Node, Within, Past,
      TruncateFinal
<1>1. Latest' = Latest
  BY DEF Latest
<1>2. TypeOK'
  BY <1>1 DEF TypeOK, WritesFinal, Checkpoint
<1>3. AtCheckpoint'
  BY <1>1 DEF AtCheckpoint
<1>4. BeforeBoundary'
  BY <1>1 DEF BeforeBoundary
<1>5. OutputOfFinished'
  BY <1>1 DEF OutputOfFinished, TypeOK, Intact, AtCheckpoint
<1>6. SinkInv'
  BY <1>1 DEF SinkInv, TypeOK, AtCheckpoint, Intact
<1>7. RecordedInv'
  BY <1>1 DEF RecordedInv, TypeOK, Intact
<1>8. FinishedInv'
  BY <1>1 DEF FinishedInv, TypeOK, WritesFinal
<1> QED
  BY <1>2, <1>3, <1>4, <1>5, <1>6, <1>7, <1>8

LEMMA WriteFinalKeepsIInv ==
  ASSUME IInv, WriteFinal
  PROVE  IInv'
<1> USE NullAssumption DEF IInv, args, sink, disk, checkpoints, count, Node, Within, Past, Exit,
      WriteFinal
<1>1. Latest' = Latest
  BY DEF Latest
<1>2. TypeOK'
  BY <1>1 DEF TypeOK, WritesFinal, Checkpoint
<1>3. AtCheckpoint'
  BY <1>1 DEF AtCheckpoint
<1>4. BeforeBoundary'
  BY <1>1 DEF BeforeBoundary
<1>5. OutputOfFinished'
  BY <1>1 DEF OutputOfFinished, TypeOK, Intact, AtCheckpoint
<1>6. SinkInv'
  BY <1>1 DEF SinkInv, TypeOK, AtCheckpoint, Intact
<1>7. RecordedInv'
  BY <1>1 DEF RecordedInv, TypeOK, Intact
<1>8. FinishedInv'
  BY <1>1 DEF FinishedInv, TypeOK, Output, AtCheckpoint, Framework, WritesFinal
<1> QED
  BY <1>2, <1>3, <1>4, <1>5, <1>6, <1>7, <1>8

LEMMA InspectRaisesKeepsIInv ==
  ASSUME IInv, InspectRaises
  PROVE  IInv'
<1> USE NullAssumption DEF IInv, args, sink, disk, checkpoints, count, Node, Within, Past,
      Follows, Close, InspectRaises
<1>1. Latest' = Latest
  BY DEF Latest
<1>2. TypeOK'
  BY <1>1 DEF TypeOK, WritesFinal, Checkpoint
<1>3. AtCheckpoint'
  BY <1>1 DEF AtCheckpoint
<1>4. BeforeBoundary'
  BY <1>1 DEF BeforeBoundary
<1>5. OutputOfFinished'
  BY <1>1 DEF OutputOfFinished, TypeOK, Intact
<1>6. SinkInv'
  BY <1>1 DEF SinkInv, TypeOK, AtCheckpoint, Intact
<1>7. RecordedInv'
  BY <1>1 DEF RecordedInv, TypeOK, Intact
<1>8. FinishedInv'
  BY <1>1 DEF FinishedInv, TypeOK, Output
<1> QED
  BY <1>2, <1>3, <1>4, <1>5, <1>6, <1>7, <1>8

LEMMA InspectKeepsIInv ==
  ASSUME IInv, Inspect
  PROVE  IInv'
<1> USE NullAssumption DEF IInv, args, sink, disk, checkpoints, count, Node, Within, Past,
      Follows, Inspect
<1>1. Latest' = Latest
  BY DEF Latest
<1>2. TypeOK'
  BY <1>1 DEF TypeOK, WritesFinal, Checkpoint
<1>3. AtCheckpoint'
  BY <1>1 DEF AtCheckpoint
<1>4. BeforeBoundary'
  BY <1>1 DEF BeforeBoundary
<1>5. OutputOfFinished'
  BY <1>1 DEF OutputOfFinished, TypeOK, Intact
<1>6. SinkInv'
  BY <1>1 DEF SinkInv, TypeOK, AtCheckpoint, Intact
<1>7. RecordedInv'
  BY <1>1 DEF RecordedInv, TypeOK, Intact
<1>8. FinishedInv'
  BY <1>1 DEF FinishedInv, TypeOK, Output
<1> QED
  BY <1>2, <1>3, <1>4, <1>5, <1>6, <1>7, <1>8

LEMMA WriteObservationKeepsIInv ==
  ASSUME IInv, WriteObservation
  PROVE  IInv'
<1> USE NullAssumption DEF IInv, args, sink, disk, checkpoints, count, Node, Within, Past,
      WriteObservation
<1>1. Latest' = Latest
  BY DEF Latest
<1>2. TypeOK'
  BY <1>1 DEF TypeOK, WritesFinal, Classify, CompletionClass
<1>3. AtCheckpoint'
  BY <1>1 DEF AtCheckpoint
<1>4. BeforeBoundary'
  BY <1>1 DEF BeforeBoundary
<1>5. OutputOfFinished'
  BY <1>1 DEF OutputOfFinished, TypeOK, Intact
<1>6. SinkInv'
  BY <1>1 DEF SinkInv, TypeOK, AtCheckpoint, Intact
<1>7. RecordedInv'
  BY <1>1, LatestType DEF RecordedInv, TypeOK, Intact, SinkInv, Checkpoint, CompletionRecorded,
      Classify, LangGraphRecorded, MafRecorded
<1>8. FinishedInv'
  BY <1>1 DEF FinishedInv, TypeOK, Output
<1> QED
  BY <1>2, <1>3, <1>4, <1>5, <1>6, <1>7, <1>8

LEMMA LeaveKeepsIInv ==
  ASSUME IInv, Leave
  PROVE  IInv'
<1> USE NullAssumption DEF IInv, args, sink, disk, checkpoints, count, Node, Within, Past, Exit,
      Close, Leave
<1>1. Latest' = Latest
  BY DEF Latest
<1>2. TypeOK'
  BY <1>1 DEF TypeOK, WritesFinal, Checkpoint
<1>3. AtCheckpoint'
  BY <1>1 DEF AtCheckpoint
<1>4. BeforeBoundary'
  BY <1>1 DEF BeforeBoundary
<1>5. OutputOfFinished'
  BY <1>1 DEF OutputOfFinished, TypeOK, Intact
<1>6. SinkInv'
  BY <1>1 DEF SinkInv, TypeOK, AtCheckpoint, Intact
<1>7. RecordedInv'
  BY <1>1 DEF RecordedInv, TypeOK, Intact
<1>8. FinishedInv'
  BY <1>1 DEF FinishedInv, TypeOK, Output, BeforeBoundary, WritesFinal, Framework
<1> QED
  BY <1>2, <1>3, <1>4, <1>5, <1>6, <1>7, <1>8

LEMMA ResumeKeepsIInv ==
  ASSUME IInv, Resume
  PROVE  IInv'
<1> USE NullAssumption DEF IInv, args, sink, disk, checkpoints, count, Node, Within, Past,
      Follows, Resume
<1>1. Latest' = Latest
  BY DEF Latest
<1>2. TypeOK'
  BY <1>1 DEF TypeOK, WritesFinal, Checkpoint
<1>3. AtCheckpoint'
  BY <1>1 DEF AtCheckpoint
<1>4. BeforeBoundary'
  BY <1>1 DEF BeforeBoundary
<1>5. OutputOfFinished'
  BY <1>1 DEF OutputOfFinished, TypeOK, Intact
<1>6. SinkInv'
  BY <1>1 DEF SinkInv, TypeOK, AtCheckpoint, Intact
<1>7. RecordedInv'
  BY <1>1 DEF RecordedInv, TypeOK, Intact
<1>8. FinishedInv'
  BY <1>1 DEF FinishedInv, TypeOK, Output
<1> QED
  BY <1>2, <1>3, <1>4, <1>5, <1>6, <1>7, <1>8

LEMMA ResumeNothingKeepsIInv ==
  ASSUME IInv, ResumeNothing
  PROVE  IInv'
<1> USE NullAssumption DEF IInv, args, sink, disk, checkpoints, count, Node, Within, Past,
      Follows, Close, ResumeNothing
<1>1. Latest' = Latest
  BY DEF Latest
<1>2. TypeOK'
  BY <1>1 DEF TypeOK, WritesFinal, Checkpoint
<1>3. AtCheckpoint'
  BY <1>1 DEF AtCheckpoint
<1>4. BeforeBoundary'
  BY <1>1 DEF BeforeBoundary
<1>5. OutputOfFinished'
  BY <1>1 DEF OutputOfFinished, TypeOK, Intact
<1>6. SinkInv'
  BY <1>1 DEF SinkInv, TypeOK, AtCheckpoint, Intact
<1>7. RecordedInv'
  BY <1>1 DEF RecordedInv, TypeOK, Intact
<1>8. FinishedInv'
  BY <1>1 DEF FinishedInv, TypeOK, Output
<1> QED
  BY <1>2, <1>3, <1>4, <1>5, <1>6, <1>7, <1>8

LEMMA VerifyKeepsIInv ==
  ASSUME IInv, Verify
  PROVE  IInv'
<1> USE NullAssumption DEF IInv, args, sink, disk, checkpoints, count, Node, Within, Past,
      Follows, Close, Verify
<1>1. Latest' = Latest
  BY DEF Latest
<1>2. TypeOK'
  BY <1>1 DEF TypeOK, WritesFinal, Checkpoint
<1>3. AtCheckpoint'
  BY <1>1 DEF AtCheckpoint
<1>4. BeforeBoundary'
  BY <1>1 DEF BeforeBoundary
<1>5. OutputOfFinished'
  BY <1>1 DEF OutputOfFinished, TypeOK, Intact
<1>6. SinkInv'
  BY <1>1 DEF SinkInv, TypeOK, AtCheckpoint, Intact
<1>7. RecordedInv'
  BY <1>1 DEF RecordedInv, TypeOK, Intact
<1>8. FinishedInv'
  BY <1>1 DEF FinishedInv, TypeOK, Output
<1> QED
  BY <1>2, <1>3, <1>4, <1>5, <1>6, <1>7, <1>8

LEMMA FaultKeepsIInv ==
  ASSUME IInv, Fault
  PROVE  IInv'
<1> USE NullAssumption DEF IInv, args, sink, disk, checkpoints, count, Node, Within, Past, Exit,
      Fault
<1>1. Latest' = Latest
  BY DEF Latest
<1>2. TypeOK'
  BY <1>1 DEF TypeOK, WritesFinal, Checkpoint
<1>3. AtCheckpoint'
  BY <1>1 DEF AtCheckpoint
<1>4. BeforeBoundary'
  BY <1>1 DEF BeforeBoundary
<1>5. OutputOfFinished'
  BY <1>1 DEF OutputOfFinished, TypeOK, Intact
<1>6. SinkInv'
  BY <1>1 DEF SinkInv, TypeOK, AtCheckpoint, Intact
<1>7. RecordedInv'
  BY <1>1 DEF RecordedInv, TypeOK, Intact
<1>8. FinishedInv'
  BY <1>1 DEF FinishedInv, TypeOK, Output
<1> QED
  BY <1>2, <1>3, <1>4, <1>5, <1>6, <1>7, <1>8

LEMMA StutterKeepsIInv == IInv /\ UNCHANGED vars => IInv'
BY DEF IInv, TypeOK, AtCheckpoint, BeforeBoundary, OutputOfFinished, SinkInv, RecordedInv,
   FinishedInv, Latest, Output, Intact, WritesFinal, vars, args, disk, sink, checkpoints, count

LEMMA InitIInv == Init => IInv
<1> SUFFICES ASSUME Init PROVE IInv
  OBVIOUS
<1> USE NullAssumption DEF Init
<1>1. Latest = Null
  BY DEF Latest
<1>2. TypeOK
  BY DEF TypeOK, Framework, Scenario, EffectMode, Checkpoint, Node, Within
<1>3. AtCheckpoint
  BY DEF AtCheckpoint, Node, Within
<1>4. BeforeBoundary
  BY DEF BeforeBoundary
<1>5. OutputOfFinished
  BY DEF OutputOfFinished
<1>6. SinkInv
  BY <1>1 DEF SinkInv, Past, Within
<1>7. RecordedInv
  BY DEF RecordedInv, CompletionClass
<1>8. FinishedInv
  BY <1>1 DEF FinishedInv, Past
<1> QED
  BY <1>2, <1>3, <1>4, <1>5, <1>6, <1>7, <1>8 DEF IInv

\* So the invariant is inductive, and holds of every behaviour.
LEMMA NextKeepsIInv == IInv /\ [Next]_vars => IInv'
BY StartKeepsIInv, RemoveFileKeepsIInv, RemoveCheckpointKeepsIInv, BeginKeepsIInv,
   PrepareKeepsIInv, EffectKeepsIInv, CrashOnceKeepsIInv, ApplyKeepsIInv, AppliedKeepsIInv,
   PostCheckpointKeepsIInv, FinishKeepsIInv, TruncateFinalKeepsIInv, WriteFinalKeepsIInv,
   InspectRaisesKeepsIInv, InspectKeepsIInv, WriteObservationKeepsIInv, LeaveKeepsIInv,
   ResumeKeepsIInv, ResumeNothingKeepsIInv, VerifyKeepsIInv, FaultKeepsIInv, StutterKeepsIInv
   DEF Next, Run, RunPhase

LEMMA SpecIInv == Spec => []IInv
BY InitIInv, NextKeepsIInv, PTL DEF Spec

-----------------------------------------------------------------------------
\* While the files are of one case the sink never holds less than the checkpoint or the
\* output says was done, even a start that dies among its removals leaves no attempts
\* of a checkpoint past the effect without an effect, and a finished graph's output is
\* missing only where maf died before final.json or in the reset: whatever the boundary, the
\* sink and the number of deaths, of record_attempt, apply_effect, rmtree and write_final.
THEOREM BoundaryNothingLost == Spec => []NothingLost
<1>1. IInv => NothingLost
  <2> SUFFICES ASSUME IInv PROVE NothingLost
    OBVIOUS
  <2>1. Intact /\ Output => Latest \in Past
    BY NullAssumption DEF IInv, OutputOfFinished, Output, Past
  <2> QED
    BY <2>1 DEF IInv, SinkInv, FinishedInv, NothingLost
<1> QED
  BY <1>1, SpecIInv, PTL

\* What inspect classified as completion-recorded is never replayed by a resume, unless
\* a start died among the files it removes one by one.
THEOREM BoundaryNoReplay == Spec => []RecordedMeansNoReplay
<1>1. IInv => RecordedMeansNoReplay
  BY DEF IInv, RecordedInv, RecordedMeansNoReplay
<1> QED
  BY <1>1, SpecIInv, PTL

\* Every step but the reset's removals and the start of the graph only adds checkpoints,
\* and but those of the effect node it leaves the attempts alone.
LEMMA CheckpointsAdded ==
  ASSUME IInv, Next, node # "reset"
  PROVE  saved \subseteq saved' /\ (node # "effect" => attempts' = attempts)
BY DEF Next, Run, RunPhase, Start, RemoveFile, RemoveCheckpoint, Begin, Prepare, Effect,
   CrashOnce, Apply, Applied, PostCheckpoint, ReturnFrom, Finish, TruncateFinal, WriteFinal,
   InspectRaises, Inspect, WriteObservation, Leave, Resume, ResumeNothing, Verify, Fault, Return,
   Close, sink, disk, checkpoints

\* No step of any phase but start's reset enters the effect node again, or takes the
\* checkpoint back before it, once a checkpoint is past it.
THEOREM BoundaryNotRepeated == Spec => CheckpointedNotRepeated
<1>1. IInv /\ [Next]_vars =>
        [(Latest \in Past /\ node # "reset") => attempts' = attempts /\ Latest' \in Past]_vars
  <2> SUFFICES ASSUME IInv, Next, Latest \in Past, node # "reset"
               PROVE  attempts' = attempts /\ Latest' \in Past
    OBVIOUS
  <2>1. node # "effect"
    BY DEF IInv, AtCheckpoint, Past
  <2>2. saved \cap Past # {}
    BY NullAssumption DEF Latest, Past, Node
  <2>3. saved' \cap Past # {}
    BY <2>2, CheckpointsAdded
  <2>4. Latest' \in Past
    BY <2>3 DEF Latest, Past
  <2> QED
    BY <2>1, <2>4, CheckpointsAdded
<1> QED
  BY <1>1, SpecIInv, PTL DEF Spec, CheckpointedNotRepeated

\* The command line of a case does not change while it runs.
LEMMA ArgumentsKept == [Next]_vars => UNCHANGED args
BY DEF Next, Run, RunPhase, vars, Start, RemoveFile, RemoveCheckpoint, Begin, Prepare, Effect,
   CrashOnce, Apply, Applied, PostCheckpoint, ReturnFrom, Finish, TruncateFinal, WriteFinal,
   InspectRaises, Inspect, WriteObservation, Leave, Resume, ResumeNothing, Verify, Fault

\* Only the effect node applies, and only the reset removes.
LEMMA EffectsSteps == [Next]_vars => UNCHANGED effects \/ Apply \/ effects' = 0
BY DEF Next, Run, RunPhase, vars, Start, RemoveFile, RemoveCheckpoint, Begin, Prepare, Effect,
   CrashOnce, Applied, PostCheckpoint, ReturnFrom, Finish, TruncateFinal, WriteFinal,
   InspectRaises, Inspect, WriteObservation, Leave, Resume, ResumeNothing, Verify, Fault, sink,
   disk

\* The idempotent sink holds at most one effect, after any number of deaths and resumes.
THEOREM BoundaryOneEffect == Spec => []IdempotentOneEffect
<1>1. Init => IdempotentOneEffect
  BY DEF Init, IdempotentOneEffect
<1>2. IInv /\ IdempotentOneEffect /\ [Next]_vars => IdempotentOneEffect'
  <2> SUFFICES ASSUME IInv, IdempotentOneEffect, [Next]_vars PROVE IdempotentOneEffect'
    OBVIOUS
  <2>1. mode' = mode
    BY ArgumentsKept DEF args
  <2>2. CASE Apply
    BY <2>2 DEF IInv, TypeOK, IdempotentOneEffect, Apply, ApplyEffect, args
  <2> QED
    BY <2>1, <2>2, EffectsSteps DEF IdempotentOneEffect
<1> QED
  BY <1>1, <1>2, SpecIInv, PTL DEF Spec

\* The workflow's phases, undisturbed, keep to what each scenario expects of them.
LEMMA NextKeepsWorkflowInv ==
  ASSUME IInv, WorkflowInv, Next
  PROVE  WorkflowInv'
<1> USE NullAssumption DEF Node, Within, Phase
<1> SUFFICES ASSUME operator = "workflow" PROVE WorkflowInv'
  BY ArgumentsKept DEF WorkflowInv, args
<1>0. UNCHANGED <<framework, scenario, mode, operator>> /\ ExpectedClass' = ExpectedClass
       /\ ExpectedAttempts' = ExpectedAttempts /\ ExpectedEffects' = ExpectedEffects
       /\ FirstEffects' = FirstEffects
  BY ArgumentsKept DEF args, ExpectedClass, ExpectedAttempts, ExpectedEffects, FirstEffects
<1>1. CASE Start
  BY <1>0, <1>1 DEF WorkflowInv, IInv, TypeOK, FirstRun, SinkIs, sink, disk,
     Follows, Start
<1>2. CASE RemoveFile
  BY <1>0, <1>2 DEF WorkflowInv, IInv, TypeOK, FirstRun, SinkIs, SecondRun, RemoveFile, sink
<1>3. CASE RemoveCheckpoint
  BY <1>0, <1>3 DEF WorkflowInv, IInv, TypeOK, FirstRun, SinkIs, SecondRun, RemoveCheckpoint, sink
<1>4. CASE Begin
  BY <1>0, <1>4 DEF WorkflowInv, IInv, TypeOK, FirstRun, SinkIs, SecondRun, sink, Begin
<1>5. CASE Prepare
  BY <1>0, <1>5 DEF WorkflowInv, IInv, TypeOK, FirstRun, SecondRun, SinkIs,
     sink, Return, Prepare
<1>6. CASE Effect
  BY <1>0, <1>6 DEF WorkflowInv, IInv, TypeOK, FirstRun, SecondRun, SinkIs, Effect
<1>7. CASE CrashOnce
  <2>1. Latest' = Latest
    BY <1>7 DEF CrashOnce, checkpoints, Latest
  <2> QED
    BY <1>0, <1>7, <2>1 DEF WorkflowInv, IInv, TypeOK, AtCheckpoint, FirstRun,
       AfterCrash, SinkIs, FirstEffects, args, sink, Exit, Ended, Crashes, AtBoundary,
       CrashOnce
<1>8. CASE Apply
  BY <1>0, <1>8 DEF WorkflowInv, IInv, TypeOK, FirstRun, SecondRun, SinkIs,
     FirstEffects, ExpectedAttempts, ExpectedEffects, Scenario, EffectMode, args,
     Crashes, AtBoundary, ApplyEffect, Apply
<1>9. CASE Applied
  BY <1>0, <1>9 DEF WorkflowInv, IInv, TypeOK, FirstRun, SecondRun, SinkIs,
     sink, Return, ReturnFrom, Applied
<1>10. CASE PostCheckpoint
  BY <1>0, <1>10 DEF WorkflowInv, IInv, TypeOK, BeforeBoundary, FirstRun, SecondRun,
     SinkIs, Scenario, sink, Crashes, AtBoundary, Return, ReturnFrom, PostCheckpoint
<1>11. CASE Finish
  BY <1>0, <1>11 DEF WorkflowInv, IInv, TypeOK, BeforeBoundary, SecondRun, SinkIs, sink, Finish
<1>12. CASE TruncateFinal
  BY <1>0, <1>12 DEF WorkflowInv, IInv, TypeOK, BeforeBoundary, SecondRun, SinkIs, sink,
      TruncateFinal
<1>13. CASE WriteFinal
  BY <1>0, <1>13 DEF WorkflowInv, IInv, TypeOK, SecondRun, SinkIs, Passes, Output,
     WritesFinal, args, sink, Exit, Ended, WriteFinal
<1>14. CASE InspectRaises
  BY <1>14 DEF WorkflowInv, AfterCrash, SinkIs, FirstEffects, Contradiction,
     CompletionRecorded, LangGraphRecorded, MafRecorded, Past, Follows, InspectRaises
<1>15. CASE Inspect
  <2>1. Latest' = Latest
    BY <1>15 DEF Inspect, checkpoints, Latest
  <2> QED
    BY <1>0, <1>15, <2>1 DEF WorkflowInv, AfterCrash, SinkIs, sink, Follows,
       Inspect
<1>16. CASE WriteObservation
  <2>1. Latest' = Latest
    BY <1>16 DEF WriteObservation, checkpoints, Latest
  <2>2. last = "start"
    BY <1>16 DEF WorkflowInv, IInv, TypeOK, SecondRun, WriteObservation
  <2>3. Classify = ExpectedClass
    BY <2>2 DEF WorkflowInv, IInv, TypeOK, AfterCrash, SinkIs, FirstEffects,
       ExpectedClass, CompletionRecorded, Classify, LangGraphRecorded, MafRecorded, Scenario, Past
  <2> QED
    BY <1>0, <1>16, <2>1, <2>2, <2>3 DEF WorkflowInv, AfterCrash, SinkIs, sink,
       WriteObservation
<1>17. CASE Leave
  <2>1. Latest' = Latest
    BY <1>17 DEF Leave, Close, Latest
  <2>2. CASE node = "observed"
    BY <1>0, <1>17, <2>1, <2>2 DEF WorkflowInv, IInv, TypeOK, FirstRun, SecondRun,
       AfterCrash, SinkIs, sink, Exit, Ended, Leave
  <2>3. CASE node = "output" /\ ~WritesFinal
    BY <1>0, <1>17, <2>1, <2>3 DEF WorkflowInv, IInv, TypeOK, AtCheckpoint,
       BeforeBoundary, SecondRun, SinkIs, Passes, Output, WritesFinal, Framework, args,
       sink, Exit, Ended, Leave
  <2> QED
    BY <1>17, <2>2, <2>3 DEF Leave
<1>18. CASE Resume
  BY <1>0, <1>18 DEF WorkflowInv, SecondRun, AfterCrash, SinkIs, FirstEffects,
     ExpectedAttempts, ExpectedEffects, Scenario, IInv, TypeOK, args, sink, disk, Follows,
     Resume
<1>19. CASE ResumeNothing
  BY <1>19 DEF WorkflowInv, AfterCrash, Follows, ResumeNothing
<1>20. CASE Verify
  BY <1>0, <1>20 DEF WorkflowInv, IInv, TypeOK, Verdict, Follows,
     Ended, Verify
<1>21. CASE Fault
  BY <1>21 DEF Fault
<1> QED
  BY <1>1, <1>2, <1>3, <1>4, <1>5, <1>6, <1>7, <1>8, <1>9, <1>10, <1>11, <1>12, <1>13, <1>14,
     <1>15, <1>16, <1>17, <1>18, <1>19, <1>20, <1>21 DEF Next, Run, RunPhase

\* The safety half of WorkflowPasses: for either framework, every boundary and either
\* sink, the repository's workflow classifies the crash as the scenario expects, and
\* its verify never fails.
WorkflowAsExpected ==
  operator = "workflow" => verdict # "fail" /\ (last = "inspect" => observation = ExpectedClass)

\* The repository's workflow is never surprised: inspect finds the class its scenario
\* expects and verify does not fail, in either framework and with either sink.
THEOREM BoundaryWorkflow == Spec => []WorkflowAsExpected
<1>1. Init => WorkflowInv
  <2> SUFFICES ASSUME Init PROVE WorkflowInv
    OBVIOUS
  <2>1. Null \notin Phase \cup Verdict \cup {"observed"}
    BY NullAssumption DEF Within
  <2>2. FirstRun
    BY NullAssumption DEF Init, FirstRun, SinkIs, Within, Node
  <2> QED
    BY <2>1, <2>2 DEF Init, WorkflowInv, Phase, Verdict
<1>2. IInv /\ WorkflowInv /\ [Next]_vars => WorkflowInv'
  <2>1. CASE UNCHANGED vars
    BY <2>1 DEF vars, args, disk, sink, checkpoints, WorkflowInv, FirstRun, SecondRun, AfterCrash,
       SinkIs, FirstEffects, ExpectedAttempts, ExpectedEffects, ExpectedClass, Passes, Output,
       Latest
  <2> QED
    BY <2>1, NextKeepsWorkflowInv
<1>3. WorkflowInv => WorkflowAsExpected
  BY DEF WorkflowInv, WorkflowAsExpected
<1> QED
  BY <1>1, <1>2, <1>3, SpecIInv, PTL DEF Spec
=============================================================================
