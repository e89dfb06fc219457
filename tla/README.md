# Formal models of ai-systems-engineering

TLA+ models of the mechanisms this repository demonstrates (M1 to M7) and of
its two framework characterizations, checked with TLC on small instances, and
TLAPS proofs for every value of the constants. Paths below are relative to the
repository root; `experiments/x.py` stands for `src/ai_systems/experiments/x.py`.

- [1. The system](#1-the-system)
- [2. The modules](#2-the-modules)
- [3. The runs](#3-the-runs)
- [4. Findings](#4-findings)
- [5. The proofs](#5-the-proofs)
- [6. Not modelled](#6-not-modelled)
- [7. Plan](#7-plan)

To check: `tlc -config <cfg> <module>` for each run of PROJECT.json; `tlapm` for the
proofs, on EvidenceOracleProofs, CrashBoundaryProofs, IdempotentSinkProofs,
ProvenanceProofs, PromotionProofs, DurableDispatchProofs, DispatchOverSinkProofs and
OrchestrationProofs.

## 1. The system

The repository is a set of independent experiments behind a small registry and
command line. What is state, and can go wrong in more than one step, is this:

| Component | State it keeps | Operations | What makes it correct | What is hard |
|---|---|---|---|---|
| Evidence contract, M1 (`evidence_contracts.py`) | an immutable catalog | build, validate | what is accepted was supplied under the declared provenance; the reason for a rejection does not depend on order | two loops in one order; duplicates |
| Evaluation oracle, M2 (`evaluation_oracle_integrity.py`) | none | evaluate_claim_support | a claim that passes is supported in full by accepted fragments | trusts M1's output |
| Failure classification, M3 (`failure_semantics.py`), and its characterization runners (`experiments/failure-semantics/characterization/`) | an effect sink, framework checkpoints, a crash marker, the observation | start, inspect, resume, verify, each a process | the class recorded at the crash says what a resume will do; the idempotent sink keeps one effect | deaths between effect and checkpoint, in the reset, again in the resume |
| Idempotent sink, M4 (`ambiguous_completion.py`) | tables `effects` and `idempotency_records` | apply, expire | one effect per id and retention window; answers are true | concurrent callers, lost answers, expiry under a call |
| Operation provenance, M5 (`operation_provenance.py`) | table `provenance_events` | append, read, validate_history | exactly the complete histories are accepted | prefixes after a death, contending recorders, overlapping attempts |
| Promotion store, M6 (`concurrent_promotion.py`) | the `authority` row | open, snapshot, promote and three controls | a fenced promotion applies to the version it observed | stale snapshots, ABA, lock, death while opening |
| Competition, M6 (`_compete`) | two threads and a barrier | | one of two stale decisions wins with the fence, both without | a thread that raises, a broken barrier |
| Durable dispatch, M7 (`durable_dispatch.py`) | `authority`, `outbox`; the sink's tables | open, commit_with_outbox, the dual write, dispatch_one, acknowledge | a committed intent is discoverable until acknowledged and takes effect once | two databases, overlapping relays, deaths between effect and acknowledgement, ids that others use at the sink |
| Orchestration runners (`experiments/orchestration-runtime-characterization/`) | checkpoints, `pause.json`, `final.json`, the side-effect journal | start, resume-intent, resume-promotion, verify | one trace, each execution once, a human at each gate | deaths between any two of those files, and inside one that was truncated and not yet written |
| Registry, command line | a constant table | list, explain, run | | |

They interact by calls: M7's relays call M4's `apply` with the dispatch id as
operation id; M5's events carry M4's fingerprint of the operation and M3's
completion classes (the histories themselves are written out in the code, no sink is
called); the characterization runners classify with M3; M2 takes evidence that
passed M1. Everything durable is one SQLite file per store, or the files of a
framework. Within one process the code is sequential but for the two threads of
`_compete`; concurrency comes from several processes, or threads with their own
connections, on one file.

The hazards of the code, each at its line, are in PROJECT.json ("hazards"),
with the properties that would catch them going wrong.

## 2. The modules

    Selections <-- EvidenceOracle <-- EvidenceOracleProofs         M1, M2
    CrashBoundary <-- CrashBoundaryProofs                          M3 and its runners
    EffectBoundary <-- IdempotentSink <-- IdempotentSinkProofs     M4
    Selections <-- ProvenanceHistory <-- ProvenanceJournal         M5
    ProvenanceJournal <-- ProvenanceRecorders <-- ProvenanceProofs
    PromotionRegister <-- PromotionStore <-- Competition <-- PromotionProofs   M6, _compete
    DispatchContract, EffectBoundary <-- DurableDispatch <-- DurableDispatchProofs   M7
    DurableDispatch, IdempotentSink <-- DispatchOverSink           M7 over M4
    DispatchOverSink, DurableDispatchProofs <-- DispatchOverSinkProofs
    Orchestration <-- OrchestrationProofs                          the gated flow

An arrow points from the module that uses the other, by EXTENDS or INSTANCE.
EffectBoundary, PromotionRegister and DispatchContract are abstract
specifications: what a component promises. IdempotentSink, PromotionStore and
DurableDispatch are shown to implement them, DispatchOverSink to implement
DurableDispatch, and Competition to use the store as the register.

**Selections** says what `tuple(x for x in s if ...)` and `ORDER BY sequence` return:
the entries picked, each at its rank among the numbers of those that are. M2's verdict,
the sequences of M5's audit view and its `read` are all collected like that.
A definition by rank, unlike one that walks down the sequence, can be proved about
for sequences of any length.

**SQLite.** One granularity is used throughout. `BEGIN IMMEDIATE` takes the
write lock or waits; a busy connection raises after its timeout. The statements
of a transaction are separate steps on the writer's private copy; COMMIT
publishes it in one step. The context manager commits on return and rolls back
on an exception. A single auto-committed statement is one step that needs the
lock to be free. Readers see committed state. A process that dies in a
transaction is rolled back; one that dies after COMMIT has taken effect and
nobody is told.

**EvidenceOracle.** A catalog is built from fragments (refused with a duplicate
identifier), then selections are validated and claims evaluated, again and
again. `validate` looks every identifier up before it compares any provenance;
a mutant with one loop shows why that order matters. The evidence of a claim is
annotated by identifier, so one fragment listed twice has one annotation. The
weak controls `identifiers_exist` and `relationship_only_accepts` are there to
say by how much they are weaker.

**IdempotentSink** (`apply`, `expire`). A call is Submit, BeginImmediate or
BusyTimeout, SelectRecord, then InsertEffect, InsertRecord, Commit, or the
replay, or RaiseConflict; FailInTransaction and CrashOutside end it anywhere.
`pc` of a caller names the point in `apply`, `tx` is what its open transaction
sees, `answer` what it was told. The history variable `window` counts how often
the record of an id has expired: "while the record is retained" of the M4
guarantee is "in one window".

**PromotionStore**. Opening is two steps (the table, then the INSERT OR IGNORE
of the row), because the process may die in between. Each promotion is Call
(with `_validate_promotion`, or RejectCall), BeginImmediate, UpdateAndRead,
Commit, Return; `naive_promote` and `advance_for_characterization` are
WriteUnconditionally and, through another connection, ReadBack. `Fail` is a call that
raises at any statement: what it had not committed is rolled back, but an unconditional
call whose `snapshot()` raises has been committed, and its caller is told of an error
(`lost`). `log` is a history of the accepted changes. **Competition** runs `_compete`
over it: each thread observes, waits at the barrier (which breaks on a timeout, or when
the other thread raised before it), and promotes. `caller` is `_compete` itself: `result()`
gives what the thread returned, raises what it raised, or times out after 10 seconds while
the thread is still at work (`leaving`), and then the executor waits for both threads
before the exception goes on (`raised`).

**DurableDispatch**. Opening the store is two commits, table `authority` and then
its row with table `outbox`, by whichever process comes first; the next one goes
on from what a dead one left. Producers commit with the outbox (UPDATE, then INSERT and
COMMIT, or the rollback on a duplicate id) or by the dual write, which may die
between its halves. A relay reads the record, applies the effect at the sink,
acknowledges, and may die in between, with all it knew. The sink is one step per call, an `Admit`
of EffectBoundary or none: this is what IdempotentSink implements. When the
sink may expire a record is the constant `Retention`; the id and content pairs that
other users submit to the sink are `Foreign`, and `OwnIds` the ids nobody else uses.

**DispatchOverSink**. The same store and relays, with the sink's call replaced by
the statements of IdempotentSink, each relay a caller with its own connection:
there are two write locks now, a relay may wait for one, time out at it or die with
it while others hold the other, and it may die after the sink's COMMIT and
before it is told. `OperationOf` is the `LogicalOperation` the relay builds of the
record. The refinement mapping `RelayView` moves the one step of DurableDispatch's
call to that COMMIT.

**ProvenanceHistory** holds `validate_history` as the first of its checks that
fails, in the code's order: HeadFault, LoopFault, TailFault. Checks that can fail
together are IF ... ELSE IF chains: the guards of a TLA+ CASE would overlap, and which
of them it takes is then not determined. **ProvenanceJournal**
is the table under an open environment: any event may be appended at any free
or taken sequence; the environment is chosen at the start: careless callers leave
fields out, mix identities and come out of order, careful ones do not and so can
be followed further. **ProvenanceRecorders** runs the recording loops as processes
that contend for one journal, die, and start again from their first event.

**CrashBoundary** and **Orchestration** model every phase as a process over
what is on disk; `framework` selects the runner and `operator` who runs the
phases: the workflow, each once and undisturbed; somebody who runs a phase again
when it died ("retrying"); or anybody in any order. The frameworks are external:
a checkpoint after each node (superstep), resume from the last one. Where the
code does not settle what a framework does, the model leaves it open: maf may
or may not persist its input checkpoint; LangGraph may or may not keep an answer
for a gate that has not asked (`Unasked`).

In CrashBoundary the checkpoints are a set of files, `saved`, each named by the node
it goes on with; `Latest` is the one a resume takes. `reset_case` removes what there is one
by one, in any order, as `rmtree` may, and may die in between: with the newest of maf's
files gone an older one is the latest. LangGraph's are in one database, but what a process
that died had not moved out of the -wal file is only there; `synced` is what the database
has without it. The attempt of the effect node and the crash it meets are two steps, as
`record_attempt` and `crash_once` are; so are truncating and writing observation.json and
final.json (`torn`).

What a start that died in its reset leaves is not one case any more, and the code does
find states in it that it could not have made: an observation `completion-recorded` beside an older
checkpoint, from which `resume` replays the effect; maf's output beside a new sink with an
attempt and no effect; LangGraph without any database beside the sink of the case, which
`inspect` takes for recorded. RecordedMeansNoReplay and the first part of NothingLost
therefore speak of files that are `Intact`: no start is in its reset, or has died there since one
got through it. Nothing else is excepted, not even the other deaths. The workflow runs into
none of this, since its start finds a fresh directory. `died` is the history variable
that says where processes died.

LangGraph's output is in its last checkpoint, while maf's `resume` writes it to final.json
after the run: a process that dies in between leaves a finished graph whose output no later
resume can produce, since maf then has nothing to run and `resume` raises
(`ResumeNothing`). When phases are run in another order than the workflow's, LangGraph's
completion, which is inferred from "effect is not among the next nodes", also
holds with no checkpoint at all: `classify_completion` then raises if the
effect is absent (`InspectRaises`).

In Orchestration `write_text` of pause.json and final.json is two steps: the file is
truncated (`Torn`), then written. maf's next phase raises on a torn or missing
file, LangGraph's without a checkpoint (`ResumeRaises`), as `verify` does without its journal or its final state
(`VerifyRaises`). A `resume-intent` that died there has destroyed the very
file it goes on from: no retry can get past it, while a `start` or a
`resume-promotion` that dies while writing can be run again. maf's runner removes its old
checkpoints file by file; here that is one step, because no later phase takes the latest
of them: it reads the one that pause.json names, which is there or not.

## 3. The runs

| Run | Question | Bounds |
|---|---|---|
| `evidence_oracle` | is what M1 and M2 accept grounded in what was supplied, and are rejections stable? | 3 identifiers, 2 provenances, 2 requirements, sequences up to 2: every pair of entries in every order, unknown and duplicate ones included |
| `idempotent_sink` | do effects, records and answers agree, is the sink the effect boundary, is the lock released? | 2 callers, 2 ids, 2 contents, 1 expiry per id; no symmetry (liveness) |
| `promotion_store` | does the fence hold among all four kinds of call, timeouts, reopening and deaths, and is each call one atomic decision? | 2 actors, 2 accepted changes: observe, change by another, change back, then the stale call; any of them may raise, also after its change |
| `competition` | who wins `_compete`, what does the loser learn of the winner, what is in force when it raises, and does it end? | its two threads and their caller, with and without the fence |
| `dispatch_safety` | is no intent lost unaccounted, and what survives if the sink expires at any time and others use the ids? | 2 producers, 2 relays, 2 ids, 2 contents, of which others submit one under either id, 2 requirements by either way of writing, 1 expiry per id, 1 relay death |
| `sink_dispatch` | with records retained until retries end, do relays that race statement by statement at the real sink behave as those of DurableDispatch, and does every committed intent take effect once and get acknowledged? | 1 producer, 2 relays, 2 ids, one of them shared with others under one of the 2 contents, 1 expiry per id, 1 failed or dead sink call |
| `provenance_journal` | does acceptance equal the contract, are prefixes incomplete, does the audit account for every attempt? | careless callers: 2 operations, 2 intents, 2 attempts, 5 events, a hole up to sequence 2; careful callers: 2 attempts that may overlap, a recovery, 7 events |
| `provenance_recorders` | can histories mix, can a partial one be audited? | 3 recorders, two deaths each |
| `provenance_registration` | violated: see findings | 7 events (3 suffice) |
| `crash_boundary` | does the repository's workflow pass in all 12 cases; what survives any order of phases and further deaths? | both frameworks, 3 boundaries, 2 sinks; 2 deaths besides the injected one, 3 resumes |
| `orchestration` | what survives any order of phases, and where does a flow end whose phases are retried when they died? | 3 deaths, 7 phases: a full flow and three retries; files torn by a death |
| `orchestration_gates` | violated: see findings | 1 death, 5 phases |

The bounds are the least at which the cases of the table's middle column occur
together; each property has a mutant, a plausible bug in the code it is about,
that TLC refutes under the same bounds, so none holds for want of behaviours.
Interchangeable actors are declared symmetric in safety runs only.

**Deadlock** is checked except where the system stops: when both competitors
are done, when the journal admits no event that could still be accepted
(the environment stops there), when a bounded number of phases has been run.

**What the runs show beyond "it holds".** With `Retention =
"until_acknowledged"` the property OneEffectPerDispatch is violated: a relay
that read the pending record, and is overtaken by another that applies and
acknowledges, applies again once the sink has expired the record. M7's at-most-once
therefore needs M4's records until nobody can retry, not until the
acknowledgement, and the runs assume that ("until_retries_end");
`dispatch_safety` makes no such assumption and shows what is left without it:
no intent is lost, and an acknowledged row still names a true effect of its own
content, also when others have used the id: a relay whose content they contradict
gets the sink's conflict for ever and its intent stays pending, which is why the
contract is stated for `OwnIds`. In `promotion_store`,
AnswersMatchHistory says of a fenced answer that its row is that of its own transaction, and of
`naive_promote`, which reads the row back later, only that it is of its own generation
or of a later one: it may be another actor's. In `competition` a raised `promote` has changed
nothing, while of a raised `naive_promote` that cannot be said; CompetitionOutcome
says so of every way in which `_compete` may end. In `crash_boundary`, dropping `Intact` from
RecordedMeansNoReplay or NothingLost lets TLC find the remains of a reset described in
section 2.

**Fairness.** Each liveness run assumes only that running code goes on:
weak fairness of the steps inside a call (IdempotentSink), of the two threads and their caller (Competition), of a live recorder (ProvenanceRecorders), of the
process that runs and of the operator who runs the next phase (CrashBoundary,
Orchestration). Nobody is obliged to call, retry, crash or expire. The
exception is the dispatch (DurableDispatch, DispatchOverSink), where the M7 README assumes "eventual dispatcher
rescanning": the scan is strongly fair, because it is disabled while a relay is
busy, and so is acknowledging, because a relay that dies again and again is
bounded only in the model (MaxCrashes); a relay that always dies before its
acknowledgement would never finish, in the code as in the model. SQLite gives
no fairness between waiting writers, and none is assumed: what ends a waiting
call is the busy timeout.

## 4. Findings

- **A second registration is accepted** (`provenance_registration`).
  `validate_history` checks that the first event is the registration; its loop
  over the rest has no branch for `OPERATION_REGISTERED` (`operation_provenance.py:258`),
  so a further one is skipped. The experiment's README (line 44) speaks of "one
  operation registration". ProvenanceJournal's `Contract` follows the code here;
  `OneRegistration` states the document.
- **A retried `resume-intent` answers the promotion gate**
  (`orchestration_gates`). `resume-intent` and `resume-promotion` make the same
  call, so a `resume-intent` that dies once the flow is paused on promotion, and is
  run again, approves the promotion and packages; only its assertion
  (`langgraph_runner.py:177`) fails, afterwards. The safe statement that does
  hold is HumanAtEveryGate: each gate consumes an answer of its own, just
  not the one meant for it.

## 5. The proofs

Every invariant and action property of the runs is proved for every value of the
constants, and each refinement, except for what it promises will happen: liveness is listed
at the end of this section. What is assumed of the constants is named with each module; the bounds of the runs (how many deaths,
expirations, phases, events or accepted changes) stay constants, any natural numbers.

| Module | What it is about |
|---|---|
| [EvidenceOracleProofs](#evidence-and-its-evaluation-m1-and-m2) | M1 and M2 |
| [CrashBoundaryProofs](#the-crash-boundary-runners-m3) | M3 and its runners |
| [IdempotentSinkProofs](#the-idempotent-sink-m4) | M4 |
| [ProvenanceProofs](#operation-provenance-m5) | M5 |
| [PromotionProofs](#the-promotion-store-and-the-competition-m6) | M6, the store and the competition |
| [DurableDispatchProofs, DispatchOverSinkProofs](#durable-dispatch-m7) | M7, alone and over M4 |
| [OrchestrationProofs](#the-orchestration-runners) | the gated flow |

### Evidence and its evaluation (M1 and M2)

`EvidenceOracleProofs`, for any identifiers, provenances and requirements and
sequences of any length:

| Theorem | Statement |
|---|---|
| EvidenceGrounded | Spec => []PassedIsGrounded |
| EvidenceOrder | Spec => []OrderOnlyMovesTheBlame |
| RejectionComplete | Spec => []RejectionTellsTheGap |

The argument. PassedIsGrounded speaks of the fragments as they were supplied, the
code of an index built from them: *Indexed* says that a catalog built without a
duplicate holds each fragment's provenance under its identifier and nothing else
(IndexOfFragments). *Validated* and *Evaluated* tie a result to the selection it is of
and a verdict to a result that was accepted. ContractReason states what `validate`
decides by the set of the identifiers alone, its two loops one after the other, so
that a reordering can only change which identifier is blamed. RejectionTellsTheGap
evaluates the claim again, without the requirements that the verdict reports. That these are all
that are missing, and that what remains is all the rest, is a fact about Selections:
the rank of a number in a finite set of n numbers is an injection into 1..n, because of
two numbers the greater has more at or below it, hence onto 1..n, because the two sets
have one size (Ranks). So every entry picked is at exactly one place of the
result (Ordered), and the result has the entries that pass the test and no others
(WithoutMeans). No induction over the sequence is needed.

### The crash-boundary runners (M3)

`CrashBoundaryProofs`, for both frameworks, every scenario and sink, phases in any
order, and any number of resumes and deaths (NullAssumption: Null is none of the
values it stands for the absence of):

| Theorem | Statement |
|---|---|
| BoundaryNothingLost | Spec => []NothingLost |
| BoundaryNoReplay | Spec => []RecordedMeansNoReplay |
| BoundaryNotRepeated | Spec => CheckpointedNotRepeated |
| BoundaryOneEffect | Spec => []IdempotentOneEffect |
| BoundaryWorkflow | Spec => []WorkflowAsExpected, the safety half of WorkflowPasses |

The argument. What survives a death is what is on disk, so each part of `IInv` relates
two of the places the state is in: *AtCheckpoint* a process to the latest checkpoint, from
which it came; *BeforeBoundary* the first run to the boundary at which the injected crash stops
it; *SinkInv* the sink's two counts to each other and to the node, in particular that attempts beside a
checkpoint past the effect have their effect, which holds among the remains of a reset too, because removing
a checkpoint only ever makes the latest an earlier one; *RecordedInv* the observation to the
checkpoint, as long as the files are of one case; *OutputOfFinished* and *FinishedInv* follow
final.json, which maf writes after its last checkpoint. The files become of one case
again when a start gets through its reset: there is nothing left then that they could
contradict. A node adds the checkpoint it leads to and takes none back
(CheckpointsAdded), so that outside of a reset the latest one only moves on
(BoundaryNotRepeated). For the workflow *WorkflowInv* adds what the
sink holds at each of its phases: the expected attempts and effects of the
scenario, before the crash, at the crash, and in the second run.

### The idempotent sink (M4)

`IdempotentSinkProofs` proves, for any callers, ids, contents and any bound on
expirations, from `IdempotentSink`'s assumptions (NoCaller is not a caller; the
sets are not empty; the bound is a natural number):

| Theorem | Statement |
|---|---|
| SinkTypeOK | Spec => []TypeOK |
| SinkRecordsMatchEffects | Spec => []RecordsMatchEffects |
| SinkAtMostOneEffect | Spec => []AtMostOneEffectPerWindow |
| SinkAnswers | Spec => []AnswersAreTrue, by an invariant of its own |
| SinkImplementsBoundary | Spec => Boundary!Spec |

The argument. RecordsMatchEffects is not inductive: nothing in it says that a
record is still absent when the effect is inserted. The inductive invariant
`IInv` adds *LockInv*, that exactly the holder of the write lock is inside a
transaction, so nobody else can change the tables between its SELECT and its
COMMIT; *TxInv*, what the writer's copy holds at each statement, in particular
that the id's record is absent from the committed table all along; and
*WindowsBegun*, that no effect belongs to a window that has not begun, so that
expiry separates old effects from new ones. Each action has a lemma "...KeepsIInv";
the interesting ones are CommitKeepsIInv, where the copy becomes the tables, and
ExpireKeepsIInv. Two effects of one id in one window would need two records of
one id in the current window, or a window already past; this is
SinkAtMostOneEffect. The refinement follows from the same invariant: Commit is
`Admit`, Expire is `Forget`, every other step leaves the committed tables alone.

### Operation provenance (M5)

`ProvenanceProofs`, for histories of any length and any values (NullAssumption as
above; HistoriesAssumption: each recorder records one of the experiment's two
histories, all of them for one operation, intent and effect):

| Theorem | Statement |
|---|---|
| AcceptedContract | Accepted(h) <=> Contract(h), for every sequence h |
| JournalAcceptance | Spec => []AcceptanceMeetsContract |
| JournalPrefixes | Spec => []PrefixesIncomplete |
| JournalAudit | Spec => []AuditTellsRecovery |
| RecordersOneRun | RSpec => []OneRunOnly |
| RecordersAuditedWhole | RSpec => []AuditedWholeHistory |
| RecordersAudited | RSpec => []AuditedWasRecorded |

The argument. `validate_history` raises at the first fault, the contract speaks of all
events of each attempt. *HeadFine*, *Fine* and *TailFine* say what the three parts of
the function ask; that the loop raises nowhere exactly if every event is fine needs the
least number of a set (LeastNumber, from the well-foundedness of <). From there
AcceptedContract is two implications: a fine event is told in its place
(FineContract), and what an attempt tells is fine at each of its events
(ContractFine). A proper prefix has the same fine events and lacks the one
finalization, which an accepted history has at its end (PrefixRejected); so only its
tail can be at fault. The journal adds that `read` returns a sequence whatever
was appended in whatever order (ReadIsHistory).

For the recorders *Owned* says what one run of one recorder has appended: the first
events of its history, at the sequences from 1 on, with the recorder at the position after the
last if it is still that run, and every other live recorder or run at its first event.
*OwnerInv* is that the journal is empty or owned: whoever else appends is refused at
sequence 1. *AuditInv* is that an audited journal is owned in full.

The audit view is made of sequences collected from the history each on its own; that
they belong together follows from the contract. Every attempt that was started has one completion
and every ambiguous one a decision (Stories), so the events of those kinds are one for one
(OneForOne, Counts) and the sequences are as long as one another. In a history
whose attempts do not overlap the k-th start and the k-th completion are of one attempt:
as many were started up to that start as completed up to its completion (InTurn), and the rank is the
place in the sequence (CollectedInOrder). When attempts do overlap that is false, as
it is in the code, and the property does not claim it. The audit tells the two
histories of the experiment apart (AuditTellsHistory): only one has a
decision in it.

### The promotion store and the competition (M6)

`PromotionProofs` proves in its first part, of the store alone, for any actors, transition ids and kinds of call,
and any bound on accepted changes, from `PromotionStore`'s assumptions (NoActor
is not an actor, NoSnapshot is not a row, the kinds are those of the code):

| Theorem | Statement |
|---|---|
| StoreTypeOK | Spec => []TypeOK |
| StoreFence | Spec => []FencedAppliesToObservedVersion |
| StoreHasRow | Spec => []OpenedStoreHasRow |
| StoreAnswers | Spec => []AnswersMatchHistory |
| StoreImplementsRegister | Spec => Register!Spec |

The argument. The fence compares the generation only, FencedAppliesToObservedVersion
speaks of the whole row. The link is *Known*: a row that has been the committed
one is, for ever, the row of its generation (LogInv, SeenInv), so equal
generations mean equal rows whatever unfenced writers and ABA cycles did. TypeOK
holds the lock invariant; *LocalInv* uses it: what the writer compared and
changed is still committed when it commits. *ToldInv* follows an answer from the
moment it is decided to the moment it is returned, and past it, since a
true answer stays true when the log grows; *NaiveInv* does so for `naive_promote`, whose
change is in the log by the time the row is read back (NaiveStays). AcceptedKeepsIInv is the heart of it: the
commit of a fenced call and the single UPDATE of an unfenced one append the entry
of the next generation. In the refinement COMMIT is the moment of decision
(CommitDecides): with rowcount 1 it is `Accept`, with 0 `Refuse`; every other step
begins a call, ends one or stutters.

and in its second, for any two actors with terminal targets
(CompetitorsAssumption, which is how `_compete` calls them), with the fence and without:

| Theorem | Statement |
|---|---|
| CompetitionObservations | CSpec => []ObservationsAgree |
| CompetitionHasOutcome | CSpec => []CompetitionOutcome |
| CompetitionKeepsStore | CSpec => [](FencedAppliesToObservedVersion /\ OpenedStoreHasRow /\ AnswersMatchHistory) |
| CompetitionImplementsRegister | CSpec => ImplementsRegister |

The argument. The invariant is that of the store with more parts. *ThreadInv*: a
thread is in the store only while it calls, once, from the first row. *BarrierInv*:
nobody is before the barrier once somebody has passed it, and nothing is written while
somebody is before it, which is what ObservationsAgree needs. *AnswerInv* follows a call from
what it found to what it answers. *WriterInv* counts: there are as many threads with an
accepted change as generations, one at most with the fence, since the second UPDATE finds
another generation; and the row names the last of them. *WroteInv* says which threads those are:
the ones that know, or are about to be told, that their change was accepted, and without the
fence perhaps one that raised. *CallerInv*: `_compete` does not end before both threads have. So if both
are done, one was told "applied" and the other, not being a writer, "stale-generation", or
without the fence both are writers; the row a loser is told of is the winner's; and whatever raised,
the accepted changes are those that were told, or also an unfenced one that was not. The competition starts
from an opened store, which is not an initial state of the store's specification, but
`IInv` holds there, and each step of a thread is one of the store's or none; so what
the store keeps is kept, and the register is implemented by the same mapping: a call
is `Invoke`, the wait at the barrier a stutter.

### Durable dispatch (M7)

`DurableDispatchProofs` proves, for any producers, relays, ids, contents, foreign
submissions, ways of writing and bounds, from `DurableDispatch`'s assumptions (ids
and producers finite, there is an id and a content, NoProducer is not a producer):

| Theorem | Statement |
|---|---|
| DispatchTypeOK | Spec => []TypeOK |
| DispatchDiscoverable | Spec => DiscoverableUntilAcknowledged |
| DispatchRequirementsAccounted | Spec => []RequirementsAccounted |
| DispatchAcknowledgedNamesEffect | Spec => []AcknowledgedNamesEffect |
| DispatchAcknowledgedOnce | Spec => []AcknowledgedOnce |
| DispatchOneEffect | with Retention = "until_retries_end": Spec => []OneEffectPerDispatch |
| DispatchImplementsContract | with the same: Spec => Contract!Init and every step is one of the contract or a stutter |

and `DispatchOverSinkProofs`, from `DispatchOverSink`'s assumptions besides (NoRelay is not a
relay; a content is an effect name with a payload, as a fingerprint is of both):

| Theorem | Statement |
|---|---|
| OverSinkImplementsDispatch | CSpec => ImplementsDispatch |
| OverSinkOneEffect | with Retention = "until_retries_end": CSpec => []OneEffectPerDispatch |
| OverSinkAcknowledged | CSpec => [](AcknowledgedNamesEffect /\ AcknowledgedOnce) |
| OverSinkRequirementsAccounted | CSpec => []RequirementsAccounted |
| OverSinkDiscoverable | CSpec => DiscoverableUntilAcknowledged |
| OverSinkKeepsContract | with Retention = "until_retries_end": CSpec => Contract!Init and every step is one of the contract or a stutter |

The argument. TypeOK holds the producers' lock invariant. RequirementsAccounted
counts rows, half-done dual writes and losses; each step moves one from one set to
another, which needs the cardinalities of finite sets and nothing else. An
acknowledged row names an effect because the relay that acknowledged it held one:
*RelayInv* follows a relay from the row it read, whose content cannot change, to
the effect the sink told it of, and *RecordsNameEffects* says that what the sink
replays is such an effect. The first five theorems hold whenever the sink expires
its records and whoever else uses it. The last two need *RetryInv*: while a
dispatch whose effect is visible may still be submitted, its record is there to
replay; so no relay applies it a second time, and once retries have ended they
do not begin again (RetriesStayEnded). This is the one place where the retention
is used, and TLC refutes OneEffectPerDispatch under the weaker "until_acknowledged".

OverSinkImplementsDispatch removes the assumption that the sink answers in one step. Its
invariant *CInv* says of each relay inside `apply`: it submitted the content it
read (*Submitted*), and what its transaction found is still so, because it holds the sink's
lock (*Transacting*): no record of the id, or the record it replays, or one that
conflicts. So the sink's COMMIT is ApplyEffect of DurableDispatch, and so is its conflict;
a timeout, failure or death in the sink is CrashRelay, a call is ReadRecord, and every
other statement is a stutter.

The five theorems after it carry over what DurableDispatchProofs proves. They take that
module as an instance in which `relay` is RelayView (*Relayed*): its theorems then speak of the
relays as DurableDispatch sees them, and OverSinkImplementsDispatch says that they behave as its
specification allows. What is left is that the properties say the same of the relays
themselves. RelayView differs from a relay only between the sink's COMMIT and its
answer, when the view already has an effect and the relay none yet; so the
id, the outcome and any effect that a relay holds are those seen (SeenRelay), and the outbox and
the effects are no part of the view (SeenStore).

### The orchestration runners

`OrchestrationProofs`, for both frameworks, any operators, any number of deaths and
phases, and whatever a framework does with an answer nobody asked for (NullAssumption:
Null and Torn are no states and no values):

| Theorem | Statement |
|---|---|
| OrchestrationTraces | Spec => []TracesAgree |
| OrchestrationJournal | Spec => []JournalOnce |
| OrchestrationHuman | Spec => []HumanAtEveryGate |
| OrchestrationRetry | Spec => []RetryStops, the safety half of RetriedFlowEnds |

The argument. There is one way through the flow, and `StateAt(k)` is the state at its
k-th position: trace, attempt, approvals, artifact and output. *OnTheWay* says that
whatever is in memory, in a checkpoint, in pause.json or in final.json is at one of
the positions; each node leads from one to the next (WayStep). *Logged* is that
from the first execution to the promotion gate the journal has that execution, in memory and
for LangGraph in every checkpoint, so that the one run after the repair adds its own
behind it and nothing twice, however often a death makes a process execute again. *Answered* counts approvals against answers in every state that may be gone on
from, with one to spare for the answer a process holds. For the operator who runs a
phase again when it died, *RetryInv* says how far the flow can be in each phase
(*Starting*, *Intending*, *Promoting*, *Finished*, *Verified*) and what the torn or
stale files of the dead ones may hold; with *LangGraphInv*, that LangGraph's checkpoint is
as far as its process.

### Only model-checked

- Liveness under fairness: LockReleased, CompetitionEnds, ImplementsContract (whose
  steps are DispatchImplementsContract and OverSinkKeepsContract), AuditedUnlessCrashed, WorkflowPasses and
  RetriedFlowEnds (whose safety halves are WorkflowAsExpected and RetryStops).

Nothing but liveness is left to TLC alone.
No module uses a RECURSIVE operator.

## 6. Not modelled

- Registry and command line: a constant table, argument parsing and printing.
- The weak controls `raw_failure_code`, a constant, and `NaiveEffectSink`, a single
  unconditional INSERT: nothing but the number of calls decides what they leave.
  The naive mode of the characterization sink, the same statement, is in CrashBoundary.
- Opening the M4 sink: its two tables are created one after the other if they do
  not exist, hold no row at first, and every caller does so before its first call.
- Within one removal of the runners: a sink's file and SQLite's journal beside it go in one step,
  and in Orchestration all of maf's checkpoints do (section 2).
- `run_experiment` of each module: one fixed sequence of calls, a behaviour of the
  models.
- The content of SHA-256 fingerprints (equal exactly for equal content), JSON
  encoding of events (a round trip for the values the types admit) and all
  printed text.
- Two processes running phases on one root at the same time, in the
  characterizations: no entry point does so, and `_record_once` and `apply_effect`
  of `common.py`, which read and then write, would not survive it.
- Crashes of the operating system that lose what SQLite had committed.

## 7. Plan

Done, in this order: M4 and M6 with their proofs, M7, M5, M3 with its runners, the
orchestration runners, M1 with M2; then the opening of the dispatch store, the ids
that others use, the relays over the real sink, torn files and raising phases of
the runners, the controls of M1 and M2, and the proofs about M7; then the proofs about
M1 to M3, M5, the competition, the relays over the real sink and the orchestration
runners; then the sequences that M2 and M5 collect, with the three properties about them,
the competition as a user of the register, and the theorems of durable dispatch for the
relays over the real sink.

Left: liveness, which needs ENABLED and stays with TLC.
