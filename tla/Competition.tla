---------------------------- MODULE Competition -----------------------------
(***************************************************************************)
(* M6: _compete of concurrent_promotion.py.  Two threads share one open    *)
(* store; each takes a snapshot, waits for the other at a barrier and      *)
(* promotes with what it observed.  Any of their calls may raise: before   *)
(* the barrier, the other one waits for it there; after a change was       *)
(* committed, nobody is told of it.  The caller waits for both results.    *)
(***************************************************************************)
EXTENDS PromotionStore

CONSTANTS TargetOf(_), TransitionOf(_)

\* _compete starts two threads, of different actors, one to approve and one to reject.
ASSUME CompetitorsAssumption ==
  /\ IsFiniteSet(Actors) /\ Cardinality(Actors) = 2
  /\ \A a \in Actors : TargetOf(a) \in Terminal /\ TransitionOf(a) \in TransitionIds

VARIABLES protected,  \* the argument: promote, or else naive_promote
          stage,      \* of each thread: start, waiting, released, calling, done or raised
          broken,     \* the barrier is broken: every wait raises BrokenBarrierError
          caller      \* _compete itself: waiting for results, leaving, told or raised

cvars == <<vars, protected, stage, broken, caller>>

\* The store was opened before the threads start.
CInit ==
  /\ table = "ready" /\ authority = InitialRow /\ log = <<>> /\ writer = NoActor
  /\ pc = [a \in Actors |-> "open"]
  /\ observed = [a \in Actors |-> NoSnapshot]
  /\ request = [a \in Actors |-> NoRequest]
  /\ local = [a \in Actors |-> NoLocal]
  /\ result = [a \in Actors |-> NoResult]
  /\ protected \in BOOLEAN
  /\ stage = [a \in Actors |-> "start"]
  /\ broken = FALSE
  /\ caller = "waiting"

Enter(a, s) == stage' = [stage EXCEPT ![a] = s]

Observe(a) ==
  /\ stage[a] = "start"
  /\ Snapshot(a)
  /\ Enter(a, "waiting")
  /\ UNCHANGED <<protected, broken, caller>>

\* store.snapshot() raises: the thread never reaches the barrier.
SnapshotFails(a) ==
  /\ stage[a] = "start"
  /\ Enter(a, "raised")
  /\ UNCHANGED <<vars, protected, broken, caller>>

\* Mutant: a barrier that lets everyone through.
PassAlone ==
  /\ ~broken
  /\ \E a \in Actors : stage[a] = "waiting" /\ Enter(a, "released")
  /\ UNCHANGED <<vars, protected, broken, caller>>

\* The last one to arrive releases all.
PassBarrier ==
  /\ ~broken
  /\ \A a \in Actors : stage[a] = "waiting"
  /\ stage' = [a \in Actors |-> "released"]
  /\ UNCHANGED <<vars, protected, broken, caller>>

\* Mutant: barrier.wait() without a timeout.
BarrierNeverTimesOut(a) == FALSE /\ SnapshotFails(a)

\* wait(timeout=5.0) expires, or finds the barrier broken.
BarrierTimeout(a) ==
  /\ stage[a] = "waiting"
  /\ broken \/ \E b \in Actors : stage[b] # "waiting"
  /\ broken' = TRUE
  /\ Enter(a, "raised")
  /\ UNCHANGED <<vars, protected, caller>>

\* promote would raise ValueError had the thread observed anything but a
\* candidate; ObservationsAgree says that none does.
Promote(a) ==
  /\ stage[a] = "released"
  /\ Call(a, IF protected THEN "promote" ELSE "naive_promote", TransitionOf(a), TargetOf(a))
  /\ Enter(a, "calling")
  /\ UNCHANGED <<protected, broken, caller>>

InStore(a) == stage[a] = "calling" /\ Step(a) /\ UNCHANGED <<protected, stage, broken, caller>>

\* naive_promote may raise after its change was committed, promote only before.
StatementFails(a) ==
  stage[a] = "calling" /\ Fail(a) /\ UNCHANGED <<protected, stage, broken, caller>>

EndCall(a) ==
  /\ stage[a] = "calling" /\ pc[a] = "open"
  /\ Enter(a, IF result[a].decision = "lost" THEN "raised" ELSE "done")
  /\ UNCHANGED <<vars, protected, broken, caller>>

BothDone == \A a \in Actors : stage[a] = "done"
Ended == \A a \in Actors : stage[a] \in {"done", "raised"}

\* The caller has both results; the snapshot() it takes then may still raise.
ReceiveResults ==
  /\ caller = "waiting" /\ BothDone
  /\ caller' \in {"told", "raised"}
  /\ UNCHANGED <<vars, protected, stage, broken>>

\* result(timeout=10.0) raises what its thread raised, or TimeoutError while that one is
\* still at work.
ResultRaises ==
  /\ caller = "waiting" /\ ~BothDone
  /\ caller' = "leaving"
  /\ UNCHANGED <<vars, protected, stage, broken>>

\* The executor's with-block is left when both threads have ended.
ExecutorExits ==
  /\ caller = "leaving" /\ Ended
  /\ caller' = "raised"
  /\ UNCHANGED <<vars, protected, stage, broken>>

Caller == ReceiveResults \/ ResultRaises \/ ExecutorExits

Thread(a) ==
  Observe(a) \/ BarrierTimeout(a) \/ Promote(a) \/ InStore(a) \/ EndCall(a)

CNext == \/ PassBarrier \/ Caller
         \/ \E a \in Actors : Thread(a) \/ SnapshotFails(a) \/ StatementFails(a)

CSpec == CInit /\ [][CNext]_cvars

\* Both threads run, and so does their caller: the timeouts expire.
FairCSpec == /\ CSpec /\ WF_cvars(PassBarrier) /\ WF_cvars(Caller)
             /\ \A a \in Actors : WF_cvars(Thread(a))
-----------------------------------------------------------------------------
(* Properties *)

Told(decision) == {a \in Actors : stage[a] = "done" /\ result[a].decision = decision}

\* What the barrier is for: no thread observes the other's promotion, so both
\* decide from candidate@0 and neither is turned away by _validate_promotion.
ObservationsAgree ==
  \A a \in Actors : observed[a] # NoSnapshot => observed[a] = InitialRow

\* With the fence, of two results one is APPLIED and one STALE_GENERATION, and
\* the final row is the winner's, at generation 1.  The negative control: without
\* it both stale decisions are accepted and one overwrites the other.
FencedOneWins ==
  BothDone =>
    \/ /\ protected
       /\ Cardinality(Told("applied")) = 1
       /\ Cardinality(Told("stale-generation")) = 1
       /\ authority.generation = 1
       /\ \A a \in Told("applied") : authority = result[a].authoritative
    \/ /\ ~protected
       /\ Cardinality(Told("applied")) = 2
       /\ authority.generation = 2

\* Whatever became of the other thread, STALE_GENERATION names it as the winner,
\* with its transition, and that row is in force.
LoserNamesWinner ==
  protected =>
    \A a \in Told("stale-generation") :
      /\ result[a].authoritative.last_actor \in Actors \ {a}
      /\ result[a].authoritative.last_transition =
           TransitionOf(result[a].authoritative.last_actor)
      /\ authority = result[a].authoritative

\* Whose changes have been accepted.
Accepted == {log[g].row.last_actor : g \in DOMAIN log}
Raised == {a \in Actors : stage[a] = "raised"}

\* The outcome that _compete does not tell, when it raises as well as when it returns: no
\* change is accepted twice, and every one that was answered APPLIED is in the log.  With
\* the fence there is no other, so a raised promote has changed nothing; without it a
\* raised naive_promote may have.
RaisedOutcome ==
  caller \in {"told", "raised"} =>
    /\ Cardinality(Accepted) = authority.generation
    /\ Told("applied") \subseteq Accepted
    /\ Accepted \subseteq Told("applied") \cup IF protected THEN {} ELSE Raised

\* What is in force after the competition follows from the answers, but for an unfenced
\* call that raised; and everybody who was told anything was told what is.
CompetitionOutcome == FencedOneWins /\ LoserNamesWinner /\ RaisedOutcome

\* A thread that raises, before the barrier or after it, leaves neither the other one nor
\* the caller waiting.
CompetitionEnds == <>[](Ended /\ caller \in {"told", "raised"})
=============================================================================
