------------------------- MODULE PromotionRegister --------------------------
(***************************************************************************)
(* What M6 promises of fenced promotion: one row, and calls that are each  *)
(* decided in one atomic step, by comparing the generation of the row with *)
(* the generation the caller observed; the weak control compares the state *)
(* only.  A decided answer can still be lost.  A fenced call is never told *)
(* of a source-state mismatch: a generation names one state.               *)
(***************************************************************************)
EXTENDS Naturals

CONSTANTS Actors, TransitionIds, NoActor, NoTransition

VARIABLES row, status, request, verdict

vars == <<row, status, request, verdict>>

Init ==
  /\ row = [state |-> "candidate", generation |-> 0,
            last_actor |-> NoActor, last_transition |-> NoTransition]
  /\ status = [a \in Actors |-> "idle"]
  /\ request = [a \in Actors |-> [kind |-> "none"]]
  /\ verdict = [a \in Actors |-> "none"]

Fenced(a) == request[a].kind = "promote"
StateOnly(a) == request[a].kind = "promote_state_only"

\* Whoever calls has observed some generation up to the current one.
Request == [kind : {"promote", "promote_state_only", "naive_promote",
                    "advance_for_characterization"},
            transition_id : TransitionIds,
            target_state : {"candidate", "review", "approved", "rejected"},
            observed_generation : 0 .. row.generation]

Invoke(a) ==
  /\ status[a] = "idle"
  /\ status' = [status EXCEPT ![a] = "pending"]
  /\ \E r \in Request : request' = [request EXCEPT ![a] = r]
  /\ UNCHANGED <<row, verdict>>

Decide(a, answer) ==
  /\ status[a] = "pending"
  /\ status' = [status EXCEPT ![a] = "decided"]
  /\ verdict' = [verdict EXCEPT ![a] = answer]
  /\ UNCHANGED request

\* The new row of an accepted call succeeds the current one.
Accept(a) ==
  /\ Decide(a, "applied")
  /\ Fenced(a) => row.generation = request[a].observed_generation
  /\ StateOnly(a) => row.state = "candidate"
  /\ row' = [state |-> request[a].target_state, generation |-> row.generation + 1,
             last_actor |-> a, last_transition |-> request[a].transition_id]

Refuse(a) ==
  /\ \/ /\ Fenced(a) /\ row.generation # request[a].observed_generation
        /\ Decide(a, "stale-generation")
     \/ /\ StateOnly(a) /\ row.state # "candidate"
        /\ Decide(a, "source-state-mismatch")
  /\ UNCHANGED row

\* The caller receives its answer, or loses it; a pending call may also fail.
Finish(a) ==
  /\ status[a] # "idle"
  /\ status' = [status EXCEPT ![a] = "idle"]
  /\ request' = [request EXCEPT ![a] = [kind |-> "none"]]
  /\ verdict' = [verdict EXCEPT ![a] = "none"]
  /\ UNCHANGED row

Next == \E a \in Actors : Invoke(a) \/ Accept(a) \/ Refuse(a) \/ Finish(a)

Spec == Init /\ [][Next]_vars
=============================================================================
