-------------------------- MODULE DispatchContract --------------------------
(***************************************************************************)
(* What M7 promises of a committed dispatch intent when M4's record is     *)
(* retained as long as somebody may retry: it stays pending until it is    *)
(* acknowledged, its effect becomes visible once, before the               *)
(* acknowledgement, and under eventual rescanning both happen.             *)
(***************************************************************************)
CONSTANTS DispatchIds

VARIABLES stage,     \* of each intent: "absent", "pending", "acknowledged"
          visible    \* whether its effect is visible

vars == <<stage, visible>>

Init == /\ stage = [d \in DispatchIds |-> "absent"]
        /\ visible = [d \in DispatchIds |-> FALSE]

Commit(d) == /\ stage[d] = "absent"
             /\ stage' = [stage EXCEPT ![d] = "pending"]
             /\ UNCHANGED visible

TakeEffect(d) == /\ stage[d] = "pending" /\ ~visible[d]
                 /\ visible' = [visible EXCEPT ![d] = TRUE]
                 /\ UNCHANGED stage

Acknowledge(d) == /\ stage[d] = "pending" /\ visible[d]
                  /\ stage' = [stage EXCEPT ![d] = "acknowledged"]
                  /\ UNCHANGED visible

Next == \E d \in DispatchIds : Commit(d) \/ TakeEffect(d) \/ Acknowledge(d)

Spec == /\ Init /\ [][Next]_vars
        /\ \A d \in DispatchIds : WF_vars(TakeEffect(d)) /\ WF_vars(Acknowledge(d))
=============================================================================
