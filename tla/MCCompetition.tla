--------------------------- MODULE MCCompetition ----------------------------
EXTENDS Competition

CONSTANTS left, right, transitionA, transitionB

Target(a) == IF a = left THEN "approved" ELSE "rejected"
Transition(a) == IF a = left THEN transitionA ELSE transitionB
=============================================================================
