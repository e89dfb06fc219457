---------------------------- MODULE Selections -----------------------------
(***************************************************************************)
(* Picking entries out of a sequence and keeping their order: what         *)
(* tuple(x for x in s if ...) does, and ORDER BY a number.  An entry is    *)
(* found by its rank, so that what is picked can be reasoned about.        *)
(***************************************************************************)
EXTENDS Naturals, FiniteSets

\* The numbers of a finite set, from the least.
InOrder(S) ==
  [i \in 1..Cardinality(S) |-> CHOOSE n \in S : Cardinality({m \in S : m <= n}) = i]

\* The entries of s that pass Test, in the order of s.
Selected(s, Test(_)) ==
  LET chosen == InOrder({i \in DOMAIN s : Test(s[i])})
  IN [k \in DOMAIN chosen |-> s[chosen[k]]]
=============================================================================
