------------------------ MODULE EvidenceOracleProofs ------------------------
(***************************************************************************)
(* What the evidence contract accepts, and the evaluation oracle behind    *)
(* it, for catalogs, selections and claims of any length.                  *)
(***************************************************************************)
EXTENDS EvidenceOracle, FiniteSetTheorems, SequenceTheorems, TLAPS

Selection == [declared : Provenance, ids : Seq(Evidence)]

\* The catalog has the provenance of each supplied fragment, and of no other.
Indexed ==
  /\ fragments \in Seq(Fragment)
  /\ \A e : e \in DOMAIN catalog <=> \E f \in Range(fragments) : f.identifier = e
  /\ \A f \in Range(fragments) : catalog[f.identifier] = f.provenance

\* The result is that of the selection, for a catalog that no longer changes.
Validated ==
  \/ result = None
  \/ loaded /\ selection \in Selection /\ result = Contract(selection)

\* A verdict is of evidence that the contract accepted.
Evaluated ==
  \/ verdict = None
  \/ /\ Accepted(result) /\ claim \in Seq(Requirements)
     /\ support \in [Range(selection.ids) -> SUBSET Requirements]
     /\ verdict = Evaluation(claim, support)

IInv == Indexed /\ Validated /\ Evaluated
-----------------------------------------------------------------------------
(* The contract and the evaluation, by the sets their loops go through *)

\* The category of a result needs only which identifiers are selected.
LEMMA ContractReason ==
  ASSUME NEW s \in Selection
  PROVE  Contract(s).reason =
           IF \E e \in Range(s.ids) : e \notin DOMAIN catalog THEN "unknown-evidence"
           ELSE IF \E e \in Range(s.ids) : catalog[e] # s.declared
           THEN "incompatible-provenance" ELSE "accepted"
<1>1. Unknown(s) # {} <=> \E e \in Range(s.ids) : e \notin DOMAIN catalog
  BY DEF Unknown, Positions, Range
<1>2. Incompatible(s) # {} <=> \E e \in Range(s.ids) : catalog[e] # s.declared
  BY DEF Incompatible, Positions, Range
<1> QED
  BY <1>1, <1>2 DEF Contract

\* An index of fragments without duplicates has them all, each under its identifier.
LEMMA IndexOfFragments ==
  ASSUME NEW rows \in Seq(Fragment), ~Duplicated(rows)
  PROVE  /\ \A e : e \in DOMAIN Index(rows) <=> \E f \in Range(rows) : f.identifier = e
         /\ \A f \in Range(rows) : Index(rows)[f.identifier] = f.provenance
<1>1. DOMAIN Index(rows) = {r.identifier : r \in Range(rows)}
  BY DEF Index
<1>2. ASSUME NEW f \in Range(rows) PROVE Index(rows)[f.identifier] = f.provenance
  <2>1. PICK i \in DOMAIN rows : rows[i] = f
    BY DEF Range
  <2>2. {j \in 1..Len(rows) : rows[j].identifier = f.identifier} = {i}
    BY <2>1 DEF Duplicated
  <2>3. i \in Nat /\ Max({i}) = i
    BY <2>1 DEF Max
  <2>4. SelectLastInSeq(rows, LAMBDA r : r.identifier = f.identifier) = i
    BY <2>2, <2>3 DEF SelectLastInSeq
  <2>5. f.identifier \in {r.identifier : r \in Range(rows)}
    OBVIOUS
  <2> QED
    BY <2>1, <2>4, <2>5 DEF Index
<1> QED
  BY <1>1, <1>2
-----------------------------------------------------------------------------
(* Selections: the requirements that pass a test *)

Rank(S, n) == Cardinality({m \in S : m <= n})

\* Each member of a finite set of numbers has a rank of its own, up to the size of the set.
LEMMA Ranks ==
  ASSUME NEW S \in SUBSET Nat, IsFiniteSet(S)
  PROVE  /\ \A n \in S : Rank(S, n) \in 1..Cardinality(S)
         /\ \A n, m \in S : n < m <=> Rank(S, n) < Rank(S, m)
         /\ \A i \in 1..Cardinality(S) : \E n \in S : Rank(S, n) = i
<1> DEFINE UpTo(n) == {m \in S : m <= n}
           R == [n \in S |-> Rank(S, n)]
           N == Cardinality(S)
<1>1. \A T \in SUBSET S : /\ IsFiniteSet(T) /\ Cardinality(T) \in Nat /\ Cardinality(T) <= N
                          /\ Cardinality(T) = 0 <=> T = {}
  BY FS_Subset, FS_CardinalityType, FS_EmptySet
<1>2. ASSUME NEW n \in S PROVE Rank(S, n) \in 1..N
  <2>1. n \in UpTo(n) /\ UpTo(n) \in SUBSET S
    OBVIOUS
  <2>2. Cardinality(UpTo(n)) # 0
    BY <1>1, <2>1
  <2>3. Rank(S, n) = Cardinality(UpTo(n)) /\ N \in Nat
    BY <1>1 DEF Rank
  <2> HIDE DEF UpTo, N
  <2> QED
    BY <1>1, <2>1, <2>2, <2>3
<1>3. ASSUME NEW n \in S, NEW m \in S, n < m PROVE Rank(S, n) < Rank(S, m)
  <2>1. UpTo(n) \in SUBSET UpTo(m) /\ UpTo(n) # UpTo(m)
    <3>1. m \in UpTo(m) /\ m \notin UpTo(n)
      BY <1>3
    <3>2. \A k \in S : k <= n => k <= m
      BY <1>3
    <3> QED
      BY <3>1, <3>2
  <2>2. IsFiniteSet(UpTo(m)) /\ Cardinality(UpTo(m)) \in Nat /\ Cardinality(UpTo(n)) \in Nat
    BY <1>1
  <2>3. Rank(S, n) = Cardinality(UpTo(n)) /\ Rank(S, m) = Cardinality(UpTo(m))
    BY DEF Rank
  <2> HIDE DEF UpTo
  <2> QED
    BY <2>1, <2>2, <2>3, FS_Subset
<1>4. ASSUME NEW n \in S, NEW m \in S, Rank(S, n) < Rank(S, m) PROVE n < m
  BY <1>2, <1>3, <1>4
<1>5. R \in Injection(S, 1..N)
  <2>1. \A n, m \in S : Rank(S, n) = Rank(S, m) => n = m
    BY <1>2, <1>3
  <2> QED
    BY <1>2, <2>1 DEF Injection, IsInjective
<1>6. IsFiniteSet(1..N) /\ Cardinality(1..N) = N
  <2>1. N \in Nat
    BY <1>1
  <2> HIDE DEF N
  <2> QED
    BY <2>1, FS_Interval
<1>7. R \in Surjection(S, 1..N)
  <2> HIDE DEF R
  <2> QED
    BY <1>5, <1>6, FS_Injection
<1> QED
  BY <1>2, <1>3, <1>4, <1>7 DEF Surjection

\* The selection has each member once, at its rank.
LEMMA Ordered ==
  ASSUME NEW S \in SUBSET Nat, IsFiniteSet(S)
  PROVE  /\ Cardinality(S) \in Nat /\ DOMAIN InOrder(S) = 1..Cardinality(S)
         /\ \A i \in 1..Cardinality(S) : InOrder(S)[i] \in S /\ Rank(S, InOrder(S)[i]) = i
         /\ \A n \in S : Rank(S, n) \in 1..Cardinality(S) /\ InOrder(S)[Rank(S, n)] = n
<1>1. Cardinality(S) \in Nat
  BY FS_CardinalityType
<1>2. InOrder(S) = [i \in 1..Cardinality(S) |-> CHOOSE n \in S : Rank(S, n) = i]
  BY DEF InOrder, Rank
<1>3. \A n, m \in S : Rank(S, n) = Rank(S, m) => n = m
  BY Ranks
<1> HIDE DEF Rank
<1>4. \A i \in 1..Cardinality(S) : InOrder(S)[i] \in S /\ Rank(S, InOrder(S)[i]) = i
  BY <1>2, Ranks
<1>5. \A n \in S : Rank(S, n) \in 1..Cardinality(S) /\ InOrder(S)[Rank(S, n)] = n
  BY <1>3, <1>4, Ranks
<1> QED
  BY <1>1, <1>2, <1>4, <1>5

\* The entries of s that are not in G, in the order of s.
Without(s, G) ==
  LET chosen == InOrder({i \in DOMAIN s : s[i] \notin G})
  IN [k \in DOMAIN chosen |-> s[chosen[k]]]

\* They are all there, and only they.
LEMMA WithoutMeans ==
  ASSUME NEW S, NEW s \in Seq(S), NEW G
  PROVE  Range(Without(s, G)) = Range(s) \ G
<1> DEFINE I == {i \in DOMAIN s : s[i] \notin G}
<1>1. DOMAIN s = 1..Len(s) /\ Len(s) \in Nat
  OBVIOUS
<1>2. I \in SUBSET (1..Len(s)) /\ I \in SUBSET Nat
  BY <1>1
<1>3. IsFiniteSet(I)
  <2>1. IsFiniteSet(1..Len(s))
    BY <1>1, FS_Interval
  <2> HIDE DEF I
  <2> QED
    BY <1>2, <2>1, FS_Subset
<1>4. Without(s, G) = [k \in DOMAIN InOrder(I) |-> s[InOrder(I)[k]]]
  BY DEF Without
<1>5. /\ \A k \in DOMAIN InOrder(I) : InOrder(I)[k] \in I
      /\ \A i \in I : \E k \in DOMAIN InOrder(I) : InOrder(I)[k] = i
  <2> HIDE DEF I
  <2> QED
    BY <1>2, <1>3, Ordered
<1>6. \A x : x \in Range(Without(s, G)) <=> \E i \in I : x = s[i]
  <2> HIDE DEF I
  <2> QED
    BY <1>4, <1>5 DEF Range
<1>7. \A x : x \in Range(s) \ G <=> \E i \in I : x = s[i]
  BY DEF Range
<1> QED
  BY <1>6, <1>7

\* Both selections of the oracle are of this form.
LEMMA EvaluationMeans ==
  ASSUME NEW S, NEW c \in Seq(S), NEW s
  PROVE  /\ Range(Evaluation(c, s).unsupported) = Range(c) \ Supported(s)
         /\ Evaluation(c, s).reason = "passed" <=> Range(c) \subseteq Supported(s)
<1>1. Evaluation(c, s).unsupported = Without(c, Supported(s))
  BY DEF Evaluation, Selected, Without
<1>2. Evaluation(c, s).reason = "passed" <=> Range(c) \subseteq Supported(s)
  BY DEF Evaluation
<1> QED
  BY <1>1, <1>2, WithoutMeans
-----------------------------------------------------------------------------
LEMMA BoundedSeqIsSeq ==
  ASSUME NEW S, NEW n \in Nat
  PROVE  BoundedSeq(S, n) \subseteq Seq(S)
BY DEF BoundedSeq, SeqOf

LEMMA InitIInv == Init => IInv
BY DEF Init, IInv, Indexed, Validated, Evaluated, Range

\* A catalog that stays gives the selection the same result.
LEMMA ContractStays ==
  ASSUME UNCHANGED <<catalog, selection>>
  PROVE  Contract(selection)' = Contract(selection)
BY DEF Contract, Unknown, Incompatible, Positions, First

LEMMA NextKeepsIInv == IInv /\ [Next]_vars => IInv'
<1> SUFFICES ASSUME IInv, [Next]_vars PROVE IInv'
  OBVIOUS
<1>1. CASE Load
  <2>1. fragments' \in Seq(Fragment) /\ ~Duplicated(fragments') /\ catalog' = Index(fragments')
    BY <1>1, BoundedSeqIsSeq, LengthAssumption DEF Load
  <2>2. Indexed'
    BY <2>1, IndexOfFragments DEF Indexed
  <2>3. result = None
    BY <1>1 DEF Load, IInv, Validated
  <2>4. verdict = None
    BY <2>3 DEF IInv, Evaluated, Accepted, None
  <2> QED
    BY <1>1, <2>2, <2>3, <2>4 DEF Load, IInv, Validated, Evaluated
<1>2. CASE Validate
  <2>1. selection' \in Selection /\ result' = Contract(selection') /\ loaded' /\ verdict' = None
    BY <1>2, BoundedSeqIsSeq, LengthAssumption DEF Validate, Selection
  <2>2. UNCHANGED <<fragments, catalog>>
    BY <1>2 DEF Validate
  <2>3. result' = Contract(selection)'
    BY <2>1, <2>2 DEF Contract, Unknown, Incompatible, Positions, First
  <2>4. Indexed'
    BY <2>2 DEF IInv, Indexed
  <2> QED
    BY <2>1, <2>3, <2>4 DEF IInv, Validated, Evaluated
<1>3. CASE Evaluate
  <2>1. UNCHANGED <<loaded, fragments, catalog, selection, result>>
    BY <1>3 DEF Evaluate
  <2>2. Indexed' /\ Validated'
    BY <2>1, ContractStays DEF IInv, Indexed, Validated
  <2>3. claim' \in Seq(Requirements)
    BY <1>3, BoundedSeqIsSeq, LengthAssumption DEF Evaluate
  <2>4. Evaluated'
    BY <1>3, <2>1, <2>3 DEF Evaluate, Evaluated, Accepted
  <2> QED
    BY <2>2, <2>4 DEF IInv
<1>4. CASE UNCHANGED vars
  <2>1. UNCHANGED <<loaded, fragments, catalog, selection, result, claim, support, verdict>>
    BY <1>4 DEF vars
  <2>2. Indexed' /\ Validated'
    BY <2>1, ContractStays DEF IInv, Indexed, Validated
  <2>3. Evaluated'
    BY <2>1 DEF IInv, Evaluated, Accepted
  <2> QED
    BY <2>2, <2>3 DEF IInv
<1> QED
  BY <1>1, <1>2, <1>3, <1>4 DEF Next

LEMMA SpecIInv == Spec => []IInv
BY InitIInv, NextKeepsIInv, PTL DEF Spec
-----------------------------------------------------------------------------
\* What the contract accepts, for a typed selection.
LEMMA AcceptedMeans ==
  ASSUME IInv, Accepted(result)
  PROVE  /\ selection \in Selection
         /\ \A e \in Range(selection.ids) : e \in DOMAIN catalog /\ catalog[e] = selection.declared
<1>1. selection \in Selection /\ result = Contract(selection)
  BY DEF IInv, Validated, Accepted, None
<1> QED
  BY <1>1, ContractReason DEF Accepted

\* An accepted selection is of supplied fragments of the declared provenance only, and
\* every requirement of a claim that passes is supported by such a fragment.
THEOREM EvidenceGrounded == Spec => []PassedIsGrounded
<1>1. IInv => PassedIsGrounded
  <2> SUFFICES ASSUME IInv PROVE PassedIsGrounded
    OBVIOUS
  <2>1. ASSUME Accepted(result), NEW e \in Range(selection.ids)
        PROVE  /\ \E f \in Range(fragments) : f.identifier = e
               /\ \A f \in Range(fragments) : f.identifier = e => f.provenance = selection.declared
    BY <2>1, AcceptedMeans DEF IInv, Indexed
  <2>2. ASSUME verdict # None, verdict.reason = "passed", NEW r \in Range(claim)
        PROVE  \E f \in Range(fragments) : /\ f.identifier \in Range(selection.ids)
                                           /\ f.provenance = selection.declared
                                           /\ r \in support[f.identifier]
    <3>1. /\ Accepted(result) /\ support \in [Range(selection.ids) -> SUBSET Requirements]
          /\ verdict = Evaluation(claim, support)
      BY <2>2 DEF IInv, Evaluated
    <3>2. r \in Supported(support)
      BY <2>2, <3>1 DEF Evaluation
    <3>3. PICK e \in Range(selection.ids) : r \in support[e]
      BY <3>1, <3>2 DEF Supported
    <3> QED
      BY <2>1, <3>1, <3>3
  <2> QED
    BY <2>1, <2>2 DEF PassedIsGrounded
<1> QED
  BY <1>1, SpecIInv, PTL

\* Why a selection is rejected, and whether it is, does not depend on the order of its
\* identifiers.
THEOREM EvidenceOrder == Spec => []OrderOnlyMovesTheBlame
<1>1. IInv => OrderOnlyMovesTheBlame
  <2> SUFFICES ASSUME IInv, result # None,
                      NEW ids \in [DOMAIN selection.ids -> Range(selection.ids)],
                      \A e \in Range(selection.ids) :
                        Cardinality(Positions(ids, LAMBDA x : x = e)) =
                        Cardinality(Positions(selection.ids, LAMBDA x : x = e))
               PROVE  Contract([selection EXCEPT !.ids = ids]).reason = result.reason
    BY DEF OrderOnlyMovesTheBlame
  <2>1. selection \in Selection /\ result = Contract(selection)
    BY DEF IInv, Validated
  <2>2. Range(ids) = Range(selection.ids)
    <3>1. Range(ids) \subseteq Range(selection.ids)
      BY DEF Range
    <3>2. ASSUME NEW e \in Range(selection.ids) PROVE e \in Range(ids)
      <4> DEFINE Here == {i \in DOMAIN selection.ids : selection.ids[i] = e}
                 There == {i \in DOMAIN ids : ids[i] = e}
      <4>1. Cardinality(There) = Cardinality(Here)
        BY DEF Positions
      <4>2. Here # {}
        BY DEF Range
      <4>3. IsFiniteSet(Here)
        <5>1. DOMAIN selection.ids = 1..Len(selection.ids) /\ Len(selection.ids) \in Nat
          BY <2>1 DEF Selection
        <5>2. Here \subseteq 1..Len(selection.ids)
          BY <5>1
        <5>3. \A n \in Nat : IsFiniteSet(1..n)
          BY FS_Interval
        <5> QED
          BY <5>1, <5>2, <5>3, FS_Subset
      <4> HIDE DEF Here
      <4>4. There # {}
        BY <4>1, <4>2, <4>3, FS_EmptySet
      <4> QED
        BY <4>4 DEF Range
    <3> QED
      BY <3>1, <3>2
  <2>3. [selection EXCEPT !.ids = ids] \in Selection
    <3>1. selection.ids \in Seq(Evidence) /\ DOMAIN selection.ids = 1..Len(selection.ids)
      BY <2>1 DEF Selection
    <3>2. \A i \in DOMAIN selection.ids : ids[i] \in Evidence
      BY <3>1 DEF Range
    <3>3. ids \in Seq(Evidence)
      BY <3>1, <3>2
    <3> QED
      BY <2>1, <3>3 DEF Selection
  <2> QED
    BY <2>1, <2>2, <2>3, ContractReason DEF Selection
<1> QED
  BY <1>1, SpecIInv, PTL

\* A rejected claim passes without the requirements that are reported, and none of those
\* is supported; the weak controls accept what is rejected for any other reason.
THEOREM RejectionComplete == Spec => []RejectionTellsTheGap
<1>1. IInv => RejectionTellsTheGap
  <2> SUFFICES ASSUME IInv PROVE RejectionTellsTheGap
    OBVIOUS
  <2>1. ASSUME verdict # None, verdict.reason # "passed"
        PROVE  LET gap == Range(verdict.unsupported)
                   Kept(r) == r \notin gap
               IN  /\ gap # {} /\ gap \cap Supported(support) = {}
                   /\ Evaluation(Selected(claim, Kept), support).reason = "passed"
                   /\ RelationshipOnlyAccepts(claim, support) <=> selection.ids # <<>>
    <3> DEFINE gap == Range(verdict.unsupported)
               Kept(r) == r \notin gap
               kept == Selected(claim, Kept)
    <3>1. /\ Accepted(result) /\ claim \in Seq(Requirements)
          /\ support \in [Range(selection.ids) -> SUBSET Requirements]
          /\ verdict = Evaluation(claim, support)
      BY <2>1 DEF IInv, Evaluated
    <3>2. gap = Range(claim) \ Supported(support) /\ ~(Range(claim) \subseteq Supported(support))
      BY <2>1, <3>1, EvaluationMeans
    <3>3. kept = Without(claim, gap)
      BY DEF Selected, Without
    <3>4. Evaluation(kept, support).reason = "passed"
      <4> HIDE DEF kept, gap
      <4>1. Range(kept) = Range(claim) \ gap
        BY <3>1, <3>3, WithoutMeans
      <4>2. Range(kept) \subseteq Supported(support)
        BY <3>2, <4>1
      <4> QED
        BY <4>2 DEF Evaluation
    <3>5. RelationshipOnlyAccepts(claim, support) <=> selection.ids # <<>>
      <4>1. claim # <<>>
        BY <3>1, <3>2 DEF Range
      <4>2. selection.ids \in Seq(Evidence)
        BY <3>1, AcceptedMeans DEF Selection
      <4>3. \A ids \in Seq(Evidence) : ids # <<>> <=> Range(ids) # {}
        <5>1. \A ids \in Seq(Evidence) : ids # <<>> <=> 1 \in DOMAIN ids
          BY EmptySeq
        <5>2. \A ids \in Seq(Evidence) : 1 \in DOMAIN ids <=> DOMAIN ids # {}
          OBVIOUS
        <5> QED
          BY <5>1, <5>2 DEF Range
      <4> QED
        BY <3>1, <4>1, <4>2, <4>3 DEF RelationshipOnlyAccepts
    <3>6. gap # {} /\ gap \cap Supported(support) = {}
      BY <3>2
    <3> QED
      BY <3>4, <3>5, <3>6
  <2>2. ASSUME result # None
        PROVE  result.reason = "unknown-evidence" <=> ~IdentifiersExist(selection)
    BY <2>2, ContractReason DEF IInv, Validated, IdentifiersExist
  <2> QED
    BY <2>1, <2>2 DEF RejectionTellsTheGap
<1> QED
  BY <1>1, SpecIInv, PTL
=============================================================================
