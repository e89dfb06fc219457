-------------------------- MODULE ProvenanceProofs --------------------------
(***************************************************************************)
(* What validate_history accepts, for histories of any length; the journal *)
(* that anybody appends to; and the recording loops over one journal, for  *)
(* any recorders, any number of crashes and either history of the          *)
(* experiment.                                                             *)
(***************************************************************************)
EXTENDS ProvenanceRecorders, FiniteSetTheorems, SequenceTheorems, WellFoundedInduction, TLAPS

\* A sequence, for all that validate_history looks at.
IsHistory(h) == Len(h) \in Nat /\ DOMAIN h = 1..Len(h) /\ (Len(h) = 0 <=> h = <<>>)

\* What the loop over events[1:] asks of event i.
Fine(h, i) ==
  /\ h[i].type = "started" =>
       Null \notin {h[i].attempt, h[i].mechanism} /\ h[i].attempt \notin StartedBefore(h, i)
  /\ h[i].type # "started" => h[i].attempt \in StartedBefore(h, i) \cup {Null}
  /\ h[i].type = "effect" => Null \notin {h[i].attempt, h[i].effect}
  /\ h[i].type = "completion" =>
       Null \notin {h[i].attempt, h[i].completion} /\ h[i].attempt \notin CompletedBefore(h, i)
  /\ h[i].type = "recovery" =>
       /\ Null \notin {h[i].attempt, h[i].decision}
       /\ h[i].attempt \in AmbiguousBefore(h, i) /\ h[i].attempt \notin DecidedBefore(h, i)

\* What is asked before the loop, and after it.
HeadFine(h) ==
  /\ h # <<>>
  /\ \A i \in DOMAIN h : /\ h[i].sequence = i
                         /\ h[i].operation = h[1].operation /\ h[i].intent = h[1].intent
  /\ h[1] = Bare(1, "registered", h[1].operation, h[1].intent)

TailFine(h) ==
  LET end == Len(h) + 1
  IN /\ StartedBefore(h, end) = CompletedBefore(h, end)
     /\ AmbiguousBefore(h, end) \subseteq DecidedBefore(h, end)
     /\ Before(h, end, "finalized") = {Len(h)}
     /\ h[Len(h)].disposition # Null /\ h[Len(h)].attempt = Null
     /\ h[Len(h)].disposition = "succeeded" => h[Len(h)].effect \in ObservedBefore(h, end)
-----------------------------------------------------------------------------
(* Selections: the events of one kind, and the rows in the order of their sequences *)

Rank(S, n) == Cardinality({m \in S : m <= n})

\* Each member of a finite set of numbers has a rank of its own, up to the size of the set.
LEMMA Ranks ==
  ASSUME NEW S \in SUBSET Nat, IsFiniteSet(S)
  PROVE  /\ \A n \in S : Rank(S, n) \in 1..Cardinality(S)
         /\ \A n, m \in S : n < m <=> Rank(S, n) < Rank(S, m)
         /\ \A i \in 1..Cardinality(S) : \E n \in S : Rank(S, n) = i
<1> DEFINE UpTo(n) == {m \in S : m <= n}
           R == [n \in S |-> Rank(S, n)]
           N == Cardinality(S)
<1>1. \A T \in SUBSET S : /\ IsFiniteSet(T) /\ Cardinality(T) \in Nat /\ Cardinality(T) <= N
                          /\ Cardinality(T) = 0 <=> T = {}
  BY FS_Subset, FS_CardinalityType, FS_EmptySet
<1>2. ASSUME NEW n \in S PROVE Rank(S, n) \in 1..N
  <2>1. n \in UpTo(n) /\ UpTo(n) \in SUBSET S
    OBVIOUS
  <2>2. Cardinality(UpTo(n)) # 0
    BY <1>1, <2>1
  <2>3. Rank(S, n) = Cardinality(UpTo(n)) /\ N \in Nat
    BY <1>1 DEF Rank
  <2> HIDE DEF UpTo, N
  <2> QED
    BY <1>1, <2>1, <2>2, <2>3
<1>3. ASSUME NEW n \in S, NEW m \in S, n < m PROVE Rank(S, n) < Rank(S, m)
  <2>1. UpTo(n) \in SUBSET UpTo(m) /\ UpTo(n) # UpTo(m)
    <3>1. m \in UpTo(m) /\ m \notin UpTo(n)
      BY <1>3
    <3>2. \A k \in S : k <= n => k <= m
      BY <1>3
    <3> QED
      BY <3>1, <3>2
  <2>2. IsFiniteSet(UpTo(m)) /\ Cardinality(UpTo(m)) \in Nat /\ Cardinality(UpTo(n)) \in Nat
    BY <1>1
  <2>3. Rank(S, n) = Cardinality(UpTo(n)) /\ Rank(S, m) = Cardinality(UpTo(m))
    BY DEF Rank
  <2> HIDE DEF UpTo
  <2> QED
    BY <2>1, <2>2, <2>3, FS_Subset
<1>4. ASSUME NEW n \in S, NEW m \in S, Rank(S, n) < Rank(S, m) PROVE n < m
  BY <1>2, <1>3, <1>4
<1>5. R \in Injection(S, 1..N)
  <2>1. \A n, m \in S : Rank(S, n) = Rank(S, m) => n = m
    BY <1>2, <1>3
  <2> QED
    BY <1>2, <2>1 DEF Injection, IsInjective
<1>6. IsFiniteSet(1..N) /\ Cardinality(1..N) = N
  <2>1. N \in Nat
    BY <1>1
  <2> HIDE DEF N
  <2> QED
    BY <2>1, FS_Interval
<1>7. R \in Surjection(S, 1..N)
  <2> HIDE DEF R
  <2> QED
    BY <1>5, <1>6, FS_Injection
<1> QED
  BY <1>2, <1>3, <1>4, <1>7 DEF Surjection

\* The selection has each member once, at its rank.
LEMMA Ordered ==
  ASSUME NEW S \in SUBSET Nat, IsFiniteSet(S)
  PROVE  /\ Cardinality(S) \in Nat /\ DOMAIN InOrder(S) = 1..Cardinality(S)
         /\ \A i \in 1..Cardinality(S) : InOrder(S)[i] \in S /\ Rank(S, InOrder(S)[i]) = i
         /\ \A n \in S : Rank(S, n) \in 1..Cardinality(S) /\ InOrder(S)[Rank(S, n)] = n
<1>1. Cardinality(S) \in Nat
  BY FS_CardinalityType
<1>2. InOrder(S) = [i \in 1..Cardinality(S) |-> CHOOSE n \in S : Rank(S, n) = i]
  BY DEF InOrder, Rank
<1>3. \A n, m \in S : Rank(S, n) = Rank(S, m) => n = m
  BY Ranks
<1> HIDE DEF Rank
<1>4. \A i \in 1..Cardinality(S) : InOrder(S)[i] \in S /\ Rank(S, InOrder(S)[i]) = i
  BY <1>2, Ranks
<1>5. \A n \in S : Rank(S, n) \in 1..Cardinality(S) /\ InOrder(S)[Rank(S, n)] = n
  BY <1>3, <1>4, Ranks
<1> QED
  BY <1>1, <1>2, <1>4, <1>5
-----------------------------------------------------------------------------
(* validate_history *)

\* Where the loop raises first.
LEMMA LeastNumber ==
  ASSUME NEW S \in SUBSET Nat, S # {}
  PROVE  \E m \in S : \A n \in S : m <= n
<1> DEFINE R == {s \in Nat \X Nat : s[1] < s[2]}
<1>1. IsWellFoundedOn(R, Nat)
  BY Zenon, NatLessThanWellFounded DEF OpToRel
<1>2. \A x, y \in S : y < x => <<y, x>> \in R
  OBVIOUS
<1>3. \A x, y \in S : ~(y < x) => x <= y
  OBVIOUS
<1>4. \E x \in S : \A y \in S : ~(<<y, x>> \in R)
  <2> HIDE DEF R
  <2> QED
    BY <1>1, WFMin
<1> HIDE DEF R
<1>5. \E x \in S : \A y \in S : ~(y < x)
  BY <1>2, <1>4
<1> QED
  BY <1>3, <1>5

\* The loop raises at no event that is fine ...
LEMMA EventFaultNone ==
  ASSUME NEW h, NEW i
  PROVE  EventFault(h, i) = "none" <=> Fine(h, i)
<1>1. CASE h[i].type = "started"
  <2>1. EventFault(h, i) = StartFault(h, i)
    BY <1>1 DEF EventFault
  <2>2. StartFault(h, i) = "none" <=>
          Null \notin {h[i].attempt, h[i].mechanism} /\ h[i].attempt \notin StartedBefore(h, i)
    BY DEF StartFault
  <2> QED
    BY <1>1, <2>1, <2>2 DEF Fine
<1>2. CASE h[i].type # "started" /\ h[i].attempt \notin StartedBefore(h, i) \cup {Null}
  BY <1>2 DEF EventFault, Fine
<1>3. CASE h[i].type # "started" /\ h[i].attempt \in StartedBefore(h, i) \cup {Null}
  <2>1. CASE h[i].type = "effect"
    BY <1>3, <2>1 DEF EventFault, EffectFault, Fine
  <2>2. CASE h[i].type = "completion"
    BY <1>3, <2>2 DEF EventFault, CompletionFault, Fine
  <2>3. CASE h[i].type = "recovery"
    BY <1>3, <2>3 DEF EventFault, RecoveryFault, Fine
  <2>4. CASE h[i].type \notin {"effect", "completion", "recovery"}
    BY <1>3, <2>4 DEF EventFault, Fine
  <2> QED
    BY <2>1, <2>2, <2>3, <2>4
<1> QED
  BY <1>1, <1>2, <1>3

\* ... and so nowhere, if all are.
LEMMA LoopFaultNone ==
  ASSUME NEW h, Len(h) \in Nat
  PROVE  LoopFault(h) = "none" <=> \A i \in 2..Len(h) : Fine(h, i)
<1> DEFINE faulty == {i \in 2..Len(h) : EventFault(h, i) # "none"}
<1>1. faulty = {} <=> \A i \in 2..Len(h) : Fine(h, i)
  BY EventFaultNone
<1>2. faulty # {} => Min(faulty) \in faulty
  <2>1. faulty \in SUBSET Nat
    OBVIOUS
  <2> HIDE DEF faulty
  <2> QED
    BY <2>1, LeastNumber DEF Min
<1>3. faulty # {} => EventFault(h, Min(faulty)) # "none"
  BY <1>2
<1>4. LoopFault(h) = IF faulty = {} THEN "none" ELSE EventFault(h, Min(faulty))
  BY DEF LoopFault
<1> HIDE DEF faulty
<1> QED
  BY <1>1, <1>3, <1>4

\* A set of one value for all events.
LEMMA OneValue ==
  ASSUME NEW n \in Nat, n > 0, NEW f, DOMAIN f = 1..n
  PROVE  Cardinality({f[i] : i \in 1..n}) = 1 <=> \A i \in 1..n : f[i] = f[1]
<1> DEFINE V == {f[i] : i \in 1..n}
<1>1. IsFiniteSet(V)
  <2>1. \A m \in Nat : IsFiniteSet(1..m)
    BY FS_Interval
  <2> DEFINE g == [i \in 1..n |-> f[i]]
  <2>2. g \in Surjection(1..n, V)
    BY DEF Surjection
  <2> HIDE DEF V, g
  <2> QED
    BY <2>1, <2>2, FS_Surjection
<1>2. f[1] \in V
  OBVIOUS
<1>3. Cardinality(V) = 1 <=> \E x : V = {x}
  <2> HIDE DEF V
  <2> QED
    BY <1>1, FS_Singleton
<1>4. (\E x : V = {x}) <=> V = {f[1]}
  <2> HIDE DEF V
  <2> QED
    BY <1>2
<1>5. V = {f[1]} <=> \A i \in 1..n : f[i] = f[1]
  <2>1. V = {f[1]} => \A i \in 1..n : f[i] = f[1]
    OBVIOUS
  <2>2. (\A i \in 1..n : f[i] = f[1]) => V \subseteq {f[1]}
    OBVIOUS
  <2> HIDE DEF V
  <2> QED
    BY <1>2, <2>1, <2>2
<1> HIDE DEF V
<1> QED
  BY <1>3, <1>4, <1>5 DEF V

\* The checks before the loop.
LEMMA HeadFaultNone ==
  ASSUME NEW h, IsHistory(h)
  PROVE  HeadFault(h) = "none" <=> HeadFine(h)
<1>1. CASE h = <<>>
  BY <1>1 DEF HeadFault, HeadFine
<1>2. CASE h # <<>>
  <2> DEFINE n == Len(h)
  <2>1. n \in Nat /\ n > 0 /\ DOMAIN h = 1..n
    BY <1>2 DEF IsHistory
  <2> HIDE DEF n
  <2>2. Cardinality({h[i].operation : i \in 1..n}) = 1 <=>
          \A i \in 1..n : h[i].operation = h[1].operation
    <3> DEFINE f == [i \in 1..n |-> h[i].operation]
    <3>1. Cardinality({f[i] : i \in 1..n}) = 1 <=> \A i \in 1..n : f[i] = f[1]
      <4>1. DOMAIN f = 1..n
        OBVIOUS
      <4> HIDE DEF f
      <4> QED
        BY <2>1, <4>1, OneValue
    <3>2. {f[i] : i \in 1..n} = {h[i].operation : i \in 1..n}
      OBVIOUS
    <3>3. 1 \in 1..n /\ \A i \in 1..n : f[i] = h[i].operation
      BY <2>1
    <3> HIDE DEF f
    <3> QED
      BY <3>1, <3>2, <3>3
  <2>3. Cardinality({h[i].intent : i \in 1..n}) = 1 <=>
          \A i \in 1..n : h[i].intent = h[1].intent
    <3> DEFINE f == [i \in 1..n |-> h[i].intent]
    <3>1. Cardinality({f[i] : i \in 1..n}) = 1 <=> \A i \in 1..n : f[i] = f[1]
      <4>1. DOMAIN f = 1..n
        OBVIOUS
      <4> HIDE DEF f
      <4> QED
        BY <2>1, <4>1, OneValue
    <3>2. {f[i] : i \in 1..n} = {h[i].intent : i \in 1..n}
      OBVIOUS
    <3>3. 1 \in 1..n /\ \A i \in 1..n : f[i] = h[i].intent
      BY <2>1
    <3> HIDE DEF f
    <3> QED
      BY <3>1, <3>2, <3>3
  <2> DEFINE Operations1 == Cardinality({h[i].operation : i \in 1..n}) = 1
             Intents1 == Cardinality({h[i].intent : i \in 1..n}) = 1
             Contiguous == \A i \in 1..n : h[i].sequence = i
             Registered == h[1] = Bare(1, "registered", h[1].operation, h[1].intent)
  <2>4. HeadFault(h) = IF ~Contiguous THEN "non-contiguous-sequence"
                       ELSE IF ~Operations1 THEN "mixed-operation-identity"
                       ELSE IF ~Intents1 THEN "mixed-intent"
                       ELSE IF ~Registered THEN "invalid-registration"
                       ELSE "none"
    BY <1>2, <2>1 DEF HeadFault
  <2>5. HeadFault(h) = "none" <=> Contiguous /\ Operations1 /\ Intents1 /\ Registered
    <3> HIDE DEF Contiguous, Operations1, Intents1, Registered
    <3> QED
      BY <2>4
  <2> QED
    BY <1>2, <2>1, <2>2, <2>3, <2>5 DEF HeadFine
<1> QED
  BY <1>1, <1>2

\* The checks after it, which find only what more events could repair.
LEMMA TailFaultNone ==
  ASSUME NEW h
  PROVE  /\ TailFault(h) = "none" <=> TailFine(h)
         /\ TailFault(h) \in Incomplete \cup {"none"}
<1> DEFINE end == Len(h) + 1
           A == StartedBefore(h, end) = CompletedBefore(h, end)
           B == AmbiguousBefore(h, end) \subseteq DecidedBefore(h, end)
           C == Before(h, end, "finalized") = {Len(h)}
           D == h[Len(h)].disposition # Null /\ h[Len(h)].attempt = Null
           E == h[Len(h)].disposition = "succeeded" => h[Len(h)].effect \in ObservedBefore(h, end)
<1>1. TailFault(h) = IF ~A THEN "missing-completion"
                     ELSE IF ~B THEN "missing-recovery-decision"
                     ELSE IF ~C \/ ~D THEN "invalid-finalization"
                     ELSE IF ~E THEN "unobserved-final-effect" ELSE "none"
  BY DEF TailFault
<1>2. TailFine(h) <=> A /\ B /\ C /\ D /\ E
  BY DEF TailFine
<1> HIDE DEF A, B, C, D, E
<1> QED
  BY <1>1, <1>2 DEF Incomplete

\* validate_history returns when nothing is found.
LEMMA AcceptedFine ==
  ASSUME NEW h, IsHistory(h)
  PROVE  Accepted(h) <=> HeadFine(h) /\ (\A i \in 2..Len(h) : Fine(h, i)) /\ TailFine(h)
<1>1. Accepted(h) <=> HeadFault(h) = "none" /\ LoopFault(h) = "none" /\ TailFault(h) = "none"
  BY DEF Accepted, Rejection
<1> QED
  BY <1>1, HeadFaultNone, LoopFaultNone, TailFaultNone DEF IsHistory

\* What the loop has collected, by the events it was collected from.
LEMMA Members ==
  ASSUME NEW h, NEW i, NEW x
  PROVE  /\ x \in StartedBefore(h, i) <=>
              \E j \in 2..(i - 1) : h[j].type = "started" /\ h[j].attempt = x
         /\ x \in CompletedBefore(h, i) <=>
              \E j \in 2..(i - 1) : h[j].type = "completion" /\ h[j].attempt = x
         /\ x \in AmbiguousBefore(h, i) <=>
              \E j \in 2..(i - 1) : /\ h[j].type = "completion" /\ h[j].attempt = x
                                    /\ h[j].completion = "ambiguous"
         /\ x \in DecidedBefore(h, i) <=>
              \E j \in 2..(i - 1) : h[j].type = "recovery" /\ h[j].attempt = x
         /\ x \in ObservedBefore(h, i) <=>
              \E j \in 2..(i - 1) : h[j].type = "effect" /\ h[j].effect = x
BY DEF StartedBefore, CompletedBefore, AmbiguousBefore, DecidedBefore, ObservedBefore, Before

\* What passes the loop tells the whole story of each attempt it names.
LEMMA FineTold ==
  ASSUME NEW h, IsHistory(h), HeadFine(h), \A i \in 2..Len(h) : Fine(h, i), TailFine(h),
         NEW p \in DOMAIN h, NEW a, a = h[p].attempt, a # Null
  PROVE  AttemptTold(h, a)
<1> DEFINE n == Len(h)
           Is(i, type) == h[i].type = type /\ h[i].attempt = a
<1>1. /\ n \in Nat /\ DOMAIN h = 1..n
      /\ \A i \in 1..n : i # 1 => i \in 2..n
      /\ \A i \in 1..n : h[i].attempt = a => i # 1
  BY DEF IsHistory, HeadFine, Bare
<1>2. \A i \in 2..n : Fine(h, i)
  OBVIOUS
<1>3. /\ StartedBefore(h, n + 1) = CompletedBefore(h, n + 1)
      /\ AmbiguousBefore(h, n + 1) \subseteq DecidedBefore(h, n + 1)
  BY DEF TailFine
<1> HIDE DEF n
<1>4. ASSUME NEW i \in 1..n, h[i].attempt = a, h[i].type # "started"
      PROVE  \E j \in 2..(i - 1) : Is(j, "started")
  <2>1. i \in 2..n
    BY <1>1, <1>4
  <2>2. a \in StartedBefore(h, i)
    BY <1>2, <1>4, <2>1 DEF Fine
  <2> QED
    BY <2>2, Members
<1>5. PICK s \in 2..n : Is(s, "started")
  BY <1>1, <1>4
<1>6. ASSUME NEW i \in 2..n, NEW j \in 2..n, i < j
      PROVE  /\ ~(Is(i, "started") /\ Is(j, "started"))
             /\ ~(Is(i, "completion") /\ Is(j, "completion"))
             /\ ~(Is(i, "recovery") /\ Is(j, "recovery"))
  <2>1. i \in 2..(j - 1) /\ Fine(h, j)
    BY <1>1, <1>2, <1>6
  <2> QED
    BY <2>1, Members DEF Fine
<1>7. \A i, j \in 1..n : h[i].attempt = a /\ h[j].attempt = a /\ h[i].type = h[j].type
        /\ h[i].type \in {"started", "completion", "recovery"} => i = j
  BY <1>1, <1>6
<1>8. Told(h, a, "started") = {s}
  BY <1>1, <1>5, <1>7 DEF Told
<1>9. ASSUME NEW i \in 1..n, h[i].attempt = a PROVE s <= i
  BY <1>1, <1>4, <1>5, <1>7, <1>9
<1>10. PICK c \in 2..n : Is(c, "completion")
  <2>1. a \in StartedBefore(h, n + 1)
    BY <1>1, <1>5, Members
  <2>2. \E c \in 2..((n + 1) - 1) : Is(c, "completion")
    BY <1>3, <2>1, Members
  <2> QED
    BY <1>1, <2>2
<1>11. Told(h, a, "completion") = {c} /\ s < c
  BY <1>1, <1>5, <1>7, <1>9, <1>10 DEF Told
<1>12. CASE h[c].completion = "ambiguous"
  <2>1. a \in AmbiguousBefore(h, n + 1)
    BY <1>1, <1>10, <1>12, Members
  <2>2. \E d \in 2..((n + 1) - 1) : Is(d, "recovery")
    BY <1>3, <2>1, Members
  <2>3. PICK d \in 2..n : Is(d, "recovery")
    BY <1>1, <2>2
  <2>4. Told(h, a, "recovery") = {d}
    BY <1>1, <1>7, <2>3 DEF Told
  <2>5. \E j \in 2..(d - 1) : Is(j, "completion")
    BY <1>2, <2>3, Members DEF Fine
  <2>6. c < d
    BY <1>1, <1>7, <1>10, <2>5
  <2>7. \E e \in DOMAIN h : Told(h, a, "recovery") = {e} /\ c < e
    BY <1>1, <2>3, <2>4, <2>6
  <2> QED
    BY <1>1, <1>5, <1>8, <1>9, <1>10, <1>11, <1>12, <2>7 DEF AttemptTold
<1>13. CASE h[c].completion # "ambiguous"
  <2>1. ASSUME NEW d \in 1..n, Is(d, "recovery") PROVE FALSE
    <3>1. d \in 2..n
      BY <1>1, <2>1
    <3>2. \E j \in 2..(d - 1) : Is(j, "completion") /\ h[j].completion = "ambiguous"
      BY <1>2, <2>1, <3>1, Members DEF Fine
    <3> QED
      BY <1>1, <1>7, <1>10, <1>13, <3>1, <3>2
  <2>2. Told(h, a, "recovery") = {}
    BY <1>1, <2>1 DEF Told
  <2> QED
    BY <1>1, <1>5, <1>8, <1>9, <1>10, <1>11, <1>13, <2>2 DEF AttemptTold
<1> QED
  BY <1>12, <1>13

\* What validate_history accepts meets the contract.
LEMMA FineContract ==
  ASSUME NEW h, IsHistory(h), HeadFine(h), \A i \in 2..Len(h) : Fine(h, i), TailFine(h)
  PROVE  Contract(h)
<1> DEFINE n == Len(h)
<1>1. n \in Nat /\ DOMAIN h = 1..n /\ n \in 2..n
  BY DEF IsHistory, TailFine, Before
<1>2. h[1].type = "registered" /\ h[1].attempt = Null
  BY DEF HeadFine, Bare
<1>3. \A i \in 2..n : h[i].type = "finalized" <=> i = n
  <2>1. {j \in 2..((n + 1) - 1) : h[j].type = "finalized"} = {n}
    BY DEF TailFine, Before
  <2>2. 2..((n + 1) - 1) = 2..n
    BY <1>1
  <2> HIDE DEF n
  <2> QED
    BY <2>1, <2>2
<1>4. h[n].disposition # Null /\ h[n].attempt = Null
  BY DEF TailFine
<1>5. ASSUME NEW i \in 1..n PROVE Filled(h[i])
  <2>1. CASE i = 1
    BY <1>2, <2>1 DEF Filled
  <2>2. CASE i \in 2..n
    BY <1>3, <1>4, <2>2 DEF Filled, Fine
  <2> QED
    BY <2>1, <2>2
<1>6. ASSUME NEW i \in 1..n PROVE h[i].type = "finalized" <=> i = n
  <2>1. CASE i = 1
    BY <1>1, <1>2, <2>1
  <2>2. CASE i \in 2..n
    BY <1>3, <2>2
  <2>3. i = 1 \/ i \in 2..n
    BY <1>1
  <2> QED
    BY <2>1, <2>2, <2>3
<1>7. \A i \in 1..n : h[i].attempt # Null => AttemptTold(h, h[i].attempt)
  BY <1>1, FineTold
<1>8. h[n].disposition = "succeeded" =>
        \E i \in 1..n : h[i].type = "effect" /\ h[i].effect = h[n].effect
  <2> SUFFICES ASSUME h[n].disposition = "succeeded"
               PROVE  \E i \in 1..n : h[i].type = "effect" /\ h[i].effect = h[n].effect
    OBVIOUS
  <2>1. h[n].effect \in ObservedBefore(h, n + 1)
    BY DEF TailFine
  <2> QED
    BY <1>1, <2>1, Members
<1> HIDE DEF n
<1> QED
  BY <1>1, <1>5, <1>6, <1>7, <1>8 DEF n, HeadFine, Contract

\* In a history that meets the contract no check finds anything.
LEMMA ContractFine ==
  ASSUME NEW h, IsHistory(h), Contract(h)
  PROVE  HeadFine(h) /\ (\A i \in 2..Len(h) : Fine(h, i)) /\ TailFine(h)
<1> DEFINE n == Len(h)
<1>1. n \in Nat /\ DOMAIN h = 1..n /\ n > 0
  BY DEF IsHistory, Contract
<1>2. HeadFine(h)
  BY DEF HeadFine, Contract
<1>3. h[1].type = "registered" /\ h[1].attempt = Null
  BY <1>2 DEF HeadFine, Bare
<1>4. /\ \A i \in 1..n : Filled(h[i]) /\ (h[i].type = "finalized" <=> i = n)
      /\ \A i \in 1..n : h[i].attempt # Null => AttemptTold(h, h[i].attempt)
      /\ h[n].disposition = "succeeded" =>
           \E i \in 1..n : h[i].type = "effect" /\ h[i].effect = h[n].effect
  BY <1>1 DEF Contract
<1> HIDE DEF n
<1>5. ASSUME NEW i \in 2..n PROVE Fine(h, i)
  <2> DEFINE a == h[i].attempt
  <2>1. Filled(h[i])
    BY <1>4
  <2>2. CASE a = Null
    BY <2>1, <2>2, Members DEF Fine, Filled
  <2>3. CASE a # Null
    <3>1. PICK s, c \in 1..n :
            /\ Told(h, a, "started") = {s} /\ Told(h, a, "completion") = {c} /\ s < c
            /\ \A j \in 1..n : h[j].attempt = a => s <= j
            /\ IF h[c].completion = "ambiguous"
               THEN \E d \in 1..n : Told(h, a, "recovery") = {d} /\ c < d
               ELSE Told(h, a, "recovery") = {}
      <4>1. AttemptTold(h, a)
        BY <1>1, <1>4, <2>3
      <4> HIDE DEF a
      <4> QED
        BY <1>1, <4>1 DEF AttemptTold
    <3>2. /\ h[s].attempt = a /\ h[s].type = "started" /\ s \in 2..n
          /\ h[c].attempt = a /\ h[c].type = "completion" /\ c \in 2..n
          /\ \A j \in 1..n : h[j].attempt = a /\ h[j].type = "started" => j = s
          /\ \A j \in 1..n : h[j].attempt = a /\ h[j].type = "completion" => j = c
      <4>1. s \in Told(h, a, "started") /\ c \in Told(h, a, "completion")
        BY <3>1
      <4>2. s # 1 /\ c # 1
        BY <1>3, <2>3, <4>1 DEF Told
      <4> QED
        BY <1>1, <3>1, <4>1, <4>2 DEF Told
    <3>3. CASE h[i].type = "started"
      <4>1. a \notin StartedBefore(h, i)
        BY <1>1, <3>2, <3>3, Members
      <4> QED
        BY <2>1, <3>3, <4>1 DEF Fine, Filled
    <3>4. CASE h[i].type # "started"
      <4>1. s \in 2..(i - 1)
        BY <1>1, <3>1, <3>2, <3>4
      <4>2. a \in StartedBefore(h, i)
        BY <3>2, <4>1, Members
      <4>3. h[i].type = "completion" => a \notin CompletedBefore(h, i)
        BY <1>1, <3>2, Members
      <4>4. h[i].type = "recovery" => a \in AmbiguousBefore(h, i) /\ a \notin DecidedBefore(h, i)
        <5> SUFFICES ASSUME h[i].type = "recovery"
                     PROVE  a \in AmbiguousBefore(h, i) /\ a \notin DecidedBefore(h, i)
          OBVIOUS
        <5>1. i \in Told(h, a, "recovery")
          BY <1>1 DEF Told
        <5>2. h[c].completion = "ambiguous" /\ Told(h, a, "recovery") = {i} /\ c < i
          BY <3>1, <5>1
        <5>3. a \in AmbiguousBefore(h, i)
          BY <3>2, <5>2, Members
        <5>4. \A j \in 2..(i - 1) : ~(h[j].type = "recovery" /\ h[j].attempt = a)
          BY <1>1, <5>2 DEF Told
        <5> QED
          BY <5>3, <5>4, Members
      <4> QED
        BY <2>1, <2>3, <3>4, <4>2, <4>3, <4>4 DEF Fine, Filled
    <3> QED
      BY <3>3, <3>4
  <2> QED
    BY <2>2, <2>3
<1>6. TailFine(h)
  <2>1. n \in 2..n
    BY <1>1, <1>3, <1>4
  <2>2. Before(h, n + 1, "finalized") = {n}
    BY <1>1, <1>4, <2>1 DEF Before
  <2>3. h[n].disposition # Null /\ h[n].attempt = Null
    BY <1>1, <1>4 DEF Filled
  <2>4. h[n].disposition = "succeeded" => h[n].effect \in ObservedBefore(h, n + 1)
    <3> SUFFICES ASSUME h[n].disposition = "succeeded"
                 PROVE  \E i \in 2..((n + 1) - 1) : h[i].type = "effect" /\
                     h[i].effect = h[n].effect
      BY Members
    <3>1. PICK i \in 1..n : h[i].type = "effect" /\ h[i].effect = h[n].effect
      BY <1>4
    <3> QED
      BY <1>1, <1>3, <3>1
  <2>5. ASSUME NEW i \in 2..n, h[i].type \in {"started", "completion"}
        PROVE  /\ h[i].attempt \in StartedBefore(h, n + 1)
               /\ h[i].attempt \in CompletedBefore(h, n + 1)
               /\ h[i].type = "completion" /\ h[i].completion = "ambiguous" =>
                    h[i].attempt \in DecidedBefore(h, n + 1)
    <3> DEFINE a == h[i].attempt
    <3>1. a # Null
      BY <1>1, <1>4, <2>5 DEF Filled
    <3>2. PICK s, c \in 1..n :
            /\ s \in Told(h, a, "started") /\ Told(h, a, "completion") = {c}
            /\ h[c].completion = "ambiguous" => \E d \in 1..n : d \in Told(h, a, "recovery")
      <4>1. AttemptTold(h, a)
        BY <1>1, <1>4, <3>1
      <4> HIDE DEF a
      <4>2. PICK s, c \in 1..n :
              /\ Told(h, a, "started") = {s} /\ Told(h, a, "completion") = {c}
              /\ IF h[c].completion = "ambiguous"
                 THEN \E d \in 1..n : Told(h, a, "recovery") = {d} /\ c < d
                 ELSE Told(h, a, "recovery") = {}
        BY <1>1, <4>1 DEF AttemptTold
      <4>3. h[c].completion = "ambiguous" => \E d \in 1..n : d \in Told(h, a, "recovery")
        BY <4>2
      <4> QED
        BY <4>2, <4>3
    <3>3. \A j \in 1..n : h[j].attempt = a => j \in 2..((n + 1) - 1)
      BY <1>1, <1>3, <3>1
    <3>4. a \in StartedBefore(h, n + 1)
      BY <3>2, <3>3, Members DEF Told
    <3>5. a \in CompletedBefore(h, n + 1)
      <4>1. c \in Told(h, a, "completion")
        BY <3>2
      <4> QED
        BY <3>3, <4>1, Members DEF Told
    <3>6. ASSUME h[i].type = "completion", h[i].completion = "ambiguous"
          PROVE  a \in DecidedBefore(h, n + 1)
      <4>1. i \in Told(h, a, "completion")
        BY <1>1, <3>6 DEF Told
      <4>2. PICK d \in 1..n : d \in Told(h, a, "recovery")
        BY <3>2, <3>6, <4>1
      <4> QED
        BY <3>3, <4>2, Members DEF Told
    <3> QED
      BY <3>4, <3>5, <3>6
  <2>6. /\ \A x \in StartedBefore(h, n + 1) : x \in CompletedBefore(h, n + 1)
        /\ \A x \in CompletedBefore(h, n + 1) : x \in StartedBefore(h, n + 1)
        /\ \A x \in AmbiguousBefore(h, n + 1) : x \in DecidedBefore(h, n + 1)
    <3>1. \A j \in 2..((n + 1) - 1) : j \in 2..n
      BY <1>1
    <3> QED
      BY <2>5, <3>1, Members
  <2> QED
    BY <2>2, <2>3, <2>4, <2>6 DEF n, TailFine
<1> QED
  BY <1>2, <1>5, <1>6 DEF n

\* validate_history returns for the histories that meet the contract, and for no other.
THEOREM AcceptedContract ==
  ASSUME NEW h, IsHistory(h)
  PROVE  Accepted(h) <=> Contract(h)
BY AcceptedFine, FineContract, ContractFine

\* A prefix of an accepted history fails in the checks after the loop, and only there.
LEMMA PrefixRejected ==
  ASSUME NEW h, IsHistory(h), Accepted(h), NEW g, IsHistory(g),
         Len(g) > 0, Len(g) < Len(h), \A i \in 1..Len(g) : g[i] = h[i]
  PROVE  Rejection(g) \in Incomplete
<1> DEFINE n == Len(h)
           k == Len(g)
<1>1. n \in Nat /\ k \in Nat /\ 0 < k /\ k < n /\ DOMAIN h = 1..n /\ DOMAIN g = 1..k /\ g # <<>>
  BY DEF IsHistory
<1>2. HeadFine(h) /\ (\A i \in 2..n : Fine(h, i)) /\ TailFine(h)
  BY AcceptedFine
<1>3. \A i \in 1..k : g[i] = h[i]
  OBVIOUS
<1> HIDE DEF n, k
<1>4. HeadFine(g)
  <2>1. /\ \A i \in 1..k : i \in 1..n
        /\ 1 \in 1..k
    BY <1>1
  <2> QED
    BY <1>1, <1>2, <1>3, <2>1 DEF HeadFine
<1>5. ASSUME NEW i \in 2..k PROVE Fine(g, i)
  <2>1. i \in 2..n /\ g[i] = h[i] /\ \A j \in 2..(i - 1) : g[j] = h[j]
    BY <1>1, <1>3
  <2>2. ASSUME NEW x
        PROVE  /\ x \in StartedBefore(g, i) <=> x \in StartedBefore(h, i)
               /\ x \in CompletedBefore(g, i) <=> x \in CompletedBefore(h, i)
               /\ x \in AmbiguousBefore(g, i) <=> x \in AmbiguousBefore(h, i)
               /\ x \in DecidedBefore(g, i) <=> x \in DecidedBefore(h, i)
    <3> DEFINE J == 2..(i - 1)
    <3>1. \A j \in J : g[j] = h[j]
      BY <2>1
    <3>2. ASSUME NEW s
          PROVE
            /\ x \in StartedBefore(s, i) <=> \E j \in J : s[j].type = "started" /\ s[j].attempt = x
            /\ x \in CompletedBefore(s, i) <=>
                 \E j \in J : s[j].type = "completion" /\ s[j].attempt = x
            /\ x \in AmbiguousBefore(s, i) <=>
                 \E j \in J : /\ s[j].type = "completion" /\ s[j].attempt = x
                             /\ s[j].completion = "ambiguous"
            /\ x \in DecidedBefore(s, i) <=> \E j \in J : s[j].type = "recovery" /\ s[j].attempt = x
      BY Members
    <3> HIDE DEF J
    <3> QED
      BY <3>1, <3>2
  <2>3. Fine(h, i)
    BY <1>2, <2>1
  <2> QED
    BY <2>1, <2>2, <2>3 DEF Fine
<1>6. ~TailFine(g)
  <2>1. \A j \in 2..((n + 1) - 1) : h[j].type = "finalized" => j = n
    BY <1>2 DEF TailFine, Before, n
  <2>2. \A j \in 2..((k + 1) - 1) : g[j].type # "finalized"
    BY <1>1, <1>3, <2>1
  <2>3. k \notin Before(g, k + 1, "finalized")
    BY <2>2 DEF Before
  <2> QED
    BY <2>3 DEF TailFine, k
<1>7. HeadFault(g) = "none"
  BY <1>4, HeadFaultNone
<1>8. LoopFault(g) = "none"
  BY <1>1, <1>5, LoopFaultNone DEF k
<1>9. Rejection(g) = TailFault(g)
  BY <1>7, <1>8 DEF Rejection
<1> QED
  BY <1>6, <1>9, TailFaultNone
-----------------------------------------------------------------------------
(* The audit view *)

\* The events of one type.
Of(h, type) == {i \in DOMAIN h : h[i].type = type}

LEMMA EventsOf ==
  ASSUME NEW h, IsHistory(h), NEW type
  PROVE  Of(h, type) \in SUBSET Nat /\ IsFiniteSet(Of(h, type))
<1>1. Of(h, type) \in SUBSET (1..Len(h)) /\ Len(h) \in Nat
  BY DEF Of, IsHistory
<1>2. IsFiniteSet(1..Len(h))
  BY <1>1, FS_Interval
<1> QED
  BY <1>1, <1>2, FS_Subset

\* What is collected of them is in their order.
LEMMA CollectedInOrder ==
  ASSUME NEW h, IsHistory(h), NEW type, NEW field
  PROVE  /\ DOMAIN Collected(h, type, field) = 1..Cardinality(Of(h, type))
         /\ Cardinality(Of(h, type)) \in Nat
         /\ Collected(h, type, field) =
              [k \in 1..Cardinality(Of(h, type)) |-> h[InOrder(Of(h, type))[k]][field]]
<1>1. DOMAIN InOrder(Of(h, type)) = 1..Cardinality(Of(h, type)) /\ Cardinality(Of(h, type)) \in Nat
  BY EventsOf, Ordered
<1>2. Collected(h, type, field) =
        [k \in DOMAIN InOrder(Of(h, type)) |-> h[InOrder(Of(h, type))[k]][field]]
  BY DEF Collected, Selected, Of
<1> QED
  BY <1>1, <1>2

\* The stories of the contract, event by event.
LEMMA Stories ==
  ASSUME NEW h, IsHistory(h), Contract(h)
  PROVE  /\ \A type \in {"started", "completion", "recovery"} :
              \A i, j \in Of(h, type) : h[i].attempt = h[j].attempt => i = j
         /\ \A s \in Of(h, "started") : \E c \in Of(h, "completion") : h[c].attempt = h[s].attempt
         /\ \A c \in Of(h, "completion") :
              \E s \in Of(h, "started") : h[s].attempt = h[c].attempt /\ s < c
         /\ \A c \in Of(h, "completion") :
              h[c].completion = "ambiguous" =>
                \E d \in Of(h, "recovery") : h[d].attempt = h[c].attempt
         /\ \A d \in Of(h, "recovery") :
              \E c \in Of(h, "completion") : /\ h[c].attempt = h[d].attempt
                                             /\ h[c].completion = "ambiguous"
<1>1. ASSUME NEW type \in {"started", "completion", "recovery"}, NEW i \in Of(h, type)
      PROVE  AttemptTold(h, h[i].attempt) /\ i \in Told(h, h[i].attempt, type)
  <2>1. h[i].attempt # Null
    BY <1>1 DEF Contract, Filled, Of
  <2> QED
    BY <2>1 DEF Contract, Of, Told
<1>2. ASSUME NEW a, AttemptTold(h, a)
      PROVE  \E s, c \in DOMAIN h :
               /\ Told(h, a, "started") = {s} /\ Told(h, a, "completion") = {c} /\ s < c
               /\ h[c].completion = "ambiguous" => \E d \in DOMAIN h : Told(h, a, "recovery") = {d}
               /\ h[c].completion # "ambiguous" => Told(h, a, "recovery") = {}
  BY <1>2 DEF AttemptTold
<1>3. \A a, type : \A i \in Told(h, a, type) : i \in Of(h, type) /\ h[i].attempt = a
  BY DEF Told, Of
<1>4. ASSUME NEW type \in {"started", "completion", "recovery"}, NEW i \in Of(h, type),
             NEW j \in Of(h, type), h[i].attempt = h[j].attempt
      PROVE  i = j
  <2> DEFINE a == h[i].attempt
  <2>1. i \in Told(h, a, type) /\ j \in Told(h, a, type) /\ AttemptTold(h, a)
    BY <1>1, <1>4
  <2> HIDE DEF a
  <2> QED
    BY <1>2, <2>1
<1>5. ASSUME NEW s \in Of(h, "started")
      PROVE  \E c \in Of(h, "completion") : h[c].attempt = h[s].attempt
  BY <1>1, <1>2, <1>3
<1>6. ASSUME NEW c \in Of(h, "completion")
      PROVE  /\ \E s \in Of(h, "started") : h[s].attempt = h[c].attempt /\ s < c
             /\ h[c].completion = "ambiguous" =>
                  \E d \in Of(h, "recovery") : h[d].attempt = h[c].attempt
  <2> DEFINE a == h[c].attempt
  <2>1. c \in Told(h, a, "completion") /\ AttemptTold(h, a)
    BY <1>1
  <2> HIDE DEF a
  <2> QED
    BY <1>2, <1>3, <2>1 DEF a
<1>7. ASSUME NEW d \in Of(h, "recovery")
      PROVE  \E c \in Of(h, "completion") : /\ h[c].attempt = h[d].attempt
                                            /\ h[c].completion = "ambiguous"
  <2> DEFINE a == h[d].attempt
  <2>1. d \in Told(h, a, "recovery") /\ AttemptTold(h, a)
    BY <1>1
  <2> HIDE DEF a
  <2> QED
    BY <1>2, <1>3, <2>1 DEF a
<1> QED
  BY <1>4, <1>5, <1>6, <1>7

\* Two sets of events that tell of the same attempts, each once, are of one size.
LEMMA OneForOne ==
  ASSUME NEW h, NEW S, NEW T, IsFiniteSet(S), IsFiniteSet(T),
         \A i, j \in S : h[i].attempt = h[j].attempt => i = j,
         \A i, j \in T : h[i].attempt = h[j].attempt => i = j,
         \A i \in S : \E j \in T : h[i].attempt = h[j].attempt,
         \A j \in T : \E i \in S : h[i].attempt = h[j].attempt
  PROVE  Cardinality(S) = Cardinality(T)
<1> DEFINE f == [i \in S |-> CHOOSE j \in T : h[i].attempt = h[j].attempt]
<1>1. \A i \in S : f[i] \in T /\ h[i].attempt = h[f[i]].attempt
  OBVIOUS
<1>2. f \in [S -> T]
  BY <1>1
<1> HIDE DEF f
<1>3. \A i, j \in S : f[i] = f[j] => i = j
  BY <1>1
<1>4. \A j \in T : \E i \in S : f[i] = j
  BY <1>1
<1>5. f \in Bijection(S, T)
  BY <1>2, <1>3, <1>4 DEF Bijection, Injection, Surjection, IsInjective
<1> QED
  BY <1>5, FS_Bijection DEF ExistsBijection

\* How many attempts were started, how many completed, how many of them decided.
LEMMA Counts ==
  ASSUME NEW h, IsHistory(h), Contract(h)
  PROVE  /\ Cardinality(Of(h, "started")) = Cardinality(Of(h, "completion"))
         /\ Cardinality(Of(h, "recovery")) =
              Cardinality({c \in Of(h, "completion") : h[c].completion = "ambiguous"})
<1> DEFINE S == Of(h, "started")
           C == Of(h, "completion")
           D == Of(h, "recovery")
           A == {c \in C : h[c].completion = "ambiguous"}
<1>1. IsFiniteSet(S) /\ IsFiniteSet(C) /\ IsFiniteSet(D) /\ IsFiniteSet(A)
  BY EventsOf, FS_Subset
<1>2. /\ \A i, j \in S : h[i].attempt = h[j].attempt => i = j
      /\ \A i, j \in C : h[i].attempt = h[j].attempt => i = j
      /\ \A i, j \in D : h[i].attempt = h[j].attempt => i = j
      /\ \A i \in S : \E j \in C : h[i].attempt = h[j].attempt
      /\ \A j \in C : \E i \in S : h[i].attempt = h[j].attempt
      /\ \A i \in D : \E j \in C : h[i].attempt = h[j].attempt /\ h[j].completion = "ambiguous"
      /\ \A j \in C : h[j].completion = "ambiguous" => \E i \in D : h[i].attempt = h[j].attempt
  BY Stories
<1> HIDE DEF S, C, D
<1>3. Cardinality(S) = Cardinality(C)
  BY <1>1, <1>2, OneForOne
<1>4. /\ \A i, j \in A : h[i].attempt = h[j].attempt => i = j
      /\ \A i \in D : \E j \in A : h[i].attempt = h[j].attempt
      /\ \A j \in A : \E i \in D : h[i].attempt = h[j].attempt
  BY <1>2
<1> HIDE DEF A
<1>5. Cardinality(D) = Cardinality(A)
  BY <1>1, <1>2, <1>4, OneForOne
<1> QED
  BY <1>3, <1>5 DEF S, C, D, A

\* In a sequential history as many attempts were started up to a start as are
\* completed up to its completion.
LEMMA InTurn ==
  ASSUME NEW h, IsHistory(h), Contract(h), Sequential(h),
         NEW s \in Of(h, "started"), NEW c \in Of(h, "completion"), h[s].attempt = h[c].attempt
  PROVE  Rank(Of(h, "started"), s) = Rank(Of(h, "completion"), c)
<1> DEFINE S == Of(h, "started")
           C == Of(h, "completion")
           Early == {i \in S : i <= s}
           Done == {j \in C : j <= c}
<1>1. /\ S \in SUBSET Nat /\ C \in SUBSET Nat
      /\ \A i \in S \cup C : i \in 2..Len(h) /\ i \in DOMAIN h
  <2>1. h[1].type = "registered"
    BY DEF Contract, Bare
  <2> QED
    BY <2>1, EventsOf DEF Of, IsHistory
<1>2. IsFiniteSet(Early) /\ IsFiniteSet(Done)
  BY EventsOf, FS_Subset
<1>3. /\ \A i, j \in S : h[i].attempt = h[j].attempt => i = j
      /\ \A i, j \in C : h[i].attempt = h[j].attempt => i = j
      /\ \A i \in C : \E j \in S : h[j].attempt = h[i].attempt /\ j < i
  BY Stories
<1>4. ASSUME NEW t \in S, NEW x
      PROVE  (\E j \in S : j < t /\ h[j].attempt = x) <=> (\E j \in C : j < t /\ h[j].attempt = x)
  <2>1. StartedBefore(h, t) = CompletedBefore(h, t)
    BY <1>1 DEF Sequential, Of
  <2>2. x \in StartedBefore(h, t) <=> \E j \in S : j < t /\ h[j].attempt = x
    <3>1. \A j : j \in 2..(t - 1) /\ h[j].type = "started" <=> j \in S /\ j < t
      BY <1>1 DEF Of, IsHistory
    <3> QED
      BY <3>1, Members
  <2>3. x \in CompletedBefore(h, t) <=> \E j \in C : j < t /\ h[j].attempt = x
    <3>1. \A j : j \in 2..(t - 1) /\ h[j].type = "completion" <=> j \in C /\ j < t
      BY <1>1 DEF Of, IsHistory
    <3> QED
      BY <3>1, Members
  <2> QED
    BY <2>1, <2>2, <2>3
<1> HIDE DEF S, C
<1>5. s \in S /\ c \in C /\ s < c
  BY <1>1, <1>3 DEF S, C
<1>6. ASSUME NEW i \in Early PROVE \E j \in Done : h[i].attempt = h[j].attempt
  <2>1. CASE i = s
    BY <1>1, <1>5, <2>1
  <2>2. CASE i < s
    <3>1. PICK j \in C : j < s /\ h[j].attempt = h[i].attempt
      BY <1>4, <1>5, <2>2
    <3> QED
      BY <1>1, <1>5, <3>1
  <2> QED
    BY <1>1, <1>5, <2>1, <2>2
<1>7. ASSUME NEW j \in Done PROVE \E i \in Early : h[i].attempt = h[j].attempt
  <2>1. CASE j = c
    BY <1>1, <1>5, <2>1
  <2>2. CASE j < c
    <3>1. PICK t \in S : h[t].attempt = h[j].attempt /\ t < j
      BY <1>3
    <3>2. ASSUME s < t PROVE FALSE
      <4>1. PICK k \in C : k < t /\ h[k].attempt = h[s].attempt
        BY <1>4, <1>5, <3>2
      <4>2. k = c
        BY <1>3, <1>5, <4>1
      <4> QED
        BY <1>1, <1>5, <2>2, <3>1, <4>1, <4>2
    <3> QED
      BY <1>1, <1>5, <3>1, <3>2
  <2> QED
    BY <1>1, <1>5, <2>1, <2>2
<1>8. /\ \A i, j \in Early : h[i].attempt = h[j].attempt => i = j
      /\ \A i, j \in Done : h[i].attempt = h[j].attempt => i = j
  BY <1>3
<1> HIDE DEF Early, Done
<1>9. Cardinality(Early) = Cardinality(Done)
  BY <1>2, <1>6, <1>7, <1>8, OneForOne
<1> QED
  BY <1>9 DEF Early, Done, S, C, Rank

\* What the audit view says of the attempts of an accepted history.
Tells(h, view) ==
  /\ IsInjective(view.attempts)
  /\ Len(view.attempts) = Len(view.completions)
  /\ Len(view.decisions) =
       Cardinality({k \in DOMAIN view.completions : view.completions[k] = "ambiguous"})
  /\ Sequential(h) =>
       \A i \in DOMAIN h : h[i].type = "completion" =>
         \E k \in DOMAIN view.attempts : /\ view.attempts[k] = h[i].attempt
                                         /\ view.completions[k] = h[i].completion

LEMMA ViewTells ==
  ASSUME NEW h, IsHistory(h), Contract(h), NEW view, view = AuditView(h)
  PROVE  Tells(h, view)
<1> DEFINE S == Of(h, "started")
           C == Of(h, "completion")
           D == Of(h, "recovery")
           A == {c \in C : h[c].completion = "ambiguous"}
           K == {k \in 1..Cardinality(C) : h[InOrder(C)[k]].completion = "ambiguous"}
<1>1. /\ view.attempts = [k \in 1..Cardinality(S) |-> h[InOrder(S)[k]].attempt]
      /\ view.completions = [k \in 1..Cardinality(C) |-> h[InOrder(C)[k]].completion]
      /\ view.decisions = [k \in 1..Cardinality(D) |-> h[InOrder(D)[k]].decision]
  <2>1. /\ view.attempts = Collected(h, "started", "attempt")
        /\ view.completions = Collected(h, "completion", "completion")
        /\ view.decisions = Collected(h, "recovery", "decision")
    BY DEF AuditView
  <2>2. Collected(h, "started", "attempt") =
          [k \in 1..Cardinality(S) |-> h[InOrder(S)[k]].attempt]
    BY CollectedInOrder
  <2>3. Collected(h, "completion", "completion") =
          [k \in 1..Cardinality(C) |-> h[InOrder(C)[k]].completion]
    BY CollectedInOrder
  <2>4. Collected(h, "recovery", "decision") =
          [k \in 1..Cardinality(D) |-> h[InOrder(D)[k]].decision]
    BY CollectedInOrder
  <2> QED
    BY <2>1, <2>2, <2>3, <2>4
<1>2. /\ Cardinality(S) \in Nat /\ Cardinality(C) \in Nat /\ Cardinality(D) \in Nat
      /\ Cardinality(S) = Cardinality(C) /\ Cardinality(D) = Cardinality(A)
  BY CollectedInOrder, Counts
<1>3. /\ S \in SUBSET Nat /\ IsFiniteSet(S)
      /\ C \in SUBSET Nat /\ IsFiniteSet(C)
  BY EventsOf
<1>4. /\ \A k \in 1..Cardinality(S) : InOrder(S)[k] \in S /\ Rank(S, InOrder(S)[k]) = k
      /\ \A n \in S : Rank(S, n) \in 1..Cardinality(S) /\ InOrder(S)[Rank(S, n)] = n
      /\ \A k \in 1..Cardinality(C) : InOrder(C)[k] \in C /\ Rank(C, InOrder(C)[k]) = k
      /\ \A n \in C : Rank(C, n) \in 1..Cardinality(C) /\ InOrder(C)[Rank(C, n)] = n
  <2> HIDE DEF S, C
  <2> QED
    BY <1>3, Ordered
<1>5. IsInjective(view.attempts)
  <2>1. \A i, j \in S : h[i].attempt = h[j].attempt => i = j
    BY Stories
  <2> HIDE DEF S
  <2>2. \A k, l \in 1..Cardinality(S) :
          h[InOrder(S)[k]].attempt = h[InOrder(S)[l]].attempt => k = l
    BY <1>4, <2>1
  <2> QED
    BY <1>1, <2>2 DEF IsInjective
<1>6. Len(view.attempts) = Cardinality(S) /\ Len(view.completions) = Cardinality(C)
      /\ Len(view.decisions) = Cardinality(D)
  <2> HIDE DEF S, C, D, A
  <2> QED
    BY <1>1, <1>2
<1>7. Cardinality(K) = Cardinality(A)
  <2> DEFINE f == [k \in K |-> InOrder(C)[k]]
  <2>1. IsFiniteSet(K)
    <3>1. IsFiniteSet(1..Cardinality(C))
      BY <1>2, FS_Interval
    <3> HIDE DEF C
    <3> QED
      BY <3>1, FS_Subset
  <2> HIDE DEF C
  <2>2. f \in [K -> A]
    BY <1>4
  <2>3. \A k, l \in K : f[k] = f[l] => k = l
    BY <1>4
  <2>4. \A c \in A : \E k \in K : f[k] = c
    BY <1>4
  <2> HIDE DEF f, K, A
  <2>5. f \in Bijection(K, A)
    BY <2>2, <2>3, <2>4 DEF Bijection, Injection, Surjection, IsInjective
  <2> QED
    BY <2>1, <2>5, FS_Bijection DEF ExistsBijection
<1>8. {k \in DOMAIN view.completions : view.completions[k] = "ambiguous"} = K
  <2> HIDE DEF C
  <2> QED
    BY <1>1
<1>9. ASSUME Sequential(h), NEW c \in C
      PROVE  \E k \in DOMAIN view.attempts : /\ view.attempts[k] = h[c].attempt
                                             /\ view.completions[k] = h[c].completion
  <2>1. PICK s \in S : h[s].attempt = h[c].attempt
    BY Stories
  <2>2. Rank(S, s) = Rank(C, c)
    BY <1>9, <2>1, InTurn
  <2> HIDE DEF S, C
  <2> QED
    BY <1>1, <1>2, <1>4, <2>1, <2>2
<1>10. \A i \in DOMAIN h : h[i].type = "completion" => i \in C
  BY DEF Of
<1> HIDE DEF S, C, D, A, K
<1> QED
  BY <1>2, <1>5, <1>6, <1>7, <1>8, <1>9, <1>10 DEF Tells

\* What is collected of none, of one and of two events.
LEMMA CollectedFew ==
  ASSUME NEW h, IsHistory(h), NEW type, NEW field
  PROVE  /\ Of(h, type) = {} => Collected(h, type, field) = <<>>
         /\ \A x : Of(h, type) = {x} => Collected(h, type, field) = <<h[x][field]>>
         /\ \A x, y \in Nat : x < y /\ Of(h, type) = {x, y} =>
              Collected(h, type, field) = <<h[x][field], h[y][field]>>
<1> DEFINE S == Of(h, type)
           N == Cardinality(S)
<1>1. Collected(h, type, field) = [k \in 1..N |-> h[InOrder(S)[k]][field]]
  BY CollectedInOrder
<1>2. S \in SUBSET Nat /\ IsFiniteSet(S)
  BY EventsOf
<1> HIDE DEF S
<1>3. /\ \A n \in S : Rank(S, n) \in 1..N /\ InOrder(S)[Rank(S, n)] = n
      /\ \A n, m \in S : n < m <=> Rank(S, n) < Rank(S, m)
  BY <1>2, Ordered, Ranks
<1>4. ASSUME S = {} PROVE Collected(h, type, field) = <<>>
  <2>1. N = 0
    BY <1>4, FS_EmptySet
  <2> QED
    BY <1>1, <2>1
<1>5. ASSUME NEW x, S = {x} PROVE Collected(h, type, field) = <<h[x][field]>>
  <2>1. N = 1
    BY <1>5, FS_Singleton
  <2>2. InOrder(S)[1] = x
    BY <1>3, <1>5, <2>1
  <2> HIDE DEF N
  <2> QED
    BY <1>1, <2>1, <2>2
<1>6. ASSUME NEW x \in Nat, NEW y \in Nat, x < y, S = {x, y}
      PROVE  Collected(h, type, field) = <<h[x][field], h[y][field]>>
  <2>1. N = 2
    <3>1. IsFiniteSet({x}) /\ Cardinality({x}) = 1
      BY FS_Singleton
    <3>2. y \notin {x} /\ S = {x} \cup {y}
      BY <1>6
    <3>3. Cardinality({x} \cup {y}) = Cardinality({x}) + 1
      BY <3>1, <3>2, FS_AddElement
    <3> QED
      BY <3>1, <3>2, <3>3
  <2> HIDE DEF N
  <2>2. Rank(S, x) = 1 /\ Rank(S, y) = 2
    BY <1>3, <1>6, <2>1
  <2>3. InOrder(S)[1] = x /\ InOrder(S)[2] = y
    BY <1>3, <1>6, <2>2
  <2> QED
    BY <1>1, <2>1, <2>3
<1> QED
  BY <1>4, <1>5, <1>6 DEF S
-----------------------------------------------------------------------------
(* The journal *)

\* The table holds finitely many rows.
LEMMA JournalFinite == Spec => []IsFiniteSet(DOMAIN rows)
<1>1. Init => IsFiniteSet(DOMAIN rows)
  <2> SUFFICES ASSUME Init PROVE DOMAIN rows = {}
    BY FS_EmptySet
  <2> QED
    BY DEF Init
<1>2. IsFiniteSet(DOMAIN rows) /\ [Next]_jvars => IsFiniteSet(DOMAIN rows)'
  <2> SUFFICES ASSUME IsFiniteSet(DOMAIN rows), [Next]_jvars PROVE IsFiniteSet(DOMAIN rows')
    OBVIOUS
  <2>1. ASSUME NEW event, AppendNew(event) PROVE IsFiniteSet(DOMAIN rows')
    <3>1. DOMAIN rows' = DOMAIN rows \cup {event.sequence}
      BY <2>1 DEF AppendNew
    <3> QED
      BY <3>1, FS_AddElement
  <2>2. CASE UNCHANGED jvars
    BY <2>2 DEF jvars
  <2> QED
    BY <2>1, <2>2 DEF Next, AppendTaken
<1> QED
  BY <1>1, <1>2, PTL DEF Spec

\* What is read has an event at each position, and so has each of its prefixes.
LEMMA ReadIsHistory ==
  ASSUME IsFiniteSet(DOMAIN rows)
  PROVE  /\ IsHistory(Read)
         /\ \A k \in 1..(Len(Read) - 1) :
              /\ IsHistory(SubSeq(Read, 1, k)) /\ Len(SubSeq(Read, 1, k)) = k
              /\ \A i \in 1..k : SubSeq(Read, 1, k)[i] = Read[i]
<1> DEFINE n == Cardinality(DOMAIN rows)
           Row(i) == rows[InOrder(DOMAIN rows)[i]]
           S == {Row(i) : i \in 1..n}
<1>1. n \in Nat
  BY FS_CardinalityType
<1>2. Read = [i \in 1..n |-> Row(i)]
  BY DEF Read
<1>3. \A i \in 1..n : Row(i) \in S
  OBVIOUS
<1> HIDE DEF n, Row, S
<1>4. Read \in Seq(S) /\ Len(Read) = n
  BY <1>1, <1>2, <1>3
<1>5. ASSUME NEW s \in Seq(S) PROVE IsHistory(s)
  BY <1>5, EmptySeq DEF IsHistory
<1>6. ASSUME NEW k \in 1..(n - 1)
      PROVE  /\ SubSeq(Read, 1, k) \in Seq(S) /\ Len(SubSeq(Read, 1, k)) = k
             /\ \A i \in 1..k : SubSeq(Read, 1, k)[i] = Read[i]
  BY <1>1, <1>4, SubSeqProperties
<1> QED
  BY <1>4, <1>5, <1>6

\* validate_history accepts exactly the histories in which every attempt's own events
\* tell a whole story under one identity, whatever was appended in whatever order.
THEOREM JournalAcceptance == Spec => []AcceptanceMeetsContract
<1>1. IsFiniteSet(DOMAIN rows) => AcceptanceMeetsContract
  BY ReadIsHistory, AcceptedContract DEF AcceptanceMeetsContract
<1> QED
  BY <1>1, JournalFinite, PTL

\* Every prefix of a history that is accepted is refused, and only as incomplete.
THEOREM JournalPrefixes == Spec => []PrefixesIncomplete
<1>1. IsFiniteSet(DOMAIN rows) => PrefixesIncomplete
  <2> SUFFICES ASSUME IsFiniteSet(DOMAIN rows), Accepted(Read), NEW k \in 1..(Len(Read) - 1)
               PROVE  Rejection(SubSeq(Read, 1, k)) \in Incomplete
    BY DEF PrefixesIncomplete
  <2> DEFINE g == SubSeq(Read, 1, k)
  <2>1. /\ IsHistory(Read) /\ IsHistory(g) /\ Len(g) = k
        /\ \A i \in 1..k : g[i] = Read[i]
    BY ReadIsHistory
  <2>2. Len(g) > 0 /\ Len(g) < Len(Read)
    BY <2>1 DEF IsHistory
  <2> HIDE DEF g
  <2> QED
    BY <2>1, <2>2, PrefixRejected DEF g
<1> QED
  BY <1>1, JournalFinite, PTL

\* The audit view of an accepted journal tells how many completions were ambiguous and
\* that each was decided, and lines completions up with attempts that did not overlap.
THEOREM JournalAudit == Spec => []AuditTellsRecovery
<1>1. IsFiniteSet(DOMAIN rows) => AuditTellsRecovery
  <2> SUFFICES ASSUME IsFiniteSet(DOMAIN rows), Accepted(Read)
               PROVE  Tells(Read, AuditView(Read))
    BY DEF AuditTellsRecovery, Tells
  <2>1. IsHistory(Read) /\ Contract(Read)
    BY ReadIsHistory, AcceptedContract
  <2> QED
    BY <2>1, ViewTells
<1> QED
  BY <1>1, JournalFinite, PTL
-----------------------------------------------------------------------------
(* The recorders *)

Size(r) == Len(HistoryOf(r))

RTypeOK ==
  /\ position \in [Recorders -> Nat \ {0}]
  /\ state \in [Recorders -> {"recording", "recorded", "raised", "crashed"}]
  /\ crashes \in [Recorders -> Nat]

\* Nobody has appended yet.
Fresh ==
  /\ DOMAIN rows = {} /\ DOMAIN author = {}
  /\ \A r \in Recorders : /\ state[r] = "recording" => position[r] = 1
                          /\ state[r] # "recorded"

\* The journal has the first k events of owner's history, all of its run number
\* run; only that run, while it lives, has more to append, and all others begin.
Owned(k, owner, run) ==
  /\ k <= Size(owner)
  /\ DOMAIN rows = 1..k /\ DOMAIN author = 1..k
  /\ \A n \in 1..k : author[n] = <<owner, run>> /\ rows[n] = HistoryOf(owner)[n]
  /\ crashes[owner] >= run
  /\ crashes[owner] = run =>
       /\ position[owner] = k + 1
       /\ state[owner] = IF k = Size(owner) THEN "recorded" ELSE "recording"
  /\ k = Size(owner) => crashes[owner] = run
  /\ \A r \in Recorders :
       r # owner \/ crashes[r] # run => /\ state[r] = "recording" => position[r] = 1
                                       /\ state[r] # "recorded"

OwnerInv ==
  Fresh \/ \E k \in Nat \ {0}, owner \in Recorders, run \in Nat : Owned(k, owner, run)

\* What was audited is all its owner had to record.
AuditInv ==
  audit # Null =>
    /\ \E owner \in Recorders, run \in Nat : Owned(Size(owner), owner, run)
    /\ audit = AuditView(Read)

IInv == RTypeOK /\ OwnerInv /\ AuditInv
-----------------------------------------------------------------------------
(* The histories and the journal *)

\* What the loop relies on in a history: the sequences count its events, and only
\* its last event is a finalization.
WellNumbered(h) ==
  /\ Len(h) \in Nat /\ Len(h) > 1
  /\ h = [i \in 1..Len(h) |-> h[i]]
  /\ \A i \in 1..Len(h) : /\ h[i].sequence = i
                          /\ h[i].type = "finalized" <=> i = Len(h)

\* Each kind of event keeps the sequence and the type it is made with.
LEMMA EventFields ==
  ASSUME NEW n, NEW o, NEW t, NEW a, NEW m, NEW c, NEW d, NEW e
  PROVE  /\ Bare(n, "registered", o, t).sequence = n
         /\ Bare(n, "registered", o, t).type = "registered"
         /\ Started(n, o, t, a, m).sequence = n /\ Started(n, o, t, a, m).type = "started"
         /\ Seen(n, o, t, a, e).sequence = n /\ Seen(n, o, t, a, e).type = "effect"
         /\ Completed(n, o, t, a, c).sequence = n /\ Completed(n, o, t, a, c).type = "completion"
         /\ Decided(n, o, t, a, d).sequence = n /\ Decided(n, o, t, a, d).type = "recovery"
         /\ Finalized(n, o, t, d, e).sequence = n /\ Finalized(n, o, t, d, e).type = "finalized"
BY DEF Bare, Started, Seen, Completed, Decided, Finalized

\* The two histories of run_experiment.
LEMMA DirectNumbered ==
  ASSUME NEW o, NEW t, NEW a, NEW m, NEW e
  PROVE  /\ WellNumbered(DirectSuccess(o, t, a, m, e))
         /\ DirectSuccess(o, t, a, m, e)[5] = Finalized(5, o, t, "succeeded", e)
         /\ Len(DirectSuccess(o, t, a, m, e)) = 5
<1> DEFINE h == DirectSuccess(o, t, a, m, e)
<1>1. Len(h) = 5 /\ h = [i \in 1..5 |-> h[i]] /\ h[5] = Finalized(5, o, t, "succeeded", e)
  BY DEF DirectSuccess
<1>2. \A i \in 1..5 : h[i].sequence = i /\ (h[i].type = "finalized" <=> i = 5)
  BY EventFields DEF DirectSuccess
<1> QED
  BY <1>1, <1>2 DEF WellNumbered

LEMMA RecoveredNumbered ==
  ASSUME NEW o, NEW t, NEW a, NEW b, NEW m, NEW w, NEW e
  PROVE  /\ WellNumbered(Recovered(o, t, a, b, m, w, e))
         /\ Recovered(o, t, a, b, m, w, e)[9] = Finalized(9, o, t, "succeeded", e)
         /\ Len(Recovered(o, t, a, b, m, w, e)) = 9
<1> DEFINE h == Recovered(o, t, a, b, m, w, e)
<1>1. Len(h) = 9 /\ h = [i \in 1..9 |-> h[i]] /\ h[9] = Finalized(9, o, t, "succeeded", e)
  BY DEF Recovered
<1>2. \A i \in 1..4 : h[i].sequence = i /\ h[i].type # "finalized"
  BY EventFields DEF Recovered
<1>3. \A i \in 5..8 : h[i].sequence = i /\ h[i].type # "finalized"
  <2>1. /\ h[5] = Decided(5, o, t, a, "retry") /\ h[6] = Started(6, o, t, b, w)
        /\ h[7] = Seen(7, o, t, b, e) /\ h[8] = Completed(8, o, t, b, "recorded")
    BY DEF Recovered
  <2> HIDE DEF h
  <2> QED
    BY <2>1, EventFields
<1>4. h[9].sequence = 9 /\ h[9].type = "finalized"
  BY EventFields DEF Recovered
<1> HIDE DEF h
<1>5. WellNumbered(h)
  BY <1>1, <1>2, <1>3, <1>4 DEF WellNumbered
<1> QED
  BY <1>1, <1>5 DEF h

\* What the audit view says of each of them.
LEMMA DirectAudit ==
  ASSUME NEW o, NEW t, NEW a, NEW m, NEW e, NEW h, h = DirectSuccess(o, t, a, m, e)
  PROVE  /\ AuditView(h).attempts = <<a>> /\ AuditView(h).mechanisms = <<m>>
         /\ AuditView(h).decisions = <<>>
         /\ \A i \in DOMAIN h : h[i].completion # "ambiguous"
<1>1. /\ IsHistory(h) /\ DOMAIN h = 1..5
      /\ h[1] = Bare(1, "registered", o, t) /\ h[2] = Started(2, o, t, a, m)
      /\ h[3] = Seen(3, o, t, a, e) /\ h[4] = Completed(4, o, t, a, "recorded")
      /\ h[5] = Finalized(5, o, t, "succeeded", e)
  BY DEF DirectSuccess, IsHistory
<1>2. /\ h[1].type = "registered" /\ h[2].type = "started" /\ h[3].type = "effect"
      /\ h[4].type = "completion" /\ h[5].type = "finalized"
      /\ h[2]["attempt"] = a /\ h[2]["mechanism"] = m
  BY <1>1 DEF Bare, Started, Seen, Completed, Finalized
<1>3. /\ h[1].completion = Null /\ h[2].completion = Null /\ h[3].completion = Null
      /\ h[4].completion = "recorded" /\ h[5].completion = Null /\ Null # "ambiguous"
  BY <1>1, NullAssumption DEF Bare, Started, Seen, Completed, Finalized, CompletionClass
<1> HIDE DEF DirectSuccess
<1>4. Of(h, "started") = {2} /\ Of(h, "recovery") = {}
  BY <1>1, <1>2 DEF Of
<1> QED
  BY <1>1, <1>2, <1>3, <1>4, CollectedFew DEF AuditView

LEMMA RecoveredAudit ==
  ASSUME NEW o, NEW t, NEW a, NEW b, NEW m, NEW w, NEW e,
         NEW h, h = Recovered(o, t, a, b, m, w, e)
  PROVE  /\ AuditView(h).attempts = <<a, b>> /\ AuditView(h).mechanisms = <<m, w>>
         /\ AuditView(h).decisions # <<>>
         /\ \E i \in DOMAIN h : h[i].completion = "ambiguous"
<1>1. /\ IsHistory(h) /\ DOMAIN h = 1..9
      /\ h[1] = Bare(1, "registered", o, t) /\ h[2] = Started(2, o, t, a, m)
      /\ h[3] = Seen(3, o, t, a, e) /\ h[4] = Completed(4, o, t, a, "ambiguous")
      /\ h[5] = Decided(5, o, t, a, "retry") /\ h[6] = Started(6, o, t, b, w)
      /\ h[7] = Seen(7, o, t, b, e) /\ h[8] = Completed(8, o, t, b, "recorded")
      /\ h[9] = Finalized(9, o, t, "succeeded", e)
  BY DEF Recovered, IsHistory
<1>2. /\ h[1].type = "registered" /\ h[2].type = "started" /\ h[3].type = "effect"
      /\ h[4].type = "completion" /\ h[5].type = "recovery"
      /\ h[2]["attempt"] = a /\ h[2]["mechanism"] = m /\ h[4].completion = "ambiguous"
  BY <1>1 DEF Bare, Started, Seen, Completed, Decided
<1>3. /\ h[6].type = "started" /\ h[7].type = "effect"
      /\ h[8].type = "completion" /\ h[9].type = "finalized"
      /\ h[6]["attempt"] = b /\ h[6]["mechanism"] = w
  BY <1>1 DEF Bare, Started, Seen, Completed, Finalized
<1>4. Of(h, "started") = {2, 6} /\ Of(h, "recovery") = {5}
  BY <1>1, <1>2, <1>3 DEF Of
<1>5. ASSUME NEW field
      PROVE  /\ Collected(h, "started", field) = <<h[2][field], h[6][field]>>
             /\ Collected(h, "recovery", field) = <<h[5][field]>>
  <2>1. Collected(h, "started", field) = <<h[2][field], h[6][field]>>
    BY <1>1, <1>4, CollectedFew
  <2>2. Collected(h, "recovery", field) = <<h[5][field]>>
    BY <1>1, <1>4, CollectedFew
  <2> QED
    BY <2>1, <2>2
<1>6. /\ AuditView(h).attempts = Collected(h, "started", "attempt")
      /\ AuditView(h).mechanisms = Collected(h, "started", "mechanism")
      /\ AuditView(h).decisions = Collected(h, "recovery", "decision")
  BY DEF AuditView
<1>7. AuditView(h).decisions # <<>>
  BY <1>5, <1>6
<1> QED
  BY <1>1, <1>2, <1>3, <1>5, <1>6, <1>7

\* Two recorders with the same audit view have the same history.
LEMMA AuditTellsHistory ==
  ASSUME NEW r \in Recorders, NEW q \in Recorders,
         AuditView(HistoryOf(r)) = AuditView(HistoryOf(q))
  PROVE  HistoryOf(r) = HistoryOf(q)
<1>1. PICK o \in Operations, t \in Intents, e \in Effects :
        \A p \in Recorders : \E a, b \in Attempts, m, w \in Mechanisms :
          HistoryOf(p) \in {DirectSuccess(o, t, a, m, e), Recovered(o, t, a, b, m, w, e)}
  BY HistoriesAssumption
<1>2. PICK a, b \in Attempts, m, w \in Mechanisms :
        HistoryOf(r) \in {DirectSuccess(o, t, a, m, e), Recovered(o, t, a, b, m, w, e)}
  BY <1>1
<1>3. PICK c, d \in Attempts, n, v \in Mechanisms :
        HistoryOf(q) \in {DirectSuccess(o, t, c, n, e), Recovered(o, t, c, d, n, v, e)}
  BY <1>1
<1> DEFINE V == AuditView(HistoryOf(r))
<1>4. \/ /\ HistoryOf(r) = DirectSuccess(o, t, a, m, e)
         /\ V.attempts = <<a>> /\ V.mechanisms = <<m>>
      \/ /\ HistoryOf(r) = Recovered(o, t, a, b, m, w, e)
         /\ V.attempts = <<a, b>> /\ V.mechanisms = <<m, w>>
  BY <1>2, DirectAudit, RecoveredAudit
<1>5. \/ /\ HistoryOf(q) = DirectSuccess(o, t, c, n, e)
         /\ V.attempts = <<c>> /\ V.mechanisms = <<n>>
      \/ /\ HistoryOf(q) = Recovered(o, t, c, d, n, v, e)
         /\ V.attempts = <<c, d>> /\ V.mechanisms = <<n, v>>
  BY <1>3, DirectAudit, RecoveredAudit
<1> HIDE DEF V
<1> QED
  BY <1>4, <1>5

\* Whatever history a recorder has.
LEMMA HistoriesNumbered ==
  ASSUME NEW r \in Recorders
  PROVE  WellNumbered(HistoryOf(r))
BY HistoriesAssumption, DirectNumbered, RecoveredNumbered

\* The final event that the summary is taken from is the last.
LEMMA FinalOf ==
  ASSUME NEW h, WellNumbered(h)
  PROVE  Max({i \in DOMAIN h : h[i].type = "finalized"}) = Len(h)
<1>1. {i \in DOMAIN h : h[i].type = "finalized"} = {Len(h)}
  BY DEF WellNumbered
<1> QED
  BY <1>1 DEF Max, WellNumbered

\* All the histories end alike.
LEMMA SameSummary ==
  ASSUME NEW r \in Recorders, NEW s \in Recorders
  PROVE  FinalSummary(HistoryOf(r)) = FinalSummary(HistoryOf(s))
<1>1. PICK o \in Operations, t \in Intents, e \in Effects :
        \A q \in Recorders : \E a, b \in Attempts, m, w \in Mechanisms :
          HistoryOf(q) \in {DirectSuccess(o, t, a, m, e), Recovered(o, t, a, b, m, w, e)}
  BY HistoriesAssumption
<1>2. ASSUME NEW q \in Recorders
      PROVE  /\ HistoryOf(q)[Len(HistoryOf(q))].operation = o
             /\ HistoryOf(q)[Len(HistoryOf(q))].disposition = "succeeded"
             /\ HistoryOf(q)[Len(HistoryOf(q))].effect = e
  <2>1. \E n \in Nat : HistoryOf(q)[Len(HistoryOf(q))] = Finalized(n, o, t, "succeeded", e)
    BY <1>1, DirectNumbered, RecoveredNumbered
  <2> QED
    BY <2>1 DEF Finalized, Bare
<1>3. ASSUME NEW q \in Recorders
      PROVE  FinalSummary(HistoryOf(q)) =
               [operation |-> o, disposition |-> "succeeded", effect |-> e]
  BY <1>2, HistoriesNumbered, FinalOf DEF FinalSummary
<1> QED
  BY <1>3

\* Without holes the journal is read as it is.
LEMMA ReadWhole ==
  ASSUME NEW k \in Nat, DOMAIN rows = 1..k
  PROVE  Cardinality(DOMAIN rows) = k /\ Read = [i \in 1..k |-> rows[i]]
<1> DEFINE S == DOMAIN rows
<1>1. \A n \in Nat : IsFiniteSet(1..n) /\ Cardinality(1..n) = n
  BY FS_Interval
<1>2. S \in SUBSET Nat /\ IsFiniteSet(S) /\ Cardinality(S) = k
  BY <1>1
<1>3. ASSUME NEW n \in 1..k PROVE Rank(S, n) = n
  <2>1. {m \in S : m <= n} = 1..n
    OBVIOUS
  <2>2. Rank(S, n) = Cardinality(1..n)
    BY ONLY <2>1 DEF Rank
  <2>3. n \in Nat
    OBVIOUS
  <2> QED
    BY <1>1, <2>2, <2>3
<1>4. ASSUME NEW i \in 1..k PROVE InOrder(S)[i] = i
  <2>1. S = 1..k
    OBVIOUS
  <2> HIDE DEF S
  <2> QED
    BY <1>2, <1>3, <2>1, Ordered
<1> QED
  BY <1>2, <1>4 DEF Read

\* A history is not accepted before its finalization: neither an empty one ...
LEMMA EmptyRefused == ~Accepted(<<>>)
BY DEF Accepted, Rejection, HeadFault

\* ... nor any other prefix.
LEMMA EarlierRefused ==
  ASSUME NEW h, WellNumbered(h), NEW k \in Nat \ {0}, k < Len(h),
         NEW g, g = [i \in 1..k |-> h[i]]
  PROVE  ~Accepted(g)
<1>1. DOMAIN g = 1..k /\ Len(g) = k /\ \A i \in 1..k : g[i] = h[i]
  OBVIOUS
<1>2. Before(g, Len(g) + 1, "finalized") # {Len(g)}
  BY <1>1 DEF Before, WellNumbered
<1>3. TailFault(g) # "none"
  BY <1>2 DEF TailFault
<1> QED
  BY <1>3 DEF Accepted, Rejection
-----------------------------------------------------------------------------
(* The invariant *)

LEMMA InitIInv == RInit => IInv
<1> SUFFICES ASSUME RInit PROVE IInv
  OBVIOUS
<1>1. Fresh
  BY DEF RInit, Init, Fresh
<1>2. RTypeOK /\ AuditInv
  BY DEF RInit, RTypeOK, AuditInv
<1> QED
  BY <1>1, <1>2 DEF IInv, OwnerInv

\* Nobody appends to a journal that was audited.
LEMMA AuditedIsWhole ==
  ASSUME IInv, audit # Null, NEW r \in Recorders, state[r] = "recording"
  PROVE  position[r] = 1 /\ 1 \in DOMAIN rows
<1>1. PICK owner \in Recorders, run \in Nat : Owned(Size(owner), owner, run)
  BY DEF IInv, AuditInv
<1>2. Size(owner) \in Nat /\ Size(owner) > 1
  BY HistoriesNumbered DEF WellNumbered, Size
<1> QED
  BY <1>1, <1>2 DEF Owned

\* Only the run that has appended what there is appends, or whoever is first.
LEMMA Appends ==
  ASSUME IInv, NEW r \in Recorders, Record(r), NEW run \in Nat, run = crashes[r]
  PROVE  /\ audit = Null
         /\ \E k \in Nat : /\ k < Size(r) /\ position[r] = k + 1
                          /\ HistoryOf(r)[k + 1].sequence = k + 1
                          /\ IF k = 0 THEN Fresh ELSE Owned(k, r, run)
<1>1. /\ Size(r) \in Nat /\ Size(r) > 1
      /\ \A i \in 1..Size(r) : HistoryOf(r)[i].sequence = i
  BY HistoriesNumbered DEF WellNumbered, Size
<1>2. state[r] = "recording" /\ HistoryOf(r)[position[r]].sequence \notin DOMAIN rows
  BY DEF Record, AppendNew
<1>3. audit = Null
  BY <1>1, <1>2, AuditedIsWhole
<1>4. CASE Fresh
  BY <1>1, <1>2, <1>3, <1>4 DEF Fresh
<1>5. ASSUME NEW k \in Nat \ {0}, NEW owner \in Recorders, NEW n \in Nat, Owned(k, owner, n)
      PROVE  k < Size(r) /\ position[r] = k + 1 /\ Owned(k, r, run)
  <2>1. owner = r /\ n = run
    BY <1>1, <1>2, <1>5 DEF Owned
  <2> QED
    BY <1>1, <1>2, <1>5, <2>1 DEF Owned
<1> QED
  BY <1>1, <1>3, <1>4, <1>5 DEF IInv, OwnerInv

LEMMA RecordKeepsIInv ==
  ASSUME IInv, NEW r \in Recorders, Record(r)
  PROVE  IInv'
<1>1. PICK run \in Nat : run = crashes[r]
  BY DEF IInv, RTypeOK
<1>2. PICK k \in Nat : /\ k < Size(r) /\ position[r] = k + 1
                       /\ HistoryOf(r)[k + 1].sequence = k + 1
                       /\ IF k = 0 THEN Fresh ELSE Owned(k, r, run)
  BY <1>1, Appends
<1>3. Size(r) \in Nat /\ Size(r) > 1
  BY HistoriesNumbered DEF WellNumbered, Size
<1>4. DOMAIN rows = 1..k /\ DOMAIN author = 1..k
  BY <1>2 DEF Fresh, Owned
<1>5. /\ rows' = [n \in 1..(k + 1) |-> IF n = k + 1 THEN HistoryOf(r)[k + 1] ELSE rows[n]]
      /\ author' = [n \in 1..(k + 1) |-> IF n = k + 1 THEN <<r, run>> ELSE author[n]]
  <2>1. (1..k) \cup {k + 1} = 1..(k + 1)
    OBVIOUS
  <2>2. rows' = [n \in 1..(k + 1) |-> IF n = k + 1 THEN HistoryOf(r)[k + 1] ELSE rows[n]]
    BY <1>2, <1>4, <2>1 DEF Record, AppendNew
  <2>3. author' = [n \in 1..(k + 1) |-> IF n \in 1..k THEN author[n] ELSE <<r, run>>]
    BY <1>1, <1>4, <2>2 DEF Record
  <2> QED
    BY <2>2, <2>3
<1>6. /\ state[r] = "recording"
      /\ position' = [position EXCEPT ![r] = k + 2]
      /\ state' = [state EXCEPT ![r] = IF k + 1 = Size(r) THEN "recorded" ELSE "recording"]
      /\ crashes' = crashes /\ audit' = audit
  BY <1>2 DEF Record, Size, IInv, RTypeOK
<1>7. RTypeOK'
  BY <1>6 DEF IInv, RTypeOK
<1>8. Owned(k + 1, r, run)'
  <2>1. /\ position'[r] = k + 2 /\ crashes'[r] = run
        /\ state'[r] = IF k + 1 = Size(r) THEN "recorded" ELSE "recording"
        /\ \A s \in Recorders \ {r} : position'[s] = position[s] /\ state'[s] = state[s]
    BY <1>1, <1>6 DEF IInv, RTypeOK
  <2>2. \A s \in Recorders \ {r} : /\ state[s] = "recording" => position[s] = 1
                                  /\ state[s] # "recorded"
    BY <1>2 DEF Fresh, Owned
  <2>3. \A n \in 1..(k + 1) : author'[n] = <<r, run>> /\ rows'[n] = HistoryOf(r)[n]
    BY <1>2, <1>5 DEF Owned
  <2>4. DOMAIN rows' = 1..(k + 1) /\ DOMAIN author' = 1..(k + 1) /\ k + 1 <= Size(r)
    BY <1>2, <1>3, <1>5
  <2> QED
    BY <1>3, <2>1, <2>2, <2>3, <2>4 DEF Owned, Size
<1>9. AuditInv'
  BY <1>1, <1>6, Appends DEF AuditInv
<1> QED
  BY <1>7, <1>8, <1>9 DEF IInv, OwnerInv

\* Deaths, restarts and refused appends leave the journal to its owner.
LEMMA OwnerStays ==
  ASSUME RTypeOK, NEW r \in Recorders, Refused(r) \/ Crash(r) \/ Restart(r),
         NEW k \in Nat \ {0}, NEW owner \in Recorders, NEW run \in Nat, Owned(k, owner, run)
  PROVE  Owned(k, owner, run)'
<1>1. UNCHANGED <<rows, author, audit>>
  BY DEF Refused, AppendTaken, Crash, Restart, jvars
<1>2. CASE Refused(r)
  <2>1. /\ state[r] = "recording" /\ UNCHANGED <<position, crashes>>
        /\ state' = [state EXCEPT ![r] = "raised"]
    BY <1>2 DEF Refused
  <2>2. ~(r = owner /\ crashes[r] = run)
    <3>1. /\ Size(owner) \in Nat
          /\ \A i \in 1..Size(owner) : HistoryOf(owner)[i].sequence = i
      BY HistoriesNumbered DEF WellNumbered, Size
    <3> QED
      BY <1>2, <2>1, <3>1 DEF Refused, AppendTaken, Owned
  <2> QED
    BY <1>1, <2>1, <2>2 DEF RTypeOK, Owned, Size
<1>3. CASE Crash(r)
  <2>1. /\ state[r] = "recording" /\ UNCHANGED position
        /\ state' = [state EXCEPT ![r] = "crashed"]
        /\ crashes' = [crashes EXCEPT ![r] = @ + 1]
    BY <1>3 DEF Crash
  <2> QED
    BY <1>1, <2>1 DEF RTypeOK, Owned, Size
<1>4. CASE Restart(r)
  <2>1. /\ state[r] = "crashed" /\ UNCHANGED crashes
        /\ state' = [state EXCEPT ![r] = "recording"]
        /\ position' = [position EXCEPT ![r] = 1]
    BY <1>4 DEF Restart
  <2> QED
    BY <1>1, <2>1 DEF RTypeOK, Owned, Size
<1> QED
  BY <1>2, <1>3, <1>4

LEMMA OthersKeepIInv ==
  ASSUME IInv, NEW r \in Recorders, Refused(r) \/ Crash(r) \/ Restart(r)
  PROVE  IInv'
<1>1. UNCHANGED <<rows, author, audit>>
  BY DEF Refused, AppendTaken, Crash, Restart, jvars
<1>2. RTypeOK'
  BY DEF IInv, RTypeOK, Refused, Crash, Restart
<1>3. Fresh => Fresh'
  BY <1>1 DEF IInv, RTypeOK, Fresh, Refused, Crash, Restart
<1>4. OwnerInv'
  BY <1>3, OwnerStays DEF IInv, OwnerInv
<1>5. AuditInv'
  <2> SUFFICES ASSUME audit # Null
               PROVE  /\ \E owner \in Recorders, run \in Nat : Owned(Size(owner), owner, run)'
                      /\ audit' = AuditView(Read')
    BY <1>1 DEF AuditInv, Size
  <2>1. PICK owner \in Recorders, run \in Nat : Owned(Size(owner), owner, run)
    BY DEF IInv, AuditInv
  <2>2. Size(owner) \in Nat \ {0}
    BY HistoriesNumbered DEF WellNumbered, Size
  <2>3. Owned(Size(owner), owner, run)'
    BY <2>1, <2>2, OwnerStays DEF IInv, Size
  <2>4. audit' = AuditView(Read')
    BY <1>1 DEF IInv, AuditInv, Read
  <2> QED
    BY <2>3, <2>4
<1> QED
  BY <1>2, <1>4, <1>5 DEF IInv

\* A step that moves neither the journal nor a recorder.
LEMMA Unmoved ==
  ASSUME IInv, UNCHANGED <<rows, author, position, state, crashes>>
  PROVE  /\ RTypeOK' /\ OwnerInv' /\ Read' = Read
         /\ \A k, owner, run : Owned(k, owner, run) => Owned(k, owner, run)'
<1>1. RTypeOK'
  BY DEF IInv, RTypeOK
<1>2. Fresh => Fresh'
  BY DEF Fresh
<1>3. ASSUME NEW k, NEW owner, NEW run, Owned(k, owner, run) PROVE Owned(k, owner, run)'
  BY <1>3 DEF Owned, Size
<1>4. OwnerInv'
  BY <1>2, <1>3 DEF IInv, OwnerInv
<1>5. Read' = Read
  BY DEF Read
<1> QED
  BY <1>1, <1>3, <1>4, <1>5

LEMMA AuditKeepsIInv ==
  ASSUME IInv, Audit
  PROVE  IInv'
<1>1. /\ Accepted(Read) /\ audit' = AuditView(Read)
      /\ UNCHANGED <<rows, author, position, state, crashes>>
  BY DEF Audit, jvars
<1>2. RTypeOK' /\ OwnerInv' /\ Read' = Read
  BY <1>1, Unmoved
<1>3. ~Fresh
  <2> SUFFICES ASSUME Fresh PROVE FALSE
    OBVIOUS
  <2>1. DOMAIN rows = 1..0
    BY DEF Fresh
  <2>2. Read = [i \in 1..0 |-> rows[i]]
    BY <2>1, ReadWhole
  <2>3. Read = <<>>
    BY <2>2
  <2> QED
    BY <1>1, <2>3, EmptyRefused
<1>4. PICK k \in Nat \ {0}, owner \in Recorders, run \in Nat : Owned(k, owner, run)
  BY <1>3 DEF IInv, OwnerInv
<1>5. k = Size(owner)
  <2>1. WellNumbered(HistoryOf(owner))
    BY HistoriesNumbered
  <2>2. k <= Size(owner) /\ Read = [i \in 1..k |-> HistoryOf(owner)[i]]
    <3>1. Read = [i \in 1..k |-> rows[i]]
      BY <1>4, ReadWhole DEF Owned
    <3> QED
      BY <1>4, <3>1 DEF Owned
  <2>3. ~(k < Size(owner))
    BY <1>1, <2>1, <2>2, EarlierRefused DEF Size
  <2>4. Size(owner) \in Nat
    BY <2>1 DEF WellNumbered, Size
  <2> QED
    BY <2>2, <2>3, <2>4
<1>6. Owned(Size(owner), owner, run)'
  BY <1>1, <1>4, <1>5, Unmoved
<1> QED
  BY <1>1, <1>2, <1>6 DEF IInv, AuditInv, Size

LEMMA NextKeepsIInv == IInv /\ [RNext]_rvars => IInv'
<1> SUFFICES ASSUME IInv, [RNext]_rvars PROVE IInv'
  OBVIOUS
<1>1. CASE UNCHANGED rvars
  <2>1. UNCHANGED <<rows, author, position, state, crashes, audit>>
    BY <1>1 DEF rvars, jvars
  <2>2. AuditInv'
    <3> SUFFICES ASSUME audit # Null
                 PROVE  /\ \E owner \in Recorders, run \in Nat : Owned(Size(owner), owner, run)'
                        /\ audit' = AuditView(Read')
      BY <2>1 DEF AuditInv, Size
    <3>1. PICK owner \in Recorders, run \in Nat : Owned(Size(owner), owner, run)
      BY DEF IInv, AuditInv
    <3>2. Owned(Size(owner), owner, run)'
      BY <2>1, <3>1, Unmoved
    <3>3. audit' = AuditView(Read')
      BY <2>1, Unmoved DEF IInv, AuditInv
    <3> QED
      BY <3>2, <3>3
  <2> QED
    BY <2>1, <2>2, Unmoved DEF IInv
<1> QED
  BY <1>1, RecordKeepsIInv, OthersKeepIInv, AuditKeepsIInv DEF RNext

LEMMA SpecIInv == RSpec => []IInv
BY InitIInv, NextKeepsIInv, PTL DEF RSpec
-----------------------------------------------------------------------------
\* Whoever is first owns the journal, whatever the others append, die at or begin again:
\* its rows are the first events of one history, in order, all by one run of one recorder.
THEOREM RecordersOneRun == RSpec => []OneRunOnly
<1>1. IInv => OneRunOnly
  <2> SUFFICES ASSUME IInv PROVE OneRunOnly
    OBVIOUS
  <2>1. CASE Fresh
    <3>1. DOMAIN rows = 1..0
      BY <2>1 DEF Fresh
    <3> QED
      BY <2>1, <3>1, ReadWhole DEF OneRunOnly, Fresh
  <2>2. ASSUME NEW k \in Nat \ {0}, NEW owner \in Recorders, NEW run \in Nat, Owned(k, owner, run)
        PROVE  OneRunOnly
    <3>1. Cardinality(DOMAIN rows) = k
      BY <2>2, ReadWhole DEF Owned
    <3>2. \A n \in 1..k : author[n] = <<owner, run>> /\ rows[n] = HistoryOf(owner)[n]
      BY <2>2 DEF Owned
    <3>3. DOMAIN rows = 1..k /\ author[1] = <<owner, run>> /\ author[1][1] = owner
      BY <2>2, <3>2 DEF Owned
    <3> QED
      BY <3>1, <3>2, <3>3 DEF OneRunOnly
  <2> QED
    BY <2>1, <2>2 DEF IInv, OwnerInv
<1> QED
  BY <1>1, SpecIInv, PTL

\* An audit is of a whole history whose recorder's loop ran to its end, never of what a
\* death left, and what it says stays what the journal holds.
THEOREM RecordersAuditedWhole == RSpec => []AuditedWholeHistory
<1>1. IInv => AuditedWholeHistory
  <2> SUFFICES ASSUME IInv, audit # Null
               PROVE  /\ \E r \in Recorders :
                           /\ state[r] = "recorded" /\ author[1] = <<r, crashes[r]>>
                           /\ Read = HistoryOf(r)
                      /\ audit = AuditView(Read)
                      /\ \A r \in Recorders : FinalSummary(Read) = FinalSummary(HistoryOf(r))
    BY DEF AuditedWholeHistory
  <2>1. PICK owner \in Recorders, run \in Nat : Owned(Size(owner), owner, run)
    BY DEF IInv, AuditInv
  <2>2. WellNumbered(HistoryOf(owner))
    BY HistoriesNumbered
  <2>3. Size(owner) \in Nat /\ Size(owner) > 1
    BY <2>2 DEF WellNumbered, Size
  <2>4. Read = [i \in 1..Size(owner) |-> HistoryOf(owner)[i]]
    <3>1. Read = [i \in 1..Size(owner) |-> rows[i]]
      BY <2>1, <2>3, ReadWhole DEF Owned
    <3> QED
      BY <2>1, <3>1 DEF Owned
  <2>5. Read = HistoryOf(owner)
    BY <2>2, <2>4 DEF WellNumbered, Size
  <2>6. state[owner] = "recorded" /\ author[1] = <<owner, crashes[owner]>>
    BY <2>1, <2>3 DEF Owned
  <2> QED
    BY <2>5, <2>6, SameSummary DEF IInv, AuditInv
<1> QED
  BY <1>1, SpecIInv, PTL

\* The audit tells which recorder's history it was, where the final summary is the same
\* for all, and shows a decision exactly when an ambiguous completion was recorded.
THEOREM RecordersAudited == RSpec => []AuditedWasRecorded
<1>1. AuditedWholeHistory => AuditedWasRecorded
  <2> SUFFICES ASSUME AuditedWholeHistory, audit # Null
               PROVE  /\ \A r \in Recorders :
                           audit = AuditView(HistoryOf(r)) <=> Read = HistoryOf(r)
                      /\ audit.decisions = <<>> <=>
                           \A i \in DOMAIN Read : Read[i].completion # "ambiguous"
    BY DEF AuditedWasRecorded
  <2>1. audit = AuditView(Read) /\ \E r \in Recorders : Read = HistoryOf(r)
    BY DEF AuditedWholeHistory
  <2>2. PICK r \in Recorders : Read = HistoryOf(r)
    BY <2>1
  <2>3. \E o, t, a, b, m, w, e :
          Read \in {DirectSuccess(o, t, a, m, e), Recovered(o, t, a, b, m, w, e)}
    BY <2>2, HistoriesAssumption
  <2> HIDE DEF Read
  <2>4. audit.decisions = <<>> <=> \A i \in DOMAIN Read : Read[i].completion # "ambiguous"
    BY <2>1, <2>3, DirectAudit, RecoveredAudit
  <2> QED
    BY <2>1, <2>2, <2>4, AuditTellsHistory
<1> QED
  BY <1>1, RecordersAuditedWhole, PTL
=============================================================================
