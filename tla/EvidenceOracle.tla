--------------------------- MODULE EvidenceOracle ---------------------------
(***************************************************************************)
(* The evidence contract (M1, experiments/evidence_contracts.py) and the   *)
(* evaluation oracle behind it (M2, evaluation_oracle_integrity.py).  A    *)
(* catalog is built once; candidate selections are validated against it;   *)
(* M2 evaluates claims on evidence "assumed to have passed M1": here on    *)
(* the fragments of the accepted selection, with the support annotations   *)
(* and the claim the caller brings.                                        *)
(***************************************************************************)
EXTENDS Integers, Sequences, FiniteSets, SequencesExt, Selections

CONSTANTS Evidence,      \* evidence identifiers
          Provenance,    \* document and version pairs
          Requirements,  \* identifiers of support requirements
          MaxLength      \* bound on fragments, selections and claims

ASSUME LengthAssumption == MaxLength \in Nat \ {0}

None == [reason |-> "none"]

VARIABLES loaded,      \* has EvidenceCatalog.__init__ returned
          fragments,   \* what it was given
          catalog,     \* _fragments: recorded provenance by identifier
          selection,   \* the EvidenceSelection last validated
          result,      \* its ContractResult
          claim,       \* the identifiers of the claim last evaluated, in order
          support,     \* supported_requirement_ids of its evidence fragments
          verdict      \* its EvaluationVerdict

vars == <<loaded, fragments, catalog, selection, result, claim, support, verdict>>

Positions(s, Test(_)) == {i \in DOMAIN s : Test(s[i])}
First(s, found) == s[CHOOSE i \in found : \A j \in found : i <= j]

-----------------------------------------------------------------------------
(* The catalog: fragments are indexed in turn; an identifier met a second  *)
(* time is a ValueError, whatever its provenance.                          *)

Fragment == [identifier : Evidence, provenance : Provenance]

\* Mutant: the later fragment of an identifier silently replaces the earlier one.
NeverDuplicated(rows) == FALSE

Duplicated(rows) ==
    \E i, j \in DOMAIN rows : i # j /\ rows[i].identifier = rows[j].identifier

Index(rows) ==
    [e \in {r.identifier : r \in Range(rows)} |->
        rows[SelectLastInSeq(rows, LAMBDA r : r.identifier = e)].provenance]

-----------------------------------------------------------------------------
(* validate: every identifier is looked up before any provenance is        *)
(* compared, so an unknown identifier is reported even when an earlier     *)
(* one is incompatible.                                                    *)

Unknown(s) == Positions(s.ids, LAMBDA e : e \notin DOMAIN catalog)

Incompatible(s) == Positions(s.ids, LAMBDA e : catalog[e] # s.declared)

\* Mutant: one pass over the identifiers, each looked up and compared in turn.
ContractInOnePass(s) ==
    LET faults == Positions(s.ids, LAMBDA e : e \notin DOMAIN catalog \/ catalog[e] # s.declared)
    IN  IF faults = {} THEN [reason |-> "accepted"]
        ELSE LET e == First(s.ids, faults)
             IN  [reason |-> IF e \in DOMAIN catalog THEN "incompatible-provenance"
                                                     ELSE "unknown-evidence",
                  rejected |-> e]

Contract(s) ==
    IF Unknown(s) # {}
    THEN [reason |-> "unknown-evidence", rejected |-> First(s.ids, Unknown(s))]
    ELSE IF Incompatible(s) # {}
    THEN [reason |-> "incompatible-provenance", rejected |-> First(s.ids, Incompatible(s))]
    ELSE [reason |-> "accepted"]

Accepted(r) == r.reason = "accepted"

\* identifiers_exist, the control that compares no provenance.
IdentifiersExist(s) == Range(s.ids) \subseteq DOMAIN catalog

-----------------------------------------------------------------------------
(* evaluate_claim_support: all requirements are checked, and all those     *)
(* that no fragment supports are reported, in the claim's order.           *)

Supported(s) == UNION {s[e] : e \in DOMAIN s}

\* Mutant: the evaluation stops at the first unsupported requirement.
EvaluationToFirst(c, s) ==
    LET Lacks(r) == r \notin Supported(s)
        unsupported == Selected(c, Lacks)
    IN  [reason |-> IF unsupported = <<>> THEN "passed" ELSE "unsupported-requirement",
         checked |-> c,
         unsupported |-> IF unsupported = <<>> THEN <<>> ELSE <<Head(unsupported)>>]

Evaluation(c, s) ==
    LET Lacks(r) == r \notin Supported(s)
    IN  [reason |-> IF Range(c) \subseteq Supported(s) THEN "passed" ELSE "unsupported-requirement",
         checked |-> c,
         unsupported |-> Selected(c, Lacks)]

\* relationship_only_accepts, the control that checks no support.
RelationshipOnlyAccepts(c, s) == c # <<>> /\ DOMAIN s # {}

-----------------------------------------------------------------------------
Init ==
    /\ loaded = FALSE /\ fragments = <<>> /\ catalog = <<>>
    /\ selection = None /\ result = None
    /\ claim = <<>> /\ support = <<>> /\ verdict = None

Load ==
    /\ ~loaded
    /\ loaded' = TRUE
    /\ \E rows \in BoundedSeq(Fragment, MaxLength) :
          /\ ~Duplicated(rows)
          /\ fragments' = rows
          /\ catalog' = Index(rows)
    /\ UNCHANGED <<selection, result, claim, support, verdict>>

Validate ==
    /\ loaded
    /\ \E declared \in Provenance, ids \in BoundedSeq(Evidence, MaxLength) :
          /\ selection' = [declared |-> declared, ids |-> ids]
          /\ result' = Contract(selection')
    /\ claim' = <<>> /\ support' = <<>> /\ verdict' = None
    /\ UNCHANGED <<loaded, fragments, catalog>>

Evaluate ==
    /\ Accepted(result)
    /\ \E c \in BoundedSeq(Requirements, MaxLength),
          s \in [Range(selection.ids) -> SUBSET Requirements] :
          /\ claim' = c
          /\ support' = s
          /\ verdict' = Evaluation(c, s)
    /\ UNCHANGED <<loaded, fragments, catalog, selection, result>>

Next == Load \/ Validate \/ Evaluate

Spec == Init /\ [][Next]_vars

-----------------------------------------------------------------------------
\* The category of a result does not depend on the order of the identifiers: a
\* reordered selection is accepted or rejected for the same reason, and only the
\* identifier it blames may be another ("stable reason categories").
OrderOnlyMovesTheBlame ==
    result # None =>
        \A ids \in [DOMAIN selection.ids -> Range(selection.ids)] :
            (\A e \in Range(selection.ids) :
                Cardinality(Positions(ids, LAMBDA x : x = e)) =
                Cardinality(Positions(selection.ids, LAMBDA x : x = e)))
            => Contract([selection EXCEPT !.ids = ids]).reason = result.reason

\* M1 and M2 together, on the fragments as they were supplied: a selection is
\* accepted only when every supplied fragment of its identifiers has the declared
\* provenance and there is one (docs/guarantees.md, "contains only known fragments
\* whose recorded provenance equals the selection's declared provenance"); so each
\* requirement of a claim that passes has a supplied fragment of that provenance
\* to support it.
PassedIsGrounded ==
    /\ Accepted(result) =>
         \A e \in Range(selection.ids) :
             /\ \E f \in Range(fragments) : f.identifier = e
             /\ \A f \in Range(fragments) :
                   f.identifier = e => f.provenance = selection.declared
    /\ verdict # None /\ verdict.reason = "passed" =>
         \A r \in Range(claim) :
             \E f \in Range(fragments) :
                 /\ f.identifier \in Range(selection.ids)
                 /\ f.provenance = selection.declared
                 /\ r \in support[f.identifier]

\* A rejection tells the whole gap: the claim without the reported requirements
\* passes on the same evidence, and none of the reported ones is supported
\* ("checks both atomic requirements", "ordered rejection details").  On evidence
\* the weak control accepts each of these claims; that of M1 rejects exactly the
\* selections rejected as unknown evidence.
RejectionTellsTheGap ==
    /\ verdict # None /\ verdict.reason # "passed" =>
        LET gap == Range(verdict.unsupported)
            Kept(r) == r \notin gap
        IN  /\ gap # {} /\ gap \cap Supported(support) = {}
            /\ Evaluation(Selected(claim, Kept), support).reason = "passed"
            /\ RelationshipOnlyAccepts(claim, support) <=> selection.ids # <<>>
    /\ result # None =>
        (result.reason = "unknown-evidence" <=> ~IdentifiersExist(selection))
=============================================================================
