------------------------ MODULE MCProvenanceJournal -------------------------
(* Two attempts that are alike; careful callers go on for longer. *)
EXTENDS ProvenanceJournal, TLC

AttemptSymmetry == Permutations(Attempts)
MCMaxEvents(c) == IF c = "careful" THEN 7 ELSE 5
=============================================================================
