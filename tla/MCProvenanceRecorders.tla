----------------------- MODULE MCProvenanceRecorders ------------------------
(* Two runs of the direct history and one of the recovered one. *)
EXTENDS ProvenanceRecorders

CONSTANTS direct, again, recovering, o, t, a, b, m, w, e

MCMaxEvents(c) == 9

MCHistoryOf(r) ==
  IF r = recovering THEN Recovered(o, t, a, b, m, w, e) ELSE DirectSuccess(o, t, a, m, e)
=============================================================================
