SPECIFICATION Spec
CONSTANTS
    Evidence = {E17, E18, E19}
    Provenance = {v1, v2}
    Requirements = {r1, r2}
    MaxLength = 2
INVARIANTS PassedIsGrounded OrderOnlyMovesTheBlame RejectionTellsTheGap
