------------------------- MODULE MCDurableDispatch --------------------------
EXTENDS DurableDispatch, TLC

CONSTANT v2
MCForeign == DispatchIds \X {v2}

RelaySymmetry == Permutations(Relays)
Symmetry == RelaySymmetry \cup Permutations(Producers)
=============================================================================
