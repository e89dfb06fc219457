-------------------------- MODULE MCPromotionStore --------------------------
EXTENDS PromotionStore, TLC

Symmetry == Permutations(Actors)
=============================================================================
