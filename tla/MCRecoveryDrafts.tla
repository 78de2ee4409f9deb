--------------------------- MODULE MCRecoveryDrafts ---------------------------
EXTENDS RecoveryDrafts, TLC

Symmetry == Permutations(Texts \ {EmptyText})
=============================================================================
