---------------------------- MODULE MCWindowRouting ----------------------------
EXTENDS WindowRouting, TLC

Symmetry == Permutations(Docs) \cup Permutations(Secondary)
=============================================================================
