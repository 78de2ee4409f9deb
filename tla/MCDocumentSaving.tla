--------------------------- MODULE MCDocumentSaving ---------------------------
EXTENDS DocumentSaving, TLC

Symmetry == Permutations(Texts \ {EmptyText})
=============================================================================
