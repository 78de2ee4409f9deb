-------------------------- MODULE MCDocumentClaims --------------------------
(* Small instances of DocumentClaims for TLC. *)
EXTENDS DocumentClaims, TLC

\* Windows are interchangeable, and so are sessions, operations and threads.
Symmetry == Permutations(Windows) \cup Permutations(SessionIds)
              \cup Permutations(OpIds) \cup Permutations(Threads)
=============================================================================
