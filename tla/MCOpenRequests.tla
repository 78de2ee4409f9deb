--------------------------- MODULE MCOpenRequests ---------------------------
(* Small instances of OpenRequests for TLC. *)
EXTENDS OpenRequests, TLC

\* Windows and keys are interchangeable.
Symmetry == Permutations(Windows) \cup Permutations(Keys)
=============================================================================
