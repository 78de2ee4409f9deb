---------------------------- MODULE MCFileWorkflow ----------------------------
EXTENDS FileWorkflow, TLC

\* The documents are interchangeable: no definition names one (only for the run without liveness).
DocSymmetry == Permutations(Docs)
=============================================================================
