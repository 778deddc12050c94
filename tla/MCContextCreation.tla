-------------------------- MODULE MCContextCreation --------------------------
(* Model-checking parameters for ContextCreation.                            *)
EXTENDS ContextCreation, TLC

CONSTANTS t1, t2, t3

ThreeThreads == {t1, t2, t3}
Symmetry     == Permutations(ThreeThreads)
=============================================================================
