-------------------------- MODULE MCStateRecovery --------------------------
(* Model values of the restarts' runs.                                     *)
EXTENDS StateRecovery, TLC

CONSTANTS a, b, p, q

Interchangeable == Permutations(Sources) \union Permutations(Articles)
=============================================================================
