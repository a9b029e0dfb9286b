--------------------------- MODULE MCLiveLearning ---------------------------
(* Two processes over one ledger; three matches, so that a chain of two    *)
(* promotions is extended, and a parameter that can move up twice.         *)
EXTENDS LiveLearning, TLC

CONSTANTS p1, p2
Interchangeable == Permutations(Servers)
=============================================================================
