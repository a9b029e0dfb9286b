--------------------------- MODULE MCMatchRuntime ---------------------------
(* Bounded instance of MatchRuntime for TLC. *)
EXTENDS MatchRuntime

CONSTANTS c1, c2, c3, w1, w2

IdsDef == {c1, c2, c3}
WorkersDef == {w1, w2}
=============================================================================
