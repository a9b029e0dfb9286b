------------------------- MODULE MCTerminalEvidence -------------------------
(* Bounded instance of TerminalEvidence for TLC. *)
EXTENDS TerminalEvidence
=============================================================================
