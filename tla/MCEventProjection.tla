------------------------- MODULE MCEventProjection -------------------------
(* Instance of EventProjection for TLC: one browser, any number of connections. *)
EXTENDS EventProjection

CONSTANT browser
=============================================================================
