---------------------------- MODULE MCHumanTurn ----------------------------
(* Bounded instance of HumanTurn for TLC. *)
EXTENDS HumanTurn

CONSTANTS red, blue, c1, c2, fire, vent

BothSides == {red, blue}
TwoCommands == {c1, c2}
ActionsDef == {fire, vent}
=============================================================================
