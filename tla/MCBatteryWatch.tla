-------------------------- MODULE MCBatteryWatch --------------------------
(* A plan of two seeds and makeup runs, an adaptation battery of one match *)
(* before and one after with two attempts between them, and a live-fire    *)
(* run, each launched twice over one lane.                                 *)
EXTENDS BatteryWatch

MatchesOf == [salience |-> 3, objectives |-> 4, adaptation |-> 4, livefire |-> 3]
=============================================================================
