---------------------------- MODULE MCMatchRunner ----------------------------
EXTENDS MatchRunner, TLC
CONSTANTS a, b
MCRoster == <<a, b>>
MCLucks == {{}, {a}}
MCActs == (a :> {"fire", "utility"} @@ b :> {"fire", "move", "switch"})
MCStarts == {(a :> 0 @@ b :> 1)}
MCRules ==
    [hp |-> 3, armor |-> 1, armorRegen |-> 0, pressure |-> 2, regen |-> 1, vent |-> 1,
     redline |-> 1, rupture |-> 3, overloadAfter |-> 1, ruptureAfter |-> 2, switchDisabled |-> 1,
     direct |-> 2, area |-> 1, areaRadius |-> 1, vpRound |-> 1, vpLine |-> 2, bounty |-> 1,
     fireCost |-> 1, fireHeat |-> 2, fireRange |-> 1, fireDamage |-> 3, cooldown |-> 1,
     switchCost |-> 1, switchHeat |-> 1, switchTicks |-> 1, switchLock |-> 1,
     switchHeatLimit |-> 2, suddenStart |-> 2, suddenBase |-> 1, speed |-> 1]
=============================================================================
