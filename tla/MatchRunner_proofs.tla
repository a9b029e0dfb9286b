------------------------- MODULE MatchRunner_proofs -------------------------
(***************************************************************************)
(* OneTerminal, RoundsAreClosed, ResultIsTrue and RestatementsAgree for any *)
(* rules, arena, cadence, caps and number of registers.                     *)
(*                                                                          *)
(* What makes the one terminal hard is that an event waits on the agenda    *)
(* while the events before it change the match it was resolved against.     *)
(* The invariant IInv says what may wait there: a tick waits alone, a move  *)
(* or a switch waits behind its intent only, one terminal at most waits,    *)
(* and no death waits in front of it that the match does not know already.  *)
(*                                                                          *)
(* The second half is about what is waiting rather than in which order.     *)
(* The reports of a tick are an account of what its fold did (Account), and *)
(* RInv says what is left of the account while they are folded once more:   *)
(* whose destruction is still to be told, whose hit points, and that no     *)
(* result recorded or waiting can be made untrue by what comes behind it.   *)
(***************************************************************************)
EXTENDS MatchRunner, FiniteSetTheorems, TLAPS

Mech ==
    [hp: Nat, armor: Nat, alive: BOOLEAN, pilot: BOOLEAN, pressure: Nat, heat: Nat,
     redline: Nat, over: Nat, disabled: Nat, cooldown: Nat, mode: Modes \cup {None},
     to: Modes \cup {None}, left: Nat, lock: Nat, cell: Cells]

Reasons ==
    {"draw_mutual_destruction", "draw_max_ticks", "last_mech_standing", "vp_threshold",
     "aborted", "aborted_runaway", "provider_semantic_failure"}

Match ==
    [status: {"running", "ended"}, tick: Nat, max: Nat, winner: Mechs \cup {None},
     reason: Reasons \cup {None}, mechs: [Mechs -> Mech], vp: [Mechs -> Nat],
     bountyDue: BOOLEAN, lucky: SUBSET Mechs]

(* The kinds of events, by what the fold makes of them.                     *)
Publishers == {"runner", "fold", "lifecycle"}
Notices ==
    [kind: {"REGISTER_RESOLVED"}, by: {"runner"}]
      \cup [kind: {"INTENT", "WEAPON_FIRED", "HIT_RESOLVED", "WEAPON_FIRE_REJECTED",
                   "UTILITY_DEPLOYED", "BOILER_RUPTURED"}, mech: Mechs, by: Publishers]
      \cup [kind: {"ARMOR_ABSORBED"}, mech: Mechs, after: Nat, by: Publishers]
Damages == [kind: {"DAMAGE_APPLIED"}, mech: Mechs, after: Nat, by: Publishers]
Deaths == [kind: {"MECH_DESTROYED", "PILOT_KILLED"}, mech: Mechs, by: Publishers]
Plans == {Row("PLAN_COMMITTED")}
Discs == {Row("CARDS_DISCARDED")}
Ticks == [kind: {"MATCH_TICK"}, tick: Nat, by: {"runner"}]
Moves == [kind: {"MOVEMENT_RESOLVED"}, mech: Mechs, from: Cells, to: Cells, by: {"runner"}]
Switches == [kind: {"MODE_TRANSITION_STARTED"}, mech: Mechs, from: Modes \cup {None}, to: Modes, by: {"runner"}]
Ends == [kind: Terminals, winner: Mechs \cup {None}, reason: Reasons, by: Publishers]
Events == Notices \cup Damages \cup Deaths \cup Plans \cup Discs \cup Ticks \cup Moves
            \cup Switches \cup Ends

-----------------------------------------------------------------------------
(* The mechs                                                                *)

LEMMA Numbers ==
    /\ Rules.hp \in Nat /\ Rules.armor \in Nat /\ Rules.armorRegen \in Nat /\ Rules.pressure \in Nat
    /\ Rules.regen \in Nat /\ Rules.vent \in Nat /\ Rules.switchDisabled \in Nat
    /\ Rules.direct \in Nat /\ Rules.area \in Nat /\ Rules.vpRound \in Nat /\ Rules.bounty \in Nat
    /\ Rules.fireCost \in Nat /\ Rules.fireHeat \in Nat /\ Rules.fireDamage \in Nat
    /\ Rules.cooldown \in Nat /\ Rules.switchCost \in Nat /\ Rules.switchHeat \in Nat
    /\ Rules.switchTicks \in Nat /\ Rules.switchLock \in Nat /\ Rules.suddenBase \in Nat
    /\ Rules.suddenStart \in Nat /\ Rules.speed \in Nat /\ Rules.rupture \in Nat
BY FoldAssumption DEF FoldAssumption, RuleNames

LEMMA TwoMechs ==
    /\ Roster[1] \in Mechs /\ Roster[2] \in Mechs /\ Roster[1] # Roster[2]
    /\ Mechs = {Roster[1], Roster[2]} /\ None \notin Mechs /\ IsFiniteSet(Mechs)
<1>1. DOMAIN Roster = {1, 2} /\ Roster[1] # Roster[2] /\ None \notin Mechs
  BY FoldAssumption DEF FoldAssumption
<1>2. Mechs = {Roster[1], Roster[2]}
  BY <1>1 DEF Mechs
<1>3. IsFiniteSet({Roster[1], Roster[2]})
  <2>1. IsFiniteSet({Roster[1]})
    BY FS_Singleton
  <2>2. IsFiniteSet({Roster[1]} \cup {Roster[2]})
    BY <2>1, FS_AddElement
  <2> QED  BY <2>2
<1> QED  BY <1>1, <1>2, <1>3

LEMMA LowHigh ==
    /\ \A x, y \in Nat : Low(x, y) \in Nat /\ Low(x, y) <= x /\ Low(x, y) <= y /\ High(x, y) \in Nat
    /\ \A x \in Int : High(x, 0) \in Nat /\ High(0, x) \in Nat
BY DEF Low, High

(* The sub-steps of a tick keep a mech a mech, dead or alive.               *)
SameLife(old, new) == new.alive = old.alive /\ new.pilot = old.pilot

LEMMA Boilers ==
    ASSUME NEW mech \in Mech
    PROVE  BoilerTick(mech) \in Mech /\ SameLife(mech, BoilerTick(mech))
<1>1. BoilerTick(mech) = [mech EXCEPT !.pressure = Low(mech.pressure + Rules.regen, Rules.pressure),
                                      !.heat = High(mech.heat - Rules.vent, 0)]
  BY DEF BoilerTick
<1>2. Low(mech.pressure + Rules.regen, Rules.pressure) \in Nat /\ High(mech.heat - Rules.vent, 0) \in Nat
  BY Numbers DEF Mech, Low, High
<1> QED  BY <1>1, <1>2 DEF Mech, SameLife

LEMMA Counters ==
    ASSUME NEW mech \in Mech
    PROVE  CountersDecremented(mech) \in Mech /\ SameLife(mech, CountersDecremented(mech))
<1>1. CountersDecremented(mech) = [mech EXCEPT !.cooldown = High(mech.cooldown - 1, 0)]
  BY DEF CountersDecremented
<1>2. High(mech.cooldown - 1, 0) \in Nat
  BY DEF Mech, Low, High
<1> QED  BY <1>1, <1>2 DEF Mech, SameLife

LEMMA Armours ==
    ASSUME NEW mech \in Mech
    PROVE  ArmorRegenerated(mech) \in Mech /\ SameLife(mech, ArmorRegenerated(mech))
<1>1. ArmorRegenerated(mech) \in {mech, [mech EXCEPT !.armor = Low(Rules.armor, mech.armor + Rules.armorRegen)]}
  BY DEF ArmorRegenerated
<1>2. Low(Rules.armor, mech.armor + Rules.armorRegen) \in Nat
  BY Numbers DEF Mech, Low, High
<1> QED  BY <1>1, <1>2 DEF Mech, SameLife

LEMMA UpdateOver ==
    ASSUME NEW mech \in Mech, NEW x \in Nat, NEW y \in Nat
    PROVE  LET new == [mech EXCEPT !.redline = x, !.over = y]
           IN  new \in Mech /\ SameLife(mech, new)
BY DEF Mech, SameLife

LEMMA UpdateDisabled ==
    ASSUME NEW mech \in Mech, NEW x \in Nat, NEW y \in Nat
    PROVE  LET new == [mech EXCEPT !.redline = x, !.over = 1, !.disabled = y]
           IN  new \in Mech /\ SameLife(mech, new)
BY DEF Mech, SameLife

LEMMA UpdateMode ==
    ASSUME NEW mech \in Mech, NEW to \in Modes \cup {None}, NEW y \in Nat
    PROVE  LET new == [mech EXCEPT !.mode = to, !.to = None, !.left = 0, !.lock = y]
           IN  new \in Mech /\ SameLife(mech, new)
BY DEF Mech, SameLife

LEMMA ModesAdvance ==
    ASSUME NEW mech \in Mech, NEW tick \in Nat
    PROVE  ModeAdvanced(mech, tick) \in Mech /\ SameLife(mech, ModeAdvanced(mech, tick))
<1>1. CASE mech.left = 0
  BY <1>1 DEF ModeAdvanced, SameLife
<1>2. CASE mech.left > 1
  <2>1. ModeAdvanced(mech, tick) = [mech EXCEPT !.left = mech.left - 1]
    BY <1>2 DEF ModeAdvanced
  <2> QED  BY <1>2, <2>1 DEF Mech, SameLife
<1>3. CASE mech.left = 1
  <2>1. ModeAdvanced(mech, tick) =
          [mech EXCEPT !.mode = mech.to, !.to = None, !.left = 0, !.lock = tick + Rules.switchLock]
    BY <1>3 DEF ModeAdvanced
  <2>2. tick + Rules.switchLock \in Nat
    BY Numbers
  <2>3. mech.to \in Modes \cup {None}
    BY DEF Mech
  <2> DEFINE to == mech.to
             y == tick + Rules.switchLock
             new == [mech EXCEPT !.mode = to, !.to = None, !.left = 0, !.lock = y]
  <2>4. new \in Mech /\ SameLife(mech, new)
    <3>1. to \in Modes \cup {None} /\ y \in Nat
      BY <2>2, <2>3
    <3> HIDE DEF to, y
    <3> QED  BY <3>1, UpdateMode
  <2> QED  BY <2>1, <2>4
<1> QED  BY <1>1, <1>2, <1>3 DEF Mech

LEMMA Ladders ==
    ASSUME NEW mech \in Mech, NEW tick \in Nat
    PROVE  Ladder(mech, tick) \in Mech /\ SameLife(mech, Ladder(mech, tick))
<1>1. CASE mech.heat < Rules.redline
  BY <1>1 DEF Ladder, Mech, SameLife
<1>2. CASE ~(mech.heat < Rules.redline) /\ mech.over > 0
  <2>1. Ladder(mech, tick) = [mech EXCEPT !.redline = mech.redline + 1, !.over = mech.over + 1]
    BY <1>2 DEF Ladder
  <2>2. mech.redline + 1 \in Nat /\ mech.over + 1 \in Nat
    BY DEF Mech
  <2> QED  BY <2>1, <2>2, UpdateOver
<1>3. CASE ~(mech.heat < Rules.redline) /\ ~(mech.over > 0) /\ mech.redline + 1 >= Rules.overloadAfter
  <2>1. Ladder(mech, tick) = [mech EXCEPT !.redline = mech.redline + 1, !.over = 1,
                                          !.disabled = tick + Rules.switchDisabled]
    BY <1>3 DEF Ladder
  <2>2. mech.redline + 1 \in Nat /\ tick + Rules.switchDisabled \in Nat
    BY Numbers DEF Mech
  <2> DEFINE x == mech.redline + 1
             y == tick + Rules.switchDisabled
             new == [mech EXCEPT !.redline = x, !.over = 1, !.disabled = y]
  <2>3. new \in Mech /\ SameLife(mech, new)
    <3>1. x \in Nat /\ y \in Nat
      BY <2>2
    <3> HIDE DEF x, y
    <3> QED  BY <3>1, UpdateDisabled
  <2> QED  BY <2>1, <2>3
<1>4. CASE ~(mech.heat < Rules.redline) /\ ~(mech.over > 0) /\ ~(mech.redline + 1 >= Rules.overloadAfter)
  <2>1. Ladder(mech, tick) = [mech EXCEPT !.redline = mech.redline + 1]
    BY <1>4 DEF Ladder
  <2>2. mech.redline + 1 \in Nat
    BY DEF Mech
  <2> QED  BY <2>1, <2>2 DEF Mech, SameLife
<1> QED  BY <1>1, <1>2, <1>3, <1>4

-----------------------------------------------------------------------------
(* What a tick tells.  Its deaths are deaths of the mechs it leaves.        *)

Dead(mechs, e) ==
    IF e.kind = "PILOT_KILLED" THEN ~mechs[e.mech].pilot ELSE ~mechs[e.mech].alive
Tidings(mechs) ==
    [kind: {"DAMAGE_APPLIED"}, mech: Mechs, after: Nat, by: {"fold"}]
      \cup [kind: {"BOILER_RUPTURED"}, mech: Mechs, by: {"fold"}]
      \cup {e \in [kind: {"MECH_DESTROYED", "PILOT_KILLED"}, mech: Mechs, by: {"fold"}] :
              Dead(mechs, e)}

(* No mech comes back to life.                                              *)
Fewer(old, new) ==
    \A m \in Mechs : (new[m].alive => old[m].alive) /\ (new[m].pilot => old[m].pilot)

LEMMA TidingsStay ==
    ASSUME NEW old, NEW new, Fewer(old, new), NEW s \in Seq(Tidings(old))
    PROVE  s \in Seq(Tidings(new))
<1>1. Tidings(old) \subseteq Tidings(new)
  BY DEF Tidings, Dead, Fewer
<1> HIDE DEF Tidings
<1> QED  BY <1>1

LEMMA Blasting ==
    ASSUME NEW mechs \in [Mechs -> Mech], NEW m \in Mechs
    PROVE  /\ Blasted(mechs, m) \in [Mechs -> Mech] /\ Fewer(mechs, Blasted(mechs, m))
           /\ BlastReports(mechs, m) \in Seq(Tidings(Blasted(mechs, m)))
<1> DEFINE after == Blasted(mechs, m)
<1>1. \A o \in Mechs : AfterBlast(mechs[o]) \in Nat
  BY Numbers DEF AfterBlast, High, Mech
<1>2. \A o \in Mechs : after[o] = IF o \notin InBlast(mechs, m) THEN mechs[o]
        ELSE [mechs[o] EXCEPT !.hp = AfterBlast(mechs[o]), !.alive = AfterBlast(mechs[o]) # 0]
  BY DEF Blasted
<1>3. ASSUME NEW o \in Mechs
      PROVE  /\ after[o] \in Mech /\ after[o].pilot = mechs[o].pilot
             /\ o \notin InBlast(mechs, m) => after[o] = mechs[o]
             /\ o \in InBlast(mechs, m) => after[o].alive = (AfterBlast(mechs[o]) # 0)
  <2>1. ASSUME NEW mech \in Mech, NEW x \in Nat
        PROVE  LET new == [mech EXCEPT !.hp = x, !.alive = x # 0]
               IN  new \in Mech /\ new.pilot = mech.pilot /\ new.alive = (x # 0)
    BY DEF Mech
  <2>2. mechs[o] \in Mech
    OBVIOUS
  <2> DEFINE mech == mechs[o]
             x == AfterBlast(mechs[o])
             new == [mech EXCEPT !.hp = x, !.alive = x # 0]
  <2>3. new \in Mech /\ new.pilot = mech.pilot /\ new.alive = (x # 0)
    <3>1. mech \in Mech /\ x \in Nat
      BY <1>1, <2>2
    <3> HIDE DEF mech, x
    <3> QED  BY <2>1, <3>1
  <2>4. after[o] = IF o \notin InBlast(mechs, m) THEN mech ELSE new
    BY <1>2
  <2> HIDE DEF new, after
  <2> QED  BY <2>2, <2>3, <2>4
<1>4. after \in [Mechs -> Mech]
  BY <1>3 DEF Blasted
<1>5. Fewer(mechs, after)
  BY <1>3 DEF Fewer, InBlast
<1>6. ASSUME NEW o \in Mechs
      PROVE  (IF o \notin InBlast(mechs, m) THEN <<>>
              ELSE <<Damage(o, AfterBlast(mechs[o]), "fold")>>
                   \o (IF AfterBlast(mechs[o]) # 0 THEN <<>>
                       ELSE <<About("MECH_DESTROYED", o, "fold")>>)) \in Seq(Tidings(after))
  <2>1. Damage(o, AfterBlast(mechs[o]), "fold") \in Tidings(after)
    BY <1>1 DEF Damage, Tidings
  <2>2. o \in InBlast(mechs, m) /\ AfterBlast(mechs[o]) = 0
          => About("MECH_DESTROYED", o, "fold") \in Tidings(after)
    BY <1>3 DEF About, Tidings, Dead
  <2> HIDE DEF after
  <2> QED  BY <2>1, <2>2
<1>7. BlastReports(mechs, m) \in Seq(Tidings(after))
  <2> DEFINE report(o) == IF o \notin InBlast(mechs, m) THEN <<>>
              ELSE <<Damage(o, AfterBlast(mechs[o]), "fold")>>
                   \o (IF AfterBlast(mechs[o]) # 0 THEN <<>>
                       ELSE <<About("MECH_DESTROYED", o, "fold")>>)
             s == report(Roster[1])
             t == report(Roster[2])
  <2>1. BlastReports(mechs, m) = s \o t
    BY DEF BlastReports
  <2>2. s \in Seq(Tidings(after)) /\ t \in Seq(Tidings(after))
    BY <1>6, TwoMechs
  <2> HIDE DEF s, t, after
  <2> QED  BY <2>1, <2>2
<1> QED  BY <1>4, <1>5, <1>7

(* The accumulator of the cascade.                                          *)
Sound(acc) ==
    /\ acc = [mechs |-> acc.mechs, out |-> acc.out]
    /\ acc.mechs \in [Mechs -> Mech] /\ acc.out \in Seq(Tidings(acc.mechs))

LEMMA Rupturing ==
    ASSUME NEW acc, Sound(acc), NEW m \in Mechs, NEW lucky
    PROVE  LET new == Rupture(acc, m, lucky)
           IN  Sound(new) /\ Fewer(acc.mechs, new.mechs)
<1> DEFINE new == Rupture(acc, m, lucky)
           hurt == High(0, acc.mechs[m].hp - Rules.direct)
           wreck == [acc.mechs[m] EXCEPT !.hp = hurt, !.alive = FALSE,
                                         !.pilot = acc.mechs[m].pilot /\ m \in lucky]
           gone == [acc.mechs EXCEPT ![m] = wreck]
           killed == IF m \in lucky THEN <<>> ELSE <<About("PILOT_KILLED", m, "fold")>>
           told == <<About("BOILER_RUPTURED", m, "fold"), Damage(m, hurt, "fold")>>
           own == told \o killed \o <<About("MECH_DESTROYED", m, "fold")>>
<1>1. new = [mechs |-> Blasted(gone, m), out |-> acc.out \o own \o BlastReports(gone, m)]
  BY DEF Rupture
<1>2. acc.mechs \in [Mechs -> Mech] /\ acc.mechs[m] \in Mech /\ acc.out \in Seq(Tidings(acc.mechs))
  BY DEF Sound
<1>3. hurt \in Nat
  <2>1. acc.mechs[m].hp \in Nat
    BY <1>2 DEF Mech
  <2>2. acc.mechs[m].hp - Rules.direct \in Int
    BY <2>1, Numbers
  <2> QED  BY <2>2 DEF High
<1>4. wreck \in Mech /\ ~wreck.alive /\ (m \notin lucky => ~wreck.pilot) /\ (wreck.pilot => acc.mechs[m].pilot)
  <2>1. ASSUME NEW mech \in Mech, NEW x \in Nat, NEW p \in BOOLEAN
        PROVE  LET after == [mech EXCEPT !.hp = x, !.alive = FALSE, !.pilot = p]
               IN  after \in Mech /\ ~after.alive /\ after.pilot = p
    BY DEF Mech
  <2> DEFINE mech == acc.mechs[m]
             p == acc.mechs[m].pilot /\ m \in lucky
             after == [mech EXCEPT !.hp = hurt, !.alive = FALSE, !.pilot = p]
  <2>2. after \in Mech /\ ~after.alive /\ after.pilot = p
    <3>1. mech \in Mech /\ p \in BOOLEAN
      BY <1>2 DEF Mech
    <3> HIDE DEF mech, p, hurt
    <3> QED  BY <1>3, <2>1, <3>1
  <2>3. wreck = after
    OBVIOUS
  <2> HIDE DEF wreck, after
  <2> QED  BY <2>2, <2>3
<1>5. gone \in [Mechs -> Mech] /\ gone[m] = wreck /\ \A o \in Mechs \ {m} : gone[o] = acc.mechs[o]
  <2> HIDE DEF wreck
  <2> QED  BY <1>2, <1>4
<1>6. Fewer(acc.mechs, gone)
  <2> HIDE DEF gone, wreck
  <2> QED  BY <1>4, <1>5 DEF Fewer
<1>7. own \in Seq(Tidings(gone))
  <2>1. About("BOILER_RUPTURED", m, "fold") \in Tidings(gone)
    BY DEF About, Tidings
  <2>2. Damage(m, hurt, "fold") \in Tidings(gone)
    BY <1>3 DEF Damage, Tidings
  <2>3. About("MECH_DESTROYED", m, "fold") \in Tidings(gone)
    <3> HIDE DEF gone, wreck
    <3> QED  BY <1>4, <1>5 DEF About, Tidings, Dead
  <2>4. m \notin lucky => About("PILOT_KILLED", m, "fold") \in Tidings(gone)
    <3> HIDE DEF gone, wreck
    <3> QED  BY <1>4, <1>5 DEF About, Tidings, Dead
  <2>5. told \in Seq(Tidings(gone)) /\ killed \in Seq(Tidings(gone))
    <3> HIDE DEF gone
    <3> QED  BY <2>1, <2>2, <2>4
  <2> HIDE DEF gone, told, killed
  <2> QED  BY <2>3, <2>5
<1> DEFINE after == Blasted(gone, m)
<1>8. after \in [Mechs -> Mech] /\ Fewer(gone, after) /\ BlastReports(gone, m) \in Seq(Tidings(after))
  <2> HIDE DEF gone
  <2> QED  BY <1>5, Blasting
<1>9. Fewer(acc.mechs, after)
  <2> HIDE DEF gone, after
  <2> QED  BY <1>6, <1>8 DEF Fewer
<1>10. acc.out \in Seq(Tidings(after)) /\ own \in Seq(Tidings(after))
  <2> HIDE DEF gone, after, own
  <2> QED  BY <1>2, <1>7, <1>8, <1>9, TidingsStay
<1>11. acc.out \o own \o BlastReports(gone, m) \in Seq(Tidings(after))
  <2> HIDE DEF gone, after, own
  <2> QED  BY <1>8, <1>10
<1>12. new.mechs = after /\ new.out = acc.out \o own \o BlastReports(gone, m)
  <2> HIDE DEF gone, after, own, new
  <2> QED  BY <1>1 DEF after
<1>13. new = [mechs |-> new.mechs, out |-> new.out]
  <2> HIDE DEF gone, own
  <2> QED  BY <1>1
<1>14. Sound(new) /\ Fewer(acc.mechs, new.mechs)
  <2> HIDE DEF gone, after, own, new
  <2>1. new.mechs \in [Mechs -> Mech] /\ Fewer(acc.mechs, new.mechs)
    BY <1>8, <1>9, <1>12
  <2>2. new.out \in Seq(Tidings(new.mechs))
    BY <1>11, <1>12
  <2> QED  BY <1>13, <2>1, <2>2 DEF Sound
<1> QED  BY <1>14

LEMMA FewerChains ==
    ASSUME NEW a, NEW b, NEW c, Fewer(a, b), Fewer(b, c)
    PROVE  Fewer(a, c)
BY DEF Fewer

LEMMA CascadeStep ==
    ASSUME NEW acc, Sound(acc), NEW m \in Mechs, NEW tick \in Nat, NEW lucky
    PROVE  /\ Sound(CascadeMech(acc, m, tick, lucky))
           /\ Fewer(acc.mechs, CascadeMech(acc, m, tick, lucky).mechs)
<1> DEFINE rung == [acc EXCEPT !.mechs = [acc.mechs EXCEPT ![m] = Ladder(acc.mechs[m], tick)]]
<1>1. CASE ~acc.mechs[m].alive
  BY <1>1 DEF CascadeMech, Fewer
<1>2. CASE acc.mechs[m].alive
  <2>1. CascadeMech(acc, m, tick, lucky) =
          IF Ruptures(rung.mechs[m]) THEN Rupture(rung, m, lucky) ELSE rung
    BY <1>2 DEF CascadeMech
  <2>2. /\ acc = [mechs |-> acc.mechs, out |-> acc.out] /\ acc.mechs \in [Mechs -> Mech]
        /\ acc.mechs[m] \in Mech /\ acc.out \in Seq(Tidings(acc.mechs))
    BY DEF Sound
  <2> DEFINE new == [acc.mechs EXCEPT ![m] = Ladder(acc.mechs[m], tick)]
  <2>3. rung = [mechs |-> new, out |-> acc.out]
    <3> HIDE DEF new
    <3>1. [acc EXCEPT !.mechs = new] = [mechs |-> new, out |-> acc.out]
      BY <2>2
    <3> QED  BY <3>1 DEF new
  <2>4. rung.mechs = new /\ rung.out = acc.out
    BY <2>3
  <2>5. Ladder(acc.mechs[m], tick) \in Mech /\ SameLife(acc.mechs[m], Ladder(acc.mechs[m], tick))
    BY <2>2, Ladders
  <2>6. new \in [Mechs -> Mech] /\ Fewer(acc.mechs, new)
    BY <2>2, <2>5 DEF Fewer, SameLife
  <2>7. acc.out \in Seq(Tidings(new))
    <3> HIDE DEF new
    <3> QED  BY <2>2, <2>6, TidingsStay
  <2>8. Sound(rung)
    <3> HIDE DEF new, rung
    <3> QED  BY <2>3, <2>4, <2>6, <2>7 DEF Sound
  <2>9. Sound(Rupture(rung, m, lucky)) /\ Fewer(rung.mechs, Rupture(rung, m, lucky).mechs)
    <3> HIDE DEF rung
    <3> QED  BY <2>8, Rupturing
  <2>10. Fewer(acc.mechs, Rupture(rung, m, lucky).mechs)
    <3> HIDE DEF rung, new
    <3> QED  BY <2>4, <2>6, <2>9, FewerChains
  <2> HIDE DEF rung, new
  <2> QED  BY <2>1, <2>4, <2>6, <2>8, <2>9, <2>10
<1> QED  BY <1>1, <1>2

CascadeDone(mechs, tick, lucky) ==
    CascadeMech(CascadeMech([mechs |-> mechs, out |-> <<>>], Roster[1], tick, lucky),
                Roster[2], tick, lucky)

LEMMA CascadeSound ==
    ASSUME NEW mechs \in [Mechs -> Mech], NEW tick \in Nat, NEW lucky
    PROVE  /\ Sound(CascadeDone(mechs, tick, lucky))
           /\ Fewer(mechs, CascadeDone(mechs, tick, lucky).mechs)
<1> DEFINE none == [mechs |-> mechs, out |-> <<>>]
           first == CascadeMech(none, Roster[1], tick, lucky)
           done == CascadeMech(first, Roster[2], tick, lucky)
<1>1. Sound(none) /\ none.mechs = mechs
  BY DEF Sound
<1>2. Sound(first) /\ Fewer(mechs, first.mechs)
  <2> HIDE DEF none
  <2> QED  BY <1>1, TwoMechs, CascadeStep
<1>3. Sound(done) /\ Fewer(first.mechs, done.mechs)
  <2> HIDE DEF first
  <2> QED  BY <1>2, TwoMechs, CascadeStep
<1>4. Fewer(mechs, done.mechs)
  <2> HIDE DEF first, done
  <2> QED  BY <1>2, <1>3, FewerChains
<1>5. done = CascadeDone(mechs, tick, lucky)
  BY DEF CascadeDone
<1> HIDE DEF first, done, none
<1> QED  BY <1>3, <1>4, <1>5

(* How many live.                                                           *)
LEMMA Counting ==
    ASSUME NEW mechs
    PROVE  /\ Living(mechs) \subseteq Mechs /\ Cardinality(Living(mechs)) \in Nat
           /\ Cardinality(Living(mechs)) = 0 <=> Living(mechs) = {}
<1>1. Living(mechs) \subseteq Mechs
  BY DEF Living
<1>2. IsFiniteSet(Living(mechs))
  BY <1>1, TwoMechs, FS_Subset
<1> QED  BY <1>1, <1>2, FS_CardinalityType, FS_EmptySet

Verdicts == [kind: Terminals, winner: Mechs \cup {None}, reason: Reasons, by: {"fold"}]

LEMMA CascadeVerdict ==
    ASSUME NEW before, NEW mechs
    PROVE  LET term == CascadeTerminal(before, Living(mechs))
           IN  term = <<>> \/ (Cardinality(Living(mechs)) < 2 /\ \E e \in Verdicts : term = <<e>>)
<1> DEFINE after == Living(mechs)
<1>1. CASE before = {}
  BY <1>1 DEF CascadeTerminal
<1>2. CASE before # {} /\ after = {}
  <2>1. CascadeTerminal(before, after) = <<Ended(None, "draw_mutual_destruction", "fold")>>
    BY <1>2 DEF CascadeTerminal
  <2>2. Ended(None, "draw_mutual_destruction", "fold") \in Verdicts
    BY DEF Ended, Verdicts, Terminals, Reasons
  <2>3. Cardinality(after) < 2
    BY <1>2, Counting
  <2> HIDE DEF after
  <2> QED  BY <2>1, <2>2, <2>3 DEF after
<1>3. CASE before # {} /\ after # {} /\ Cardinality(before) > 1 /\ Cardinality(after) = 1
  <2> DEFINE m == CHOOSE m \in after : TRUE
  <2>1. CascadeTerminal(before, after) = <<Victory(m, "last_mech_standing", "fold")>>
    BY <1>3 DEF CascadeTerminal
  <2>2. m \in Mechs
    BY <1>3, Counting
  <2>3. Victory(m, "last_mech_standing", "fold") \in Verdicts
    <3> HIDE DEF m
    <3> QED  BY <2>2 DEF Victory, Verdicts, Terminals, Reasons
  <2>4. Cardinality(after) < 2
    BY <1>3
  <2> HIDE DEF after, m
  <2> QED  BY <2>1, <2>3, <2>4 DEF after
<1>4. CASE before # {} /\ after # {} /\ ~(Cardinality(before) > 1 /\ Cardinality(after) = 1)
  BY <1>4 DEF CascadeTerminal
<1> QED  BY <1>1, <1>2, <1>3, <1>4

(* Scoring moves the victory points only, and is silent among fewer than two. *)
Quiet(old, new) ==
    /\ new \in Match
    /\ new.status = old.status /\ new.tick = old.tick /\ new.max = old.max
    /\ new.winner = old.winner /\ new.reason = old.reason

LEMMA Scoring ==
    ASSUME NEW m0 \in Match
    PROVE  LET scored == Score(m0)
           IN  /\ Quiet(m0, scored.match) /\ scored.match.mechs = m0.mechs
               /\ scored.out = <<>> \/ (Cardinality(Living(m0.mechs)) >= 2
                                          /\ \E e \in Verdicts : scored.out = <<e>>)
<1> DEFINE scorer == Controllers(m0.mechs)
           vp == [m \in Mechs |-> m0.vp[m] + (IF scorer = {m} THEN Rules.vpRound ELSE 0)]
           leaders == {m \in Mechs : vp[m] >= Rules.vpLine /\ \A o \in Mechs : vp[o] <= vp[m]}
           cond == \/ Rules.vpLine = 0 \/ Cardinality(Living(m0.mechs)) < 2
                   \/ Cardinality(scorer) # 1 /\ ~m0.bountyDue
           new == [m0 EXCEPT !.vp = vp, !.bountyDue = FALSE]
           out == IF Cardinality(leaders) = 1
                  THEN <<Victory(CHOOSE m \in leaders : TRUE, "vp_threshold", "fold")>> ELSE <<>>
           scored == Score(m0)
<1>1. scored = IF cond THEN [match |-> m0, out |-> <<>>] ELSE [match |-> new, out |-> out]
  BY DEF Score
<1>2. vp \in [Mechs -> Nat]
  <2>1. \A m \in Mechs : m0.vp[m] \in Nat
    BY DEF Match
  <2>2. \A m \in Mechs : m0.vp[m] + (IF scorer = {m} THEN Rules.vpRound ELSE 0) \in Nat
    <3> HIDE DEF scorer
    <3> QED  BY <2>1, Numbers
  <2> HIDE DEF scorer
  <2> QED  BY <2>2
<1>3. Quiet(m0, new) /\ new.mechs = m0.mechs
  <2> HIDE DEF vp
  <2> QED  BY <1>2 DEF Quiet, Match
<1>4. Quiet(m0, m0)
  BY DEF Quiet
<1>5. out = <<>> \/ \E e \in Verdicts : out = <<e>>
  <2>1. CASE Cardinality(leaders) = 1
    <3> DEFINE m == CHOOSE m \in leaders : TRUE
    <3>1. leaders # {}
      <4> HIDE DEF leaders
      <4> QED  BY <2>1, FS_EmptySet
    <3>2. m \in Mechs
      <4>1. m \in leaders
        <5> HIDE DEF leaders
        <5> QED  BY <3>1
      <4> QED  BY <4>1
    <3>3. Victory(m, "vp_threshold", "fold") \in Verdicts
      <4> HIDE DEF m
      <4> QED  BY <3>2 DEF Victory, Verdicts, Terminals, Reasons
    <3>4. out = <<Victory(m, "vp_threshold", "fold")>>
      BY <2>1
    <3> QED  BY <3>3, <3>4
  <2> QED  BY <2>1
<1>6. ~cond => Cardinality(Living(m0.mechs)) >= 2
  BY Counting
<1> HIDE DEF cond, new, out, scored
<1>7. CASE cond
  <2>1. scored.match = m0 /\ scored.out = <<>>
    BY <1>1, <1>7
  <2> QED  BY <1>4, <2>1 DEF scored
<1>8. CASE ~cond
  <2>1. scored.match = new /\ scored.out = out
    BY <1>1, <1>8
  <2> QED  BY <1>3, <1>5, <1>6, <1>8, <2>1 DEF scored
<1> QED  BY <1>7, <1>8

(* What a tick derives: tidings of the mechs it leaves, then a verdict at most. *)
Told1(f) ==
    \E body \in Seq(Tidings(f.match.mechs)) :
        f.out = body \/ \E v \in Verdicts : f.out = Append(body, v)

-----------------------------------------------------------------------------
(* A tick.                                                                  *)

LEMMA FreshMechs ==
    ASSUME NEW m0 \in Match, NEW tick \in Nat
    PROVE  [m \in Mechs |-> ModeAdvanced(
                ArmorRegenerated(CountersDecremented(BoilerTick(m0.mechs[m]))), tick)] \in [Mechs -> Mech]
<1>1. ASSUME NEW m \in Mechs
      PROVE  ModeAdvanced(ArmorRegenerated(CountersDecremented(BoilerTick(m0.mechs[m]))), tick) \in Mech
  <2>1. m0.mechs[m] \in Mech
    BY DEF Match
  <2>2. BoilerTick(m0.mechs[m]) \in Mech
    BY <2>1, Boilers
  <2>3. CountersDecremented(BoilerTick(m0.mechs[m])) \in Mech
    BY <2>2, Counters
  <2>4. ArmorRegenerated(CountersDecremented(BoilerTick(m0.mechs[m]))) \in Mech
    BY <2>3, Armours
  <2> QED  BY <2>4, ModesAdvance
<1> QED  BY <1>1

LEMMA TickTells ==
    ASSUME NEW m0 \in Match, NEW tick \in Nat
    PROVE  LET f == TickEffects(m0, tick)
           IN  Quiet(m0, f.match) /\ f.nested = <<>> /\ ~f.refused /\ Told1(f)
<1> DEFINE fresh == [m \in Mechs |-> ModeAdvanced(
                ArmorRegenerated(CountersDecremented(BoilerTick(m0.mechs[m]))), tick)]
           done == CascadeDone(fresh, tick, m0.lucky)
           term == CascadeTerminal(Living(fresh), Living(done.mechs))
           cascade == Cascade(fresh, tick, m0.lucky)
           mid == [m0 EXCEPT !.mechs = cascade.mechs]
           scored == Score(mid)
           f == TickEffects(m0, tick)
<1>1. f = Folded(scored.match, cascade.out \o scored.out)
  BY DEF TickEffects
<1>2. fresh \in [Mechs -> Mech]
  BY FreshMechs
<1>3. Sound(done)
  <2> HIDE DEF fresh
  <2> QED  BY <1>2, CascadeSound
<1>4. cascade = [done EXCEPT !.out = done.out \o term]
  BY DEF Cascade, CascadeDone
<1>5. /\ done = [mechs |-> done.mechs, out |-> done.out] /\ done.mechs \in [Mechs -> Mech]
      /\ done.out \in Seq(Tidings(done.mechs))
  <2> HIDE DEF done
  <2> QED  BY <1>3 DEF Sound
<1>6. cascade.mechs = done.mechs /\ cascade.out = done.out \o term
  <2> HIDE DEF done, term, cascade
  <2> QED  BY <1>4, <1>5
<1>7. mid \in Match /\ Quiet(m0, mid) /\ mid.mechs = done.mechs
  <2>1. mid = [m0 EXCEPT !.mechs = done.mechs]
    BY <1>6
  <2> HIDE DEF done, mid
  <2> QED  BY <1>5, <2>1 DEF Match, Quiet
<1>8. /\ Quiet(mid, scored.match) /\ scored.match.mechs = mid.mechs
      /\ scored.out = <<>> \/ (Cardinality(Living(mid.mechs)) >= 2 /\ \E e \in Verdicts : scored.out = <<e>>)
  <2> HIDE DEF mid
  <2> QED  BY <1>7, Scoring
<1>9. term = <<>> \/ (Cardinality(Living(done.mechs)) < 2 /\ \E e \in Verdicts : term = <<e>>)
  <2> HIDE DEF fresh, done
  <2> QED  BY CascadeVerdict
<1>10. f.match = scored.match /\ f.nested = <<>> /\ ~f.refused /\ f.out = cascade.out \o scored.out
  <2> HIDE DEF scored, cascade, f
  <2> QED  BY <1>1 DEF Folded
<1>11. Quiet(m0, f.match) /\ f.match.mechs = done.mechs
  <2> HIDE DEF scored, mid, done, f
  <2> QED  BY <1>7, <1>8, <1>10 DEF Quiet
<1>12. Cardinality(Living(done.mechs)) \in Nat
  BY Counting
<1>13. f.out = (done.out \o term) \o scored.out
  BY <1>6, <1>10
<1>14. f.out = done.out \/ \E v \in Verdicts : f.out = Append(done.out, v)
  <2> HIDE DEF done, term, scored, f, mid
  <2>1. CASE term = <<>> /\ scored.out = <<>>
    BY <1>5, <1>13, <2>1
  <2>2. CASE term # <<>>
    <3>1. PICK v \in Verdicts : term = <<v>>
      BY <1>9, <2>2
    <3>2. scored.out = <<>>
      BY <1>7, <1>8, <1>9, <1>12, <2>2
    <3>3. f.out = Append(done.out, v)
      BY <1>5, <1>13, <3>1, <3>2
    <3> QED  BY <3>3
  <2>3. CASE term = <<>> /\ scored.out # <<>>
    <3>1. PICK v \in Verdicts : scored.out = <<v>>
      BY <1>8, <2>3
    <3>2. f.out = Append(done.out, v)
      BY <1>5, <1>13, <2>3, <3>1
    <3> QED  BY <3>2
  <2> QED  BY <2>1, <2>2, <2>3
<1> HIDE DEF f, done
<1>15. Told1(f)
  BY <1>5, <1>11, <1>14 DEF Told1
<1> QED  BY <1>10, <1>11, <1>15 DEF f

(* The clock.                                                               *)
LEMMA ClockTells ==
    ASSUME NEW m0 \in Match, NEW tick \in Nat
    PROVE  LET f == ClockEnds(m0, tick)
           IN  /\ f.match \in Match /\ f.match.status = "ended" /\ ~f.refused /\ f.out = <<>>
               /\ \E v \in Ends : f.nested = <<v>> /\ v.by = "lifecycle"
                        /\ v.winner = f.match.winner /\ v.reason = f.match.reason
<1> DEFINE left == Living(m0.mechs)
           f == ClockEnds(m0, tick)
<1>1. CASE Cardinality(left) = 1
  <2> DEFINE m == CHOOSE m \in left : TRUE
             new == Over(m0, tick, m, "last_mech_standing")
             v == Victory(m, "last_mech_standing", "lifecycle")
  <2>1. f = [Unchanged(new) EXCEPT !.nested = <<v>>]
    BY <1>1 DEF ClockEnds
  <2>2. m \in Mechs
    <3>1. left # {}
      BY <1>1, Counting
    <3> QED  BY <3>1, Counting
  <2>3. new \in Match /\ new.status = "ended" /\ new.winner = m /\ new.reason = "last_mech_standing"
    <3> HIDE DEF m
    <3> QED  BY <2>2 DEF Over, Match, Reasons
  <2>4. v \in Ends /\ v.by = "lifecycle" /\ v.winner = m /\ v.reason = "last_mech_standing"
    <3> HIDE DEF m
    <3> QED  BY <2>2 DEF Victory, Ends, Terminals, Reasons, Publishers
  <2>5. f.match = new /\ ~f.refused /\ f.out = <<>> /\ f.nested = <<v>>
    <3> HIDE DEF m, new, v, f
    <3> QED  BY <2>1 DEF Unchanged, Folded
  <2> HIDE DEF m, new, v, f
  <2> QED  BY <2>3, <2>4, <2>5 DEF f
<1>2. CASE Cardinality(left) # 1
  <2> DEFINE new == Over(m0, tick, None, "draw_max_ticks")
             v == Ended(None, "draw_max_ticks", "lifecycle")
  <2>1. f = [Unchanged(new) EXCEPT !.nested = <<v>>]
    BY <1>2 DEF ClockEnds
  <2>3. new \in Match /\ new.status = "ended" /\ new.winner = None /\ new.reason = "draw_max_ticks"
    BY DEF Over, Match, Reasons
  <2>4. v \in Ends /\ v.by = "lifecycle" /\ v.winner = None /\ v.reason = "draw_max_ticks"
    BY DEF Ended, Ends, Terminals, Reasons, Publishers
  <2>5. f.match = new /\ ~f.refused /\ f.out = <<>> /\ f.nested = <<v>>
    <3> HIDE DEF new, v, f
    <3> QED  BY <2>1 DEF Unchanged, Folded
  <2> HIDE DEF new, v, f
  <2> QED  BY <2>3, <2>4, <2>5 DEF f
<1> QED  BY <1>1, <1>2

(* A legal tick is folded: the clock ends the match, or the effects go on.  *)
LEMMA FoldsTick ==
    ASSUME NEW m0 \in Match, m0.status = "running",
           NEW e \in Ticks, e.tick = m0.tick + 1
    PROVE  LET f == Delta(m0, e)
           IN  /\ f.match \in Match /\ ~f.refused
               /\ \/ /\ m0.max # 0 /\ e.tick >= m0.max
                     /\ f.match.status = "ended" /\ f.out = <<>>
                     /\ \E v \in Ends : f.nested = <<v>> /\ v.by = "lifecycle"
                            /\ v.winner = f.match.winner /\ v.reason = f.match.reason
                  \/ f.match.status = "running" /\ f.match.max = m0.max /\ f.nested = <<>> /\ Told1(f)
<1> DEFINE f == Delta(m0, e)
<1>1. e.kind = "MATCH_TICK" /\ e.tick \in Nat
  BY DEF Ticks
<1>2. f = FoldTick(m0, e)
  BY <1>1 DEF Delta, Terminals
<1>3. CASE m0.max # 0 /\ e.tick >= m0.max
  <2>1. f = ClockEnds(m0, e.tick)
    BY <1>2, <1>3 DEF FoldTick
  <2> QED  BY <1>1, <1>3, <2>1, ClockTells
<1>4. CASE ~(m0.max # 0 /\ e.tick >= m0.max)
  <2> DEFINE mid == [m0 EXCEPT !.tick = e.tick]
  <2>1. f = TickEffects(mid, e.tick)
    BY <1>2, <1>4 DEF FoldTick
  <2>2. mid \in Match /\ mid.status = "running" /\ mid.max = m0.max
    BY <1>1 DEF Match
  <2> HIDE DEF mid
  <2>3. Quiet(mid, f.match) /\ f.nested = <<>> /\ ~f.refused /\ Told1(f)
    BY <1>1, <2>1, <2>2, TickTells
  <2>4. f.match \in Match /\ f.match.status = "running" /\ f.match.max = m0.max
    BY <2>2, <2>3 DEF Quiet
  <2> HIDE DEF f
  <2> QED  BY <2>3, <2>4 DEF f
<1> QED  BY <1>3, <1>4

(* An event that only changes the numbers of one mech or the points.        *)
SameLives(old, new) == \A m \in Mechs : SameLife(old[m], new[m])

LEMMA WithMech ==
    ASSUME NEW m0 \in Match, NEW m \in Mechs, NEW mech \in Mech
    PROVE  LET new == With(m0, m, mech)
           IN  /\ Quiet(m0, new) /\ new.mechs \in [Mechs -> Mech] /\ new.mechs[m] = mech
               /\ \A o \in Mechs \ {m} : new.mechs[o] = m0.mechs[o]
<1> DEFINE all == [m0.mechs EXCEPT ![m] = mech]
           new == With(m0, m, mech)
<1>1. m0.mechs \in [Mechs -> Mech]
  BY DEF Match
<1>2. all \in [Mechs -> Mech] /\ all[m] = mech /\ \A o \in Mechs \ {m} : all[o] = m0.mechs[o]
  BY <1>1
<1>3. new = [m0 EXCEPT !.mechs = all]
  BY DEF With
<1> HIDE DEF all, new
<1>4. Quiet(m0, new) /\ new.mechs = all
  BY <1>2, <1>3 DEF Quiet, Match
<1> QED  BY <1>2, <1>4 DEF new

LEMMA Pays ==
    ASSUME NEW mech \in Mech, NEW cost \in Nat, NEW heat \in Nat
    PROVE  /\ BoilerPays(mech, cost, heat) \in Mech
           /\ SameLife(mech, BoilerPays(mech, cost, heat))
           /\ BoilerPays(mech, cost, heat).hp = mech.hp
<1> DEFINE x == High(mech.pressure - cost, 0)
           y == Low(mech.heat + heat, Rules.rupture)
           new == [mech EXCEPT !.pressure = x, !.heat = y]
<1>1. x \in Nat /\ y \in Nat
  <2>1. mech.pressure \in Nat /\ mech.heat \in Nat
    BY DEF Mech
  <2> QED  BY <2>1, Numbers DEF High, Low
<1>2. new = BoilerPays(mech, cost, heat)
  BY DEF BoilerPays
<1>3. new \in Mech /\ SameLife(mech, new) /\ new.hp = mech.hp
  <2> HIDE DEF x, y
  <2> QED  BY <1>1 DEF Mech, SameLife
<1> HIDE DEF new
<1> QED  BY <1>2, <1>3

(* What the fold of such an event is.                                       *)
Calm(m0, e, f) ==
    /\ f.nested = <<>> /\ f.out = <<>> /\ ~f.refused
    /\ Quiet(m0, f.match) /\ SameLives(m0.mechs, f.match.mechs)
    /\ \A m \in Mechs : f.match.mechs[m].hp =
            IF e.kind = "DAMAGE_APPLIED" /\ e.mech = m THEN e.after ELSE m0.mechs[m].hp

LEMMA CalmWith ==
    ASSUME NEW m0 \in Match, NEW e, e.mech \in Mechs, NEW mech \in Mech,
           SameLife(m0.mechs[e.mech], mech),
           mech.hp = IF e.kind = "DAMAGE_APPLIED" THEN e.after ELSE m0.mechs[e.mech].hp
    PROVE  Calm(m0, e, Unchanged(With(m0, e.mech, mech)))
<1> DEFINE new == With(m0, e.mech, mech)
           f == Unchanged(new)
<1>1. /\ Quiet(m0, new) /\ new.mechs \in [Mechs -> Mech] /\ new.mechs[e.mech] = mech
      /\ \A o \in Mechs \ {e.mech} : new.mechs[o] = m0.mechs[o]
  BY WithMech
<1>2. f.match = new /\ f.nested = <<>> /\ f.out = <<>> /\ ~f.refused
  BY DEF Unchanged, Folded
<1> HIDE DEF new, f
<1>3. SameLives(m0.mechs, new.mechs)
  BY <1>1 DEF SameLives, SameLife
<1>4. \A m \in Mechs : new.mechs[m].hp =
            IF e.kind = "DAMAGE_APPLIED" /\ e.mech = m THEN e.after ELSE m0.mechs[m].hp
  BY <1>1
<1>5. Calm(m0, e, f)
  BY <1>1, <1>2, <1>3, <1>4 DEF Calm
<1> QED  BY <1>5 DEF f, new

LEMMA CalmSame ==
    ASSUME NEW m0 \in Match, NEW e, e.kind # "DAMAGE_APPLIED"
    PROVE  Calm(m0, e, Unchanged(m0))
BY DEF Calm, Unchanged, Folded, Quiet, SameLives, SameLife

(* The fold of each kind of event.                                          *)
LEMMA FoldsMove ==
    ASSUME NEW m0 \in Match, NEW e \in Moves, e.from = m0.mechs[e.mech].cell,
           Distance(e.from, e.to) <= m0.mechs[e.mech].pressure, Distance(e.from, e.to) <= Rules.speed
    PROVE  Calm(m0, e, Delta(m0, e))
<1> DEFINE cost == Distance(e.from, e.to)
           mech == m0.mechs[e.mech]
           new == [mech EXCEPT !.cell = e.to, !.pressure = mech.pressure - cost]
<1>1. e.kind = "MOVEMENT_RESOLVED" /\ e.mech \in Mechs /\ e.from \in Cells /\ e.to \in Cells
  BY DEF Moves
<1>2. mech \in Mech
  BY <1>1 DEF Match
<1>3. cost \in Nat /\ mech.pressure \in Nat /\ mech.pressure - cost \in Nat
  <2>1. e.from \in Nat /\ e.to \in Nat
    BY <1>1, FoldAssumption DEF FoldAssumption
  <2>2. cost \in Nat
    BY <2>1 DEF Distance
  <2>3. mech.pressure \in Nat
    BY <1>2 DEF Mech
  <2>4. cost <= mech.pressure
    OBVIOUS
  <2> HIDE DEF cost, mech
  <2> QED  BY <2>2, <2>3, <2>4
<1>4. Delta(m0, e) = FoldMovement(m0, e)
  BY <1>1 DEF Delta, Terminals
<1>5. FoldMovement(m0, e) = Unchanged(With(m0, e.mech, new))
  <2>1. ~(\/ e.from # mech.cell \/ e.to \notin Cells \/ cost > mech.pressure \/ cost > Rules.speed)
    <3>1. cost <= mech.pressure /\ cost <= Rules.speed
      OBVIOUS
    <3>2. e.from = mech.cell
      OBVIOUS
    <3> HIDE DEF cost, mech
    <3> QED  BY <1>1, <1>3, <3>1, <3>2, Numbers
  <2> QED  BY <2>1 DEF FoldMovement
<1>6. new \in Mech /\ SameLife(mech, new) /\ new.hp = mech.hp
  <2> DEFINE x == mech.pressure - cost
             after == [mech EXCEPT !.cell = e.to, !.pressure = x]
  <2>1. after \in Mech /\ SameLife(mech, after) /\ after.hp = mech.hp
    <3>1. x \in Nat
      BY <1>3
    <3> HIDE DEF x, mech
    <3> QED  BY <1>1, <1>2, <3>1 DEF Mech, SameLife
  <2>2. new = after
    OBVIOUS
  <2> HIDE DEF new, after
  <2> QED  BY <2>1, <2>2
<1>7. Calm(m0, e, Unchanged(With(m0, e.mech, new)))
  <2> HIDE DEF new
  <2> QED  BY <1>1, <1>6, CalmWith
<1> QED  BY <1>4, <1>5, <1>7

LEMMA FoldsSwitch ==
    ASSUME NEW m0 \in Match, NEW e \in Switches, e.from = m0.mechs[e.mech].mode
    PROVE  Calm(m0, e, Delta(m0, e))
<1> DEFINE mech == BoilerPays(m0.mechs[e.mech], Rules.switchCost, Rules.switchHeat)
           new == [mech EXCEPT !.left = Rules.switchTicks, !.to = e.to]
<1>1. e.kind = "MODE_TRANSITION_STARTED" /\ e.mech \in Mechs /\ e.to \in Modes
  BY DEF Switches
<1>2. m0.mechs[e.mech] \in Mech
  BY <1>1 DEF Match
<1>3. mech \in Mech /\ SameLife(m0.mechs[e.mech], mech) /\ mech.hp = m0.mechs[e.mech].hp
  <2>1. Rules.switchCost \in Nat /\ Rules.switchHeat \in Nat
    BY Numbers
  <2> QED  BY <1>2, <2>1, Pays
<1>4. new \in Mech /\ SameLife(mech, new) /\ new.hp = mech.hp
  <2> HIDE DEF mech
  <2> QED  BY <1>1, <1>3, Numbers DEF Mech, SameLife
<1>5. Delta(m0, e) = Unchanged(With(m0, e.mech, new))
  <2>1. Delta(m0, e) = FoldSwitch(m0, e)
    BY <1>1 DEF Delta, Terminals
  <2> QED  BY <2>1 DEF FoldSwitch
<1>6. SameLife(m0.mechs[e.mech], new)
  BY <1>3, <1>4 DEF SameLife
<1>7. Calm(m0, e, Unchanged(With(m0, e.mech, new)))
  <2> HIDE DEF new
  <2> QED  BY <1>1, <1>3, <1>4, <1>6, CalmWith
<1> QED  BY <1>5, <1>7

LEMMA FoldsDamage ==
    ASSUME NEW m0 \in Match, NEW e \in Damages
    PROVE  Calm(m0, e, Delta(m0, e))
<1> DEFINE mech == m0.mechs[e.mech]
           new == [mech EXCEPT !.hp = e.after]
<1>1. e.kind = "DAMAGE_APPLIED" /\ e.mech \in Mechs /\ e.after \in Nat
  BY DEF Damages
<1>2. mech \in Mech
  BY <1>1 DEF Match
<1>3. new \in Mech /\ SameLife(mech, new) /\ new.hp = e.after
  <2> HIDE DEF mech
  <2> QED  BY <1>1, <1>2 DEF Mech, SameLife
<1>4. Delta(m0, e) = Unchanged(With(m0, e.mech, new))
  <2>1. Delta(m0, e) = FoldDamage(m0, e)
    BY <1>1 DEF Delta, Terminals
  <2> QED  BY <2>1 DEF FoldDamage
<1>5. Calm(m0, e, Unchanged(With(m0, e.mech, new)))
  <2> HIDE DEF new
  <2> QED  BY <1>1, <1>3, CalmWith
<1> QED  BY <1>4, <1>5

LEMMA FoldsNotice ==
    ASSUME NEW m0 \in Match, NEW e \in Notices \cup Plans \cup Discs
    PROVE  Calm(m0, e, Delta(m0, e)) /\ (e.kind = "INTENT" => Delta(m0, e).match = m0)
<1>1. CASE e.kind \notin {"WEAPON_FIRED", "UTILITY_DEPLOYED", "ARMOR_ABSORBED"}
  <2>1. /\ e.kind \notin Terminals /\ e.kind \notin {"MATCH_TICK", "MOVEMENT_RESOLVED",
                "MODE_TRANSITION_STARTED", "DAMAGE_APPLIED", "MECH_DESTROYED", "PILOT_KILLED"}
    BY DEF Notices, Plans, Discs, Row, Terminals
  <2>2. Delta(m0, e) = Unchanged(m0)
    BY <1>1, <2>1 DEF Delta
  <2> QED  BY <2>1, <2>2, CalmSame DEF Unchanged, Folded
<1>2. CASE e.kind = "WEAPON_FIRED"
  <2> DEFINE mech == BoilerPays(m0.mechs[e.mech], Rules.fireCost, Rules.fireHeat)
             new == [mech EXCEPT !.cooldown = Rules.cooldown]
  <2>1. e.mech \in Mechs
    BY <1>2 DEF Notices, Plans, Discs, Row
  <2>2. m0.mechs[e.mech] \in Mech
    BY <2>1 DEF Match
  <2>3. mech \in Mech /\ SameLife(m0.mechs[e.mech], mech) /\ mech.hp = m0.mechs[e.mech].hp
    <3>1. Rules.fireCost \in Nat /\ Rules.fireHeat \in Nat
      BY Numbers
    <3> QED  BY <2>2, <3>1, Pays
  <2>4. new \in Mech /\ SameLife(mech, new) /\ new.hp = mech.hp
    <3> HIDE DEF mech
    <3> QED  BY <2>3, Numbers DEF Mech, SameLife
  <2>5. Delta(m0, e) = Unchanged(With(m0, e.mech, new))
    <3>1. Delta(m0, e) = FoldFired(m0, e)
      BY <1>2 DEF Delta, Terminals
    <3> QED  BY <3>1 DEF FoldFired
  <2>6. SameLife(m0.mechs[e.mech], new)
    BY <2>3, <2>4 DEF SameLife
  <2>7. Calm(m0, e, Unchanged(With(m0, e.mech, new)))
    <3> HIDE DEF new
    <3> QED  BY <1>2, <2>1, <2>3, <2>4, <2>6, CalmWith
  <2> QED  BY <1>2, <2>5, <2>7
<1>3. CASE e.kind = "ARMOR_ABSORBED"
  <2> DEFINE mech == m0.mechs[e.mech]
             new == [mech EXCEPT !.armor = e.after]
  <2>1. e.mech \in Mechs /\ e.after \in Nat
    BY <1>3 DEF Notices, Plans, Discs, Row
  <2>2. mech \in Mech
    BY <2>1 DEF Match
  <2>3. new \in Mech /\ SameLife(mech, new) /\ new.hp = mech.hp
    <3> HIDE DEF mech
    <3> QED  BY <2>1, <2>2 DEF Mech, SameLife
  <2>4. Delta(m0, e) = Unchanged(With(m0, e.mech, new))
    <3>1. Delta(m0, e) = FoldArmor(m0, e)
      BY <1>3 DEF Delta, Terminals
    <3> QED  BY <3>1 DEF FoldArmor
  <2>5. Calm(m0, e, Unchanged(With(m0, e.mech, new)))
    <3> HIDE DEF new
    <3> QED  BY <1>3, <2>1, <2>3, CalmWith
  <2> QED  BY <1>3, <2>4, <2>5
<1>4. CASE e.kind = "UTILITY_DEPLOYED"
  <2>1. e.mech \in Mechs
    BY <1>4 DEF Notices, Plans, Discs, Row
  <2>2. Delta(m0, e) = FoldUtility(m0, e)
    BY <1>4 DEF Delta, Terminals
  <2>3. CASE Rules.bounty = 0
    BY <1>4, <2>2, <2>3, CalmSame DEF FoldUtility
  <2>4. CASE Rules.bounty # 0
    <3> DEFINE vp == [m0.vp EXCEPT ![e.mech] = m0.vp[e.mech] + Rules.bounty]
               new == [m0 EXCEPT !.vp = vp, !.bountyDue = TRUE]
    <3>1. Delta(m0, e) = Unchanged(new)
      BY <2>2, <2>4 DEF FoldUtility
    <3>2. vp \in [Mechs -> Nat]
      BY <2>1, Numbers DEF Match
    <3>3. Quiet(m0, new) /\ new.mechs = m0.mechs
      <4> HIDE DEF vp
      <4> QED  BY <3>2 DEF Quiet, Match
    <3>4. Calm(m0, e, Unchanged(new))
      <4> HIDE DEF new
      <4> QED  BY <1>4, <3>3 DEF Calm, Unchanged, Folded, SameLives, SameLife
    <3> QED  BY <1>4, <3>1, <3>4
  <2> QED  BY <2>3, <2>4
<1> QED  BY <1>1, <1>2, <1>3, <1>4

-----------------------------------------------------------------------------
(* Terminals and deaths.                                                    *)

LEMMA FoldsEnd ==
    ASSUME NEW m0 \in Match, NEW e \in Ends,
           m0.status # "running" => m0.winner = e.winner /\ m0.reason = e.reason
    PROVE  LET f == Delta(m0, e)
           IN  /\ f.nested = <<>> /\ f.out = <<>> /\ ~f.refused
               /\ f.match \in Match /\ f.match.status = "ended" /\ f.match.mechs = m0.mechs
               /\ f.match.winner = e.winner /\ f.match.reason = e.reason
<1> DEFINE f == Delta(m0, e)
           new == Over(m0, m0.tick, e.winner, e.reason)
<1>1. e.kind \in Terminals /\ e.winner \in Mechs \cup {None} /\ e.reason \in Reasons
  BY DEF Ends
<1>2. f = FoldTerminal(m0, e)
  BY <1>1 DEF Delta, Terminals
<1>3. new \in Match /\ new.status = "ended" /\ new.mechs = m0.mechs /\ new.winner = e.winner
        /\ new.reason = e.reason
  BY <1>1 DEF Over, Match
<1>4. CASE m0.status = "running"
  <2>1. f = Unchanged(new)
    BY <1>2, <1>4 DEF FoldTerminal
  <2>2. f.nested = <<>> /\ f.out = <<>> /\ ~f.refused /\ f.match = new
    <3> HIDE DEF new, f
    <3> QED  BY <2>1 DEF Unchanged, Folded
  <2> HIDE DEF new, f
  <2> QED  BY <1>3, <2>2 DEF f
<1>5. CASE m0.status # "running"
  <2>1. f = Unchanged(m0) /\ m0.status = "ended"
    BY <1>2, <1>5 DEF FoldTerminal, Match
  <2>2. f.nested = <<>> /\ f.out = <<>> /\ ~f.refused /\ f.match = m0
    <3> HIDE DEF f
    <3> QED  BY <2>1 DEF Unchanged, Folded
  <2> HIDE DEF f
  <2> QED  BY <1>5, <2>1, <2>2 DEF f
<1> QED  BY <1>4, <1>5

(* The terminal of a death: none once the match is over, a victory at most  *)
(* while another mech lives, and none while that mech has no hit points.    *)
LEMMA DeathVerdict ==
    ASSUME NEW m0 \in Match, NEW before, NEW mechs
    PROVE  LET out == DeathTerminal(m0, before, mechs)
           IN  /\ out = <<>> \/ (m0.status = "running" /\ \E v \in Verdicts : out = <<v>>)
               /\ Living(mechs) # {} => out = <<>> \/ \E v \in Verdicts : v.kind = "VICTORY_DECLARED" /\ out = <<v>>
               /\ Living(mechs) # {} /\ (\A m \in Living(mechs) : mechs[m].hp = 0) => out = <<>>
<1> DEFINE after == Living(mechs)
           out == DeathTerminal(m0, before, mechs)
           quiet == \/ Cardinality(before) <= 1 \/ Cardinality(after) > 1
                    \/ \A m \in after : mechs[m].hp = 0
           m == CHOOSE m \in after : TRUE
           win == Victory(m, "last_mech_standing", "fold")
           draw == Ended(None, "draw_mutual_destruction", "fold")
<1>1. out = IF m0.status # "running" \/ before = {} THEN <<>>
            ELSE IF after = {} THEN <<draw>>
            ELSE IF quiet THEN <<>> ELSE <<win>>
  BY DEF DeathTerminal
<1>2. draw \in Verdicts
  BY DEF Ended, Verdicts, Terminals, Reasons
<1>3. after # {} => win \in Verdicts /\ win.kind = "VICTORY_DECLARED"
  <2>1. after # {} => m \in Mechs
    BY Counting
  <2> HIDE DEF m
  <2> QED  BY <2>1 DEF Victory, Verdicts, Terminals, Reasons
<1>4. (\A x \in after : mechs[x].hp = 0) => quiet
  OBVIOUS
<1> HIDE DEF quiet, win, draw, out, m, after
<1>5. out = <<>> \/ (m0.status = "running" /\ \E v \in Verdicts : out = <<v>>)
  BY <1>1, <1>2, <1>3
<1>6. after # {} => out = <<>> \/ \E v \in Verdicts : v.kind = "VICTORY_DECLARED" /\ out = <<v>>
  BY <1>1, <1>3
<1>7. after # {} /\ (\A x \in after : mechs[x].hp = 0) => out = <<>>
  BY <1>1, <1>4
<1> QED  BY <1>5, <1>6, <1>7 DEF out, after

(* A death the match knows of changes nothing; another takes one mech.      *)
LEMMA FoldsDeath ==
    ASSUME NEW m0 \in Match, NEW e \in Deaths
    PROVE  LET f == Delta(m0, e)
           IN  /\ f.nested = <<>> /\ ~f.refused /\ Quiet(m0, f.match)
               /\ Dead(m0.mechs, e) => f.match = m0 /\ f.out = <<>>
               /\ \A m \in Mechs : f.match.mechs[m].hp = m0.mechs[m].hp
               /\ \A m \in Mechs \ {e.mech} : f.match.mechs[m] = m0.mechs[m]
               /\ f.out = <<>> \/ (m0.status = "running" /\ \E v \in Verdicts : f.out = <<v>>)
               /\ (\E m \in Living(m0.mechs) : m # e.mech) =>
                    f.out = <<>> \/ \E v \in Verdicts : v.kind = "VICTORY_DECLARED" /\ f.out = <<v>>
               /\ (\E m \in Living(m0.mechs) : m # e.mech /\ m0.mechs[m].hp = 0) => f.out = <<>>
<1> DEFINE f == Delta(m0, e)
           mech == m0.mechs[e.mech]
           lost == IF e.kind = "PILOT_KILLED" THEN [mech EXCEPT !.pilot = FALSE]
                   ELSE [mech EXCEPT !.alive = FALSE]
           after == With(m0, e.mech, lost)
           out == DeathTerminal(m0, Living(m0.mechs), after.mechs)
<1>1. e.kind \in {"MECH_DESTROYED", "PILOT_KILLED"} /\ e.mech \in Mechs
  BY DEF Deaths
<1>2. f = FoldDeath(m0, e)
  BY <1>1 DEF Delta, Terminals
<1>3. mech \in Mech
  BY <1>1 DEF Match
<1>4. lost \in Mech /\ lost.hp = mech.hp
       /\ (e.kind = "PILOT_KILLED" => ~lost.pilot) /\ (e.kind # "PILOT_KILLED" => ~lost.alive)
  <2> HIDE DEF mech
  <2> QED  BY <1>3 DEF Mech
<1>5. CASE Dead(m0.mechs, e)
  <2>1. f = Unchanged(m0)
    BY <1>2, <1>5 DEF FoldDeath, Dead
  <2>2. f.nested = <<>> /\ f.out = <<>> /\ ~f.refused /\ f.match = m0
    <3> HIDE DEF f
    <3> QED  BY <2>1 DEF Unchanged, Folded
  <2>3. Quiet(m0, m0)
    BY DEF Quiet
  <2> HIDE DEF f
  <2> QED  BY <2>2, <2>3 DEF f
<1>6. CASE ~Dead(m0.mechs, e)
  <2>1. f = Folded(after, out)
    BY <1>2, <1>6 DEF FoldDeath, Dead
  <2>2. f.nested = <<>> /\ f.out = out /\ ~f.refused /\ f.match = after
    <3> HIDE DEF f, out, after
    <3> QED  BY <2>1 DEF Folded
  <2>3. /\ Quiet(m0, after) /\ after.mechs \in [Mechs -> Mech] /\ after.mechs[e.mech] = lost
        /\ \A o \in Mechs \ {e.mech} : after.mechs[o] = m0.mechs[o]
    <3> HIDE DEF lost
    <3> QED  BY <1>1, <1>4, WithMech
  <2>4. \A m \in Mechs : after.mechs[m].hp = m0.mechs[m].hp
    <3> HIDE DEF after, lost
    <3> QED  BY <1>4, <2>3
  <2>5. /\ out = <<>> \/ (m0.status = "running" /\ \E v \in Verdicts : out = <<v>>)
        /\ Living(after.mechs) # {} => out = <<>> \/ \E v \in Verdicts : v.kind = "VICTORY_DECLARED" /\ out = <<v>>
        /\ Living(after.mechs) # {} /\ (\A m \in Living(after.mechs) : after.mechs[m].hp = 0) => out = <<>>
    <3> HIDE DEF after
    <3> QED  BY DeathVerdict
  <2>6. e.mech \notin Living(after.mechs)
    <3> HIDE DEF after, lost
    <3> QED  BY <1>4, <2>3 DEF Living
  <2>7. \A m \in Living(m0.mechs) : m # e.mech => m \in Living(after.mechs)
    <3> HIDE DEF after, lost
    <3> QED  BY <2>3 DEF Living
  <2>8. \A m, o \in Living(after.mechs) : m = o
    <3> HIDE DEF after, lost
    <3> QED  BY <1>1, <2>6, TwoMechs DEF Living
  <2>9. (\E m \in Living(m0.mechs) : m # e.mech) =>
            out = <<>> \/ \E v \in Verdicts : v.kind = "VICTORY_DECLARED" /\ out = <<v>>
    <3> HIDE DEF after, lost, out
    <3> QED  BY <2>5, <2>7
  <2>10. (\E m \in Living(m0.mechs) : m # e.mech /\ m0.mechs[m].hp = 0) => out = <<>>
    <3> HIDE DEF after, lost, out
    <3>1. ASSUME NEW m \in Living(m0.mechs), m # e.mech, m0.mechs[m].hp = 0
          PROVE  out = <<>>
      <4>1. m \in Living(after.mechs)
        BY <2>7, <3>1
      <4>2. \A o \in Living(after.mechs) : after.mechs[o].hp = 0
        <5>1. m \in Mechs
          BY Counting
        <5>2. after.mechs[m].hp = 0
          BY <2>4, <3>1, <5>1
        <5> QED  BY <2>8, <4>1, <5>2
      <4> QED  BY <2>5, <4>1, <4>2
    <3> QED  BY <3>1
  <2> HIDE DEF f, after, out
  <2>11. Quiet(m0, f.match)
    BY <2>2, <2>3
  <2>12. /\ \A m \in Mechs : f.match.mechs[m].hp = m0.mechs[m].hp
         /\ \A m \in Mechs \ {e.mech} : f.match.mechs[m] = m0.mechs[m]
    BY <2>2, <2>3, <2>4
  <2>13. f.out = <<>> \/ (m0.status = "running" /\ \E v \in Verdicts : f.out = <<v>>)
    BY <2>2, <2>5
  <2> QED  BY <1>6, <2>2, <2>9, <2>10, <2>11, <2>12, <2>13 DEF f
<1> QED  BY <1>5, <1>6

-----------------------------------------------------------------------------
(* The invariant.                                                           *)

Rounds == [order: Seq(Mechs), register: 0 .. Registers - 1]
Calls == {e \in Notices : e.kind \in {"REGISTER_RESOLVED", "INTENT"}}
RowEvents == Plans \cup Discs \cup Calls

Shape ==
    /\ match \in Match /\ agenda \in Seq(Events) /\ stage \in Stages
    /\ todo \in Seq(RowEvents)
    /\ cadence \in {"plain", "atomic", "paced"}
    /\ round \in Rounds \cup {NoRound}
    /\ committed \in Nat
    /\ said.ends \in Nat /\ said.opened \in Nat /\ said.closed \in Nat

Kind(i) == agenda[i].kind
IsEnd(i) == Kind(i) \in Terminals
IsDeath(i) == Kind(i) \in {"MECH_DESTROYED", "PILOT_KILLED"}
IsDisc(i) == Kind(i) = "CARDS_DISCARDED"

(* The match knows of the death already.                                    *)
Known(e) ==
    IF e.kind = "PILOT_KILLED" THEN ~match.mechs[e.mech].pilot ELSE ~match.mechs[e.mech].alive

(* The mech has no hit points left once the agenda is folded.               *)
Doomed(mechs, events, m) ==
    LET hits == {k \in DOMAIN events : events[k].kind = "DAMAGE_APPLIED" /\ events[k].mech = m}
    IN  (\A k \in hits : events[k].after = 0) /\ (mechs[m].hp = 0 \/ hits # {})

(* A tick waits alone or behind the discards it causes.                     *)
TicksWait ==
    \A i \in DOMAIN agenda : Kind(i) = "MATCH_TICK" =>
        /\ stage = "ticked" /\ Running /\ agenda[i].tick = match.tick + 1
        /\ i = Len(agenda) /\ \A j \in 1 .. i - 1 : IsDisc(j)
        /\ match.max # 0 /\ agenda[i].tick >= match.max => round = NoRound

(* A move or a switch is next, or behind its intent, and still legal.       *)
IntentsWait ==
    \A i \in DOMAIN agenda : Kind(i) \in {"MOVEMENT_RESOLVED", "MODE_TRANSITION_STARTED"} =>
        /\ stage = "acting"
        /\ i = 1 \/ (i = 2 /\ Kind(1) = "INTENT")
        /\ LET e == agenda[i]
               mech == match.mechs[e.mech]
           IN  IF Kind(i) = "MODE_TRANSITION_STARTED" THEN e.from = mech.mode
               ELSE /\ e.from = mech.cell
                    /\ Distance(e.from, e.to) <= mech.pressure
                    /\ Distance(e.from, e.to) <= Rules.speed

(* A death on the agenda: of a tick, of a hit, of the pulse.                *)
DeathsWait ==
    \A i \in DOMAIN agenda : IsDeath(i) =>
        /\ stage \in {"ticked", "acting", "top"}
        /\ stage = "ticked" => Known(agenda[i])
        /\ stage = "acting" => /\ i = Len(agenda) /\ \A j \in DOMAIN agenda : ~IsEnd(j)
                               /\ \E m \in Living(match.mechs) : m # agenda[i].mech
        /\ stage = "top" =>
             /\ \A j \in DOMAIN agenda : j > i =>
                    /\ IsDeath(j) /\ agenda[j].mech # agenda[i].mech
                    /\ agenda[j].mech \in Living(match.mechs) /\ Doomed(match.mechs, agenda, agenda[j].mech)
             /\ \A j \in DOMAIN agenda : ~IsEnd(j)

(* One terminal waits at most; of a match that is over it is the verdict.   *)
EndsWait ==
    \A i \in DOMAIN agenda : IsEnd(i) =>
        /\ \A j \in DOMAIN agenda : IsEnd(j) => i = j
        /\ ~Running => agenda[i].winner = match.winner /\ agenda[i].reason = match.reason
        /\ agenda[i].by # "fold" => round = NoRound
        /\ Kind(i) = "MATCH_ENDED" =>
             /\ said.ends = 0 /\ stage \notin {"acting", "after"}
             /\ \A j \in DOMAIN agenda : j > i => IsDisc(j) /\ agenda[i].reason = "aborted"

Verdict ==
    /\ ~Running => match.reason # None
    /\ stage = "after" => agenda = <<>>
    /\ stage \in {"closing", "done"} => ~Running \/ \E i \in DOMAIN agenda : IsEnd(i)
    /\ stage = "done" => said.ends = 1 \/ \E i \in DOMAIN agenda : Kind(i) = "MATCH_ENDED"

(* Behind MATCH_ENDED there are only the discards of a stopped round.       *)
Told ==
    /\ said.ends \in {0, 1}
    /\ said.past \subseteq {"CARDS_DISCARDED"}
    /\ said.past # {} => match.reason = "aborted" /\ said.ends = 1
    /\ said.ends = 1 =>
         /\ ~Running /\ stage \notin {"acting", "after"}
         /\ \A i \in DOMAIN agenda : IsDisc(i)
         /\ agenda # <<>> => match.reason = "aborted"

Flow == TicksWait /\ IntentsWait /\ DeathsWait /\ EndsWait /\ Verdict

(* The card rounds.                                                         *)
Holds(events, kind) == \E i \in DOMAIN events : events[i].kind = kind
One(holds) == IF holds THEN 1 ELSE 0
LastRegister == round # NoRound /\ round.register = Registers - 1
Owed ==
    IF cadence = "paced" THEN round # NoRound /\ ~(LastRegister /\ stage = "acting" /\ todo = <<>>)
    ELSE Holds(todo, "CARDS_DISCARDED")
Committing == stage = "acting" /\ (cadence = "atomic" \/ (cadence = "paced" /\ LastRegister))

Latched ==
    /\ round # NoRound => cadence = "paced" /\ Running /\ stage \notin {"closing", "done"}
    /\ cadence = "plain" => ~Holds(todo, "CARDS_DISCARDED") /\ ~Holds(todo, "PLAN_COMMITTED")
    /\ stage = "acting" /\ cadence = "paced" /\ round = NoRound =>
         ~Running \/ \E i \in DOMAIN agenda : IsEnd(i)
    /\ cadence = "paced" /\ round # NoRound /\ Holds(todo, "CARDS_DISCARDED") => LastRegister
    /\ cadence = "paced" /\ stage = "acting" /\ LastRegister /\ todo # <<>> => Holds(todo, "CARDS_DISCARDED")
    /\ stage # "acting" => todo = <<>>
    /\ stage # "acting" /\ round # NoRound => round.register > 0

(* Where rows of a round wait.                                              *)
RowsWait ==
    /\ \A i, j \in DOMAIN todo : todo[i].kind = "CARDS_DISCARDED" => j <= i
    /\ \A i \in DOMAIN todo : todo[i].kind = "PLAN_COMMITTED" =>
         /\ i = 1 /\ Running /\ agenda = <<>>
    /\ \A i \in DOMAIN agenda : Kind(i) = "PLAN_COMMITTED" => agenda = <<Row("PLAN_COMMITTED")>>
    /\ \A i, j \in DOMAIN agenda : IsDisc(i) /\ IsDisc(j) => i = j
    /\ \A i \in DOMAIN agenda : IsDisc(i) =>
         round = NoRound \/ (agenda = Discards /\ LastRegister /\ todo = <<>> /\ stage = "acting")
    /\ cadence = "paced" /\ LastRegister /\ stage = "acting" /\ todo = <<>> =>
         agenda \in {<<>>, Discards}

Ledger ==
    /\ stage # "raised" =>
        /\ said.opened + One(Holds(agenda, "PLAN_COMMITTED")) + One(Holds(todo, "PLAN_COMMITTED"))
             = said.closed + One(Holds(agenda, "CARDS_DISCARDED")) + One(Owed)
        /\ Committing => committed + 1 <= said.closed + One(Holds(agenda, "CARDS_DISCARDED")) + One(Owed)
    /\ committed <= said.closed /\ said.closed <= said.opened

Plane == Latched /\ RowsWait

IInv ==
    /\ Shape
    /\ stage = "raised" => agenda = <<>>
    /\ stage # "raised" => Flow /\ Told /\ Plane
    /\ stage = "raised" =>
         said.ends \in {0, 1} /\ said.past \subseteq {"CARDS_DISCARDED"}
           /\ (said.past # {} => match.reason = "aborted")
    /\ Ledger
-----------------------------------------------------------------------------
(* Lists of events.                                                         *)

LEMMA Kinds ==
    ASSUME NEW e \in Events
    PROVE  /\ e.kind = "MATCH_TICK" <=> e \in Ticks
           /\ e.kind \in Terminals <=> e \in Ends
           /\ e.kind \in {"MECH_DESTROYED", "PILOT_KILLED"} <=> e \in Deaths
           /\ e.kind = "MOVEMENT_RESOLVED" <=> e \in Moves
           /\ e.kind = "MODE_TRANSITION_STARTED" <=> e \in Switches
           /\ e.kind = "DAMAGE_APPLIED" <=> e \in Damages
           /\ e.kind = "PLAN_COMMITTED" <=> e \in Plans
           /\ e.kind = "CARDS_DISCARDED" <=> e \in Discs
<1>1. e \in Ticks => e.kind = "MATCH_TICK"
  BY DEF Ticks
<1>2. e \in Ends => e.kind \in Terminals
  BY DEF Ends
<1>3. e \in Deaths => e.kind \in {"MECH_DESTROYED", "PILOT_KILLED"}
  BY DEF Deaths
<1>4. e \in Moves => e.kind = "MOVEMENT_RESOLVED"
  BY DEF Moves
<1>5. e \in Switches => e.kind = "MODE_TRANSITION_STARTED"
  BY DEF Switches
<1>6. e \in Damages => e.kind = "DAMAGE_APPLIED"
  BY DEF Damages
<1>7. e \in Plans => e.kind = "PLAN_COMMITTED"
  BY DEF Plans, Row
<1>8. e \in Discs => e.kind = "CARDS_DISCARDED"
  BY DEF Discs, Row
<1>9. e \in Notices => e.kind \in {"REGISTER_RESOLVED", "INTENT", "WEAPON_FIRED", "HIT_RESOLVED",
            "WEAPON_FIRE_REJECTED", "UTILITY_DEPLOYED", "BOILER_RUPTURED", "ARMOR_ABSORBED"}
  BY DEF Notices
<1>10. \/ e \in Notices \/ e \in Damages \/ e \in Deaths \/ e \in Plans \/ e \in Discs
       \/ e \in Ticks \/ e \in Moves \/ e \in Switches \/ e \in Ends
  BY DEF Events
<1> QED  BY <1>1, <1>2, <1>3, <1>4, <1>5, <1>6, <1>7, <1>8, <1>9, <1>10 DEF Terminals

LEMMA Tails ==
    ASSUME NEW S, NEW s \in Seq(S), s # <<>>
    PROVE  /\ Len(s) \in Nat /\ Len(s) > 0 /\ DOMAIN s = 1 .. Len(s) /\ 1 \in DOMAIN s
           /\ Head(s) = s[1] /\ Head(s) \in S /\ Tail(s) \in Seq(S) /\ Len(Tail(s)) = Len(s) - 1
           /\ DOMAIN Tail(s) = 1 .. Len(s) - 1
           /\ \A i \in DOMAIN Tail(s) : i \in Nat /\ i >= 1 /\ i + 1 \in DOMAIN s /\ Tail(s)[i] = s[i + 1]
           /\ \A i \in DOMAIN s : i \in Nat /\ i >= 1 /\ s[i] \in S
           /\ \A i \in DOMAIN s : i # 1 => i - 1 \in DOMAIN Tail(s) /\ Tail(s)[i - 1] = s[i]
OBVIOUS

LEMMA Joined ==
    ASSUME NEW S, NEW s \in Seq(S), NEW t \in Seq(S)
    PROVE  /\ s \o t \in Seq(S) /\ DOMAIN (s \o t) = 1 .. Len(s) + Len(t)
           /\ Len(s) \in Nat /\ Len(t) \in Nat /\ DOMAIN s = 1 .. Len(s) /\ DOMAIN t = 1 .. Len(t)
           /\ \A i \in DOMAIN s : i \in DOMAIN (s \o t) /\ (s \o t)[i] = s[i]
           /\ \A i \in DOMAIN t : i + Len(s) \in DOMAIN (s \o t) /\ (s \o t)[i + Len(s)] = t[i]
           /\ \A i \in DOMAIN (s \o t) : IF i <= Len(s) THEN i \in DOMAIN s /\ (s \o t)[i] = s[i]
                    ELSE i - Len(s) \in DOMAIN t /\ (s \o t)[i] = t[i - Len(s)]
OBVIOUS

LEMMA HoldsTail ==
    ASSUME NEW S, NEW s \in Seq(S), s # <<>>, NEW kind
    PROVE  Holds(s, kind) <=> Head(s).kind = kind \/ Holds(Tail(s), kind)
<1> DEFINE t == Tail(s)
<1>0. /\ 1 \in DOMAIN s /\ Head(s) = s[1]
      /\ \A i \in DOMAIN t : i + 1 \in DOMAIN s /\ t[i] = s[i + 1]
      /\ \A i \in DOMAIN s : i # 1 => i - 1 \in DOMAIN t /\ t[i - 1] = s[i]
  BY Tails
<1> HIDE DEF t
<1>1. Holds(s, kind) => Head(s).kind = kind \/ Holds(t, kind)
  BY <1>0 DEF Holds
<1>2. Head(s).kind = kind \/ Holds(t, kind) => Holds(s, kind)
  BY <1>0 DEF Holds
<1> QED  BY <1>1, <1>2 DEF t

LEMMA HoldsJoined ==
    ASSUME NEW S, NEW s \in Seq(S), NEW t \in Seq(S), NEW kind
    PROVE  Holds(s \o t, kind) <=> Holds(s, kind) \/ Holds(t, kind)
<1> DEFINE u == s \o t
<1>0. /\ \A i \in DOMAIN s : i \in DOMAIN u /\ u[i] = s[i]
      /\ \A i \in DOMAIN t : i + Len(s) \in DOMAIN u /\ u[i + Len(s)] = t[i]
      /\ \A i \in DOMAIN u : IF i <= Len(s) THEN i \in DOMAIN s /\ u[i] = s[i]
                ELSE i - Len(s) \in DOMAIN t /\ u[i] = t[i - Len(s)]
  BY Joined
<1> HIDE DEF u
<1>1. Holds(u, kind) => Holds(s, kind) \/ Holds(t, kind)
  <2>1. ASSUME NEW i \in DOMAIN u, u[i].kind = kind
        PROVE  Holds(s, kind) \/ Holds(t, kind)
    <3>1. CASE i <= Len(s)
      BY <1>0, <2>1, <3>1 DEF Holds
    <3>2. CASE ~(i <= Len(s))
      <4>1. i - Len(s) \in DOMAIN t /\ u[i] = t[i - Len(s)]
        BY <1>0, <3>2
      <4> QED  BY <2>1, <4>1 DEF Holds
    <3> QED  BY <3>1, <3>2
  <2> QED  BY <2>1 DEF Holds
<1>2. Holds(s, kind) => Holds(u, kind)
  BY <1>0 DEF Holds
<1>3. Holds(t, kind) => Holds(u, kind)
  BY <1>0 DEF Holds
<1> QED  BY <1>1, <1>2, <1>3 DEF u

LEMMA HoldsFew ==
    ASSUME NEW e, NEW kind
    PROVE  ~Holds(<<>>, kind) /\ (Holds(<<e>>, kind) <=> e.kind = kind)
BY DEF Holds

(* What is published is heard.                                              *)
LEMMA Hearing ==
    ASSUME NEW e, said' = Heard(e), said.ends \in Nat, said.opened \in Nat, said.closed \in Nat
    PROVE  /\ said'.ends = said.ends + One(e.kind = "MATCH_ENDED")
           /\ said'.past = said.past \cup (IF said.ends > 0 THEN {e.kind} ELSE {})
           /\ said'.opened = said.opened + One(e.kind = "PLAN_COMMITTED")
           /\ said'.closed = said.closed + One(e.kind = "CARDS_DISCARDED")
           /\ said'.ends \in Nat /\ said'.opened \in Nat /\ said'.closed \in Nat
BY DEF Heard, One

(* The head of the agenda is published and nothing follows from it.         *)
Dropped ==
    /\ agenda # <<>> /\ agenda' = Tail(agenda)
    /\ UNCHANGED <<stage, todo, cadence, round, committed>>
    /\ said' = Heard(Head(agenda))

(* ... and it is no tick and no terminal.                                   *)
Mild ==
    LET e == Head(agenda)
    IN  /\ e.kind \notin Terminals /\ e.kind # "MATCH_TICK"
        /\ Quiet(match, match')
        /\ IF IsDeath(1)
           THEN /\ Dead(match.mechs, e) => match' = match
                /\ \A m \in Mechs \ {e.mech} : match'.mechs[m] = match.mechs[m]
           ELSE SameLives(match.mechs, match'.mechs)
        /\ \A m \in Mechs : match'.mechs[m].hp =
                IF e.kind = "DAMAGE_APPLIED" /\ e.mech = m THEN e.after ELSE match.mechs[m].hp
        /\ e.kind = "INTENT" => match' = match

(* The list facts of a drop.                                                *)
LEMMA Shifting ==
    ASSUME agenda \in Seq(Events), Dropped
    PROVE  /\ Len(agenda) \in Nat /\ DOMAIN agenda = 1 .. Len(agenda) /\ 1 \in DOMAIN agenda
           /\ Head(agenda) = agenda[1] /\ Head(agenda) \in Events /\ agenda' \in Seq(Events)
           /\ Len(agenda') = Len(agenda) - 1
           /\ \A i \in DOMAIN agenda' : i \in Nat /\ i >= 1 /\ i + 1 \in DOMAIN agenda
                                          /\ agenda'[i] = agenda[i + 1]
           /\ \A i \in DOMAIN agenda : i \in Nat /\ i >= 1 /\ agenda[i] \in Events
           /\ \A i \in DOMAIN agenda : i # 1 => i - 1 \in DOMAIN agenda' /\ agenda'[i - 1] = agenda[i]
<1>1. agenda # <<>> /\ agenda' = Tail(agenda)
  BY DEF Dropped
<1> QED  BY <1>1, Tails

(* What waits behind the head still waits rightly.                          *)
LEMMA DropTicks ==
    ASSUME IInv, Dropped, Mild
    PROVE  TicksWait'
<1>1. agenda \in Seq(Events) /\ agenda # <<>> /\ TicksWait
  BY DEF IInv, Shape, Flow, Dropped
<1>2. ASSUME NEW i \in DOMAIN agenda', agenda'[i].kind = "MATCH_TICK"
      PROVE  /\ stage' = "ticked" /\ match'.status = "running" /\ agenda'[i].tick = match'.tick + 1
             /\ i = Len(agenda') /\ \A j \in 1 .. i - 1 : agenda'[j].kind = "CARDS_DISCARDED"
             /\ match'.max # 0 /\ agenda'[i].tick >= match'.max => round' = NoRound
  <2>1. /\ i \in Nat /\ i >= 1 /\ i + 1 \in DOMAIN agenda /\ agenda'[i] = agenda[i + 1]
        /\ Len(agenda) \in Nat /\ DOMAIN agenda = 1 .. Len(agenda) /\ Len(agenda') = Len(agenda) - 1
    BY <1>1, Shifting
  <2>2. /\ stage = "ticked" /\ Running /\ agenda[i + 1].tick = match.tick + 1
        /\ i + 1 = Len(agenda) /\ \A j \in 1 .. (i + 1) - 1 : IsDisc(j)
        /\ match.max # 0 /\ agenda[i + 1].tick >= match.max => round = NoRound
    BY <1>1, <1>2, <2>1 DEF TicksWait, Kind
  <2>3. match'.status = match.status /\ match'.tick = match.tick /\ match'.max = match.max
    BY DEF Mild, Quiet
  <2>4. \A j \in 1 .. i - 1 : agenda'[j].kind = "CARDS_DISCARDED"
    <3>1. ASSUME NEW j \in 1 .. i - 1
          PROVE  agenda'[j].kind = "CARDS_DISCARDED"
      <4>1. j + 1 \in 1 .. (i + 1) - 1 /\ j \in 1 .. Len(agenda')
        BY <2>1, <2>2
      <4>2. agenda'[j] = agenda[j + 1]
        <5>1. j + 1 \in DOMAIN agenda /\ j + 1 # 1
          BY <2>1, <2>2, <4>1
        <5> QED  BY <1>1, <5>1, Shifting
      <4> QED  BY <2>2, <4>1, <4>2 DEF IsDisc, Kind
    <3> QED  BY <3>1
  <2>5. stage' = stage /\ round' = round
    BY DEF Dropped
  <2>6. i = Len(agenda')
    BY <2>1, <2>2
  <2> QED  BY <2>1, <2>2, <2>3, <2>4, <2>5, <2>6 DEF Running
<1> QED  BY <1>2 DEF TicksWait, Kind, IsDisc, Running

LEMMA DropIntents ==
    ASSUME IInv, Dropped, Mild
    PROVE  IntentsWait'
<1>1. agenda \in Seq(Events) /\ agenda # <<>> /\ IntentsWait
  BY DEF IInv, Shape, Flow, Dropped
<1>2. ASSUME NEW i \in DOMAIN agenda', agenda'[i].kind \in {"MOVEMENT_RESOLVED", "MODE_TRANSITION_STARTED"}
      PROVE  i = 1 /\ agenda'[i] = agenda[2] /\ match' = match /\ stage = "acting"
               /\ agenda[2].kind \in {"MOVEMENT_RESOLVED", "MODE_TRANSITION_STARTED"} /\ 2 \in DOMAIN agenda
  <2>1. i \in Nat /\ i >= 1 /\ i + 1 \in DOMAIN agenda /\ agenda'[i] = agenda[i + 1] /\ Head(agenda) = agenda[1]
    BY <1>1, Shifting
  <2>2. stage = "acting" /\ (i + 1 = 1 \/ (i + 1 = 2 /\ Kind(1) = "INTENT"))
    BY <1>1, <1>2, <2>1 DEF IntentsWait, Kind
  <2>3. i = 1 /\ Head(agenda).kind = "INTENT"
    BY <2>1, <2>2 DEF Kind
  <2> QED  BY <1>2, <2>1, <2>2, <2>3 DEF Mild
<1>3. stage' = stage
  BY DEF Dropped
<1> QED  BY <1>1, <1>2, <1>3 DEF IntentsWait, Kind

LEMMA DropEnds ==
    ASSUME IInv, Dropped, Mild
    PROVE  EndsWait' /\ Verdict' /\ Told'
<1>1. agenda \in Seq(Events) /\ agenda # <<>> /\ EndsWait /\ Verdict /\ Told
        /\ said.ends \in Nat /\ said.opened \in Nat /\ said.closed \in Nat
  BY DEF IInv, Shape, Flow, Dropped
<1>2. Head(agenda).kind \notin Terminals /\ Head(agenda) = agenda[1] /\ 1 \in DOMAIN agenda
  BY <1>1, Shifting DEF Mild
<1>3. /\ said'.ends = said.ends
      /\ said'.past = said.past \cup (IF said.ends > 0 THEN {agenda[1].kind} ELSE {})
  <2>1. said' = Heard(Head(agenda))
    BY DEF Dropped
  <2>2. said'.ends = said.ends + One(Head(agenda).kind = "MATCH_ENDED")
        /\ said'.past = said.past \cup (IF said.ends > 0 THEN {Head(agenda).kind} ELSE {})
    BY <1>1, <2>1, Hearing
  <2> QED  BY <1>1, <1>2, <2>2 DEF One, Terminals
<1>4. match'.status = match.status /\ match'.winner = match.winner /\ match'.reason = match.reason
  BY DEF Mild, Quiet
<1>5. stage' = stage /\ round' = round
  BY DEF Dropped
<1>6. \A i \in DOMAIN agenda' : i \in Nat /\ i >= 1 /\ i + 1 \in DOMAIN agenda /\ agenda'[i] = agenda[i + 1]
  BY <1>1, Shifting
<1>7. \A i \in DOMAIN agenda : i # 1 => i \in Nat /\ i - 1 \in DOMAIN agenda' /\ agenda'[i - 1] = agenda[i]
  BY <1>1, Shifting
<1>8. EndsWait'
  <2>1. ASSUME NEW i \in DOMAIN agenda', agenda'[i].kind \in Terminals
        PROVE  /\ \A j \in DOMAIN agenda' : agenda'[j].kind \in Terminals => i = j
               /\ match'.status # "running" => agenda'[i].winner = match'.winner /\ agenda'[i].reason = match'.reason
               /\ agenda'[i].by # "fold" => round' = NoRound
               /\ agenda'[i].kind = "MATCH_ENDED" =>
                    /\ said'.ends = 0 /\ stage' \notin {"acting", "after"}
                    /\ \A j \in DOMAIN agenda' : j > i =>
                          agenda'[j].kind = "CARDS_DISCARDED" /\ agenda'[i].reason = "aborted"
    <3>1. i \in Nat /\ i + 1 \in DOMAIN agenda /\ agenda'[i] = agenda[i + 1] /\ IsEnd(i + 1)
      BY <1>6, <2>1 DEF IsEnd, Kind
    <3>2. /\ \A j \in DOMAIN agenda : IsEnd(j) => i + 1 = j
          /\ ~Running => agenda[i + 1].winner = match.winner /\ agenda[i + 1].reason = match.reason
          /\ agenda[i + 1].by # "fold" => round = NoRound
          /\ Kind(i + 1) = "MATCH_ENDED" =>
               /\ said.ends = 0 /\ stage \notin {"acting", "after"}
               /\ \A j \in DOMAIN agenda : j > i + 1 => IsDisc(j) /\ agenda[i + 1].reason = "aborted"
      BY <1>1, <3>1 DEF EndsWait
    <3>3. \A j \in DOMAIN agenda' : agenda'[j].kind \in Terminals => i = j
      BY <1>6, <3>1, <3>2 DEF IsEnd, Kind
    <3>4. agenda'[i].kind = "MATCH_ENDED" => \A j \in DOMAIN agenda' : j > i =>
                          agenda'[j].kind = "CARDS_DISCARDED" /\ agenda'[i].reason = "aborted"
      BY <1>6, <3>1, <3>2 DEF IsDisc, Kind
    <3> QED  BY <1>3, <1>4, <1>5, <3>1, <3>2, <3>3, <3>4 DEF Kind, Running
  <2> QED  BY <2>1 DEF EndsWait, IsEnd, IsDisc, Kind, Running
<1>9. Verdict'
  <2>1. \A i \in DOMAIN agenda : IsEnd(i) => i - 1 \in DOMAIN agenda' /\ agenda'[i - 1] = agenda[i]
    BY <1>2, <1>7 DEF IsEnd, Kind
  <2>2. match'.status # "running" => match'.reason # None
    BY <1>1, <1>4 DEF Verdict, Running
  <2>3. stage' # "after"
    BY <1>1, <1>5 DEF Verdict
  <2>4. stage' \in {"closing", "done"} =>
            match'.status # "running" \/ \E i \in DOMAIN agenda' : agenda'[i].kind \in Terminals
    BY <1>1, <1>4, <1>5, <2>1 DEF Verdict, Running, IsEnd, Kind
  <2>5. stage' = "done" => said'.ends = 1 \/ \E i \in DOMAIN agenda' : agenda'[i].kind = "MATCH_ENDED"
    BY <1>1, <1>3, <1>5, <2>1 DEF Verdict, IsEnd, Kind, Terminals
  <2> QED  BY <2>2, <2>3, <2>4, <2>5 DEF Verdict, Running, IsEnd, Kind
<1>10. Told'
  <2>1. said.ends = 1 => \A i \in DOMAIN agenda' : agenda'[i].kind = "CARDS_DISCARDED"
    BY <1>1, <1>6 DEF Told, IsDisc, Kind
  <2>2. said.ends = 1 => agenda[1].kind = "CARDS_DISCARDED" /\ match.reason = "aborted"
    BY <1>1, <1>2 DEF Told, IsDisc, Kind
  <2>3. said.ends # 1 => said'.past = said.past
    BY <1>1, <1>3 DEF Told
  <2> QED  BY <1>1, <1>3, <1>4, <1>5, <2>1, <2>2, <2>3 DEF Told, IsDisc, Kind, Running
<1> QED  BY <1>8, <1>9, <1>10

LEMMA DeathMech ==
    ASSUME NEW e \in Events, e.kind \in {"MECH_DESTROYED", "PILOT_KILLED"}
    PROVE  e.mech \in Mechs
BY Kinds DEF Deaths

LEMMA SameDead ==
    ASSUME NEW old, NEW new, SameLives(old, new)
    PROVE  /\ \A e \in Events : e.kind \in {"MECH_DESTROYED", "PILOT_KILLED"} =>
                    (Dead(new, e) <=> Dead(old, e))
           /\ Living(new) = Living(old)
BY DeathMech DEF SameLives, SameLife, Dead, Living

LEMMA DropDoomed ==
    ASSUME IInv, Dropped, Mild, NEW m \in Mechs, Doomed(match.mechs, agenda, m)
    PROVE  Doomed(match'.mechs, agenda', m)
<1>1. agenda \in Seq(Events)
  BY DEF IInv, Shape
<1>2. Head(agenda) = agenda[1] /\ 1 \in DOMAIN agenda
  BY <1>1, Shifting
<1>3. \A i \in DOMAIN agenda' : i + 1 \in DOMAIN agenda /\ agenda'[i] = agenda[i + 1]
  BY <1>1, Shifting
<1>4. \A i \in DOMAIN agenda : i # 1 => i - 1 \in DOMAIN agenda' /\ agenda'[i - 1] = agenda[i]
  BY <1>1, Shifting
<1>5. match'.mechs[m].hp =
        IF agenda[1].kind = "DAMAGE_APPLIED" /\ agenda[1].mech = m THEN agenda[1].after ELSE match.mechs[m].hp
  BY <1>2 DEF Mild
<1>6. \A k \in DOMAIN agenda : agenda[k].kind = "DAMAGE_APPLIED" /\ agenda[k].mech = m => agenda[k].after = 0
  BY DEF Doomed, Kind
<1>7. \A k \in DOMAIN agenda' : agenda'[k].kind = "DAMAGE_APPLIED" /\ agenda'[k].mech = m => agenda'[k].after = 0
  BY <1>3, <1>6
<1>8. match'.mechs[m].hp = 0
        \/ \E k \in DOMAIN agenda' : agenda'[k].kind = "DAMAGE_APPLIED" /\ agenda'[k].mech = m
  <2>1. CASE match.mechs[m].hp = 0
    BY <1>2, <1>5, <1>6, <2>1
  <2>2. ASSUME NEW k \in DOMAIN agenda, agenda[k].kind = "DAMAGE_APPLIED" /\ agenda[k].mech = m
        PROVE  match'.mechs[m].hp = 0
                \/ \E j \in DOMAIN agenda' : agenda'[j].kind = "DAMAGE_APPLIED" /\ agenda'[j].mech = m
    <3>1. CASE k = 1
      BY <1>5, <1>6, <2>2, <3>1
    <3>2. CASE k # 1
      BY <1>4, <2>2, <3>2
    <3> QED  BY <3>1, <3>2
  <2> QED  BY <2>1, <2>2 DEF Doomed, Kind
<1> QED  BY <1>7, <1>8 DEF Doomed, Kind

LEMMA DropDeaths ==
    ASSUME IInv, Dropped, Mild
    PROVE  DeathsWait'
<1>1. agenda \in Seq(Events) /\ agenda # <<>> /\ DeathsWait
  BY DEF IInv, Shape, Flow, Dropped
<1>2. Head(agenda) = agenda[1] /\ 1 \in DOMAIN agenda /\ agenda[1] \in Events
        /\ Len(agenda) \in Nat /\ Len(agenda') = Len(agenda) - 1
  BY <1>1, Shifting
<1>3. \A i \in DOMAIN agenda' : /\ i \in Nat /\ i >= 1 /\ i + 1 \in DOMAIN agenda
                                /\ agenda'[i] = agenda[i + 1] /\ agenda'[i] \in Events
  BY <1>1, Shifting
<1>4. stage' = stage
  BY DEF Dropped
<1>5. ~IsDeath(1) => SameLives(match.mechs, match'.mechs)
  BY DEF Mild
<1>6. IsDeath(1) => /\ Dead(match.mechs, agenda[1]) => match' = match
                    /\ \A m \in Mechs \ {agenda[1].mech} : match'.mechs[m] = match.mechs[m]
  BY <1>2 DEF Mild
<1>7. ASSUME NEW i \in DOMAIN agenda', agenda'[i].kind \in {"MECH_DESTROYED", "PILOT_KILLED"}
      PROVE  /\ stage \in {"ticked", "acting", "top"}
             /\ stage = "ticked" => Dead(match'.mechs, agenda'[i])
             /\ stage = "acting" => /\ i = Len(agenda') /\ \A j \in DOMAIN agenda' : agenda'[j].kind \notin Terminals
                                    /\ \E m \in Living(match'.mechs) : m # agenda'[i].mech
             /\ stage = "top" =>
                  /\ \A j \in DOMAIN agenda' : j > i =>
                        /\ agenda'[j].kind \in {"MECH_DESTROYED", "PILOT_KILLED"} /\ agenda'[j].mech # agenda'[i].mech
                        /\ agenda'[j].mech \in Living(match'.mechs) /\ Doomed(match'.mechs, agenda', agenda'[j].mech)
                  /\ \A j \in DOMAIN agenda' : agenda'[j].kind \notin Terminals
  <2>1. /\ i \in Nat /\ i >= 1 /\ i + 1 \in DOMAIN agenda /\ agenda'[i] = agenda[i + 1] /\ agenda'[i] \in Events
        /\ IsDeath(i + 1)
    BY <1>3, <1>7 DEF IsDeath, Kind
  <2>2. /\ stage \in {"ticked", "acting", "top"}
        /\ stage = "ticked" => Known(agenda[i + 1])
        /\ stage = "acting" => /\ i + 1 = Len(agenda) /\ \A j \in DOMAIN agenda : ~IsEnd(j)
                               /\ \E m \in Living(match.mechs) : m # agenda[i + 1].mech
        /\ stage = "top" =>
             /\ \A j \in DOMAIN agenda : j > i + 1 =>
                    /\ IsDeath(j) /\ agenda[j].mech # agenda[i + 1].mech
                    /\ agenda[j].mech \in Living(match.mechs) /\ Doomed(match.mechs, agenda, agenda[j].mech)
             /\ \A j \in DOMAIN agenda : ~IsEnd(j)
    BY <1>1, <2>1 DEF DeathsWait
  <2>3. stage = "ticked" => Dead(match'.mechs, agenda'[i])
    <3>1. CASE stage = "ticked" /\ IsDeath(1)
      <4>1. Dead(match.mechs, agenda[1])
        BY <1>1, <1>2, <3>1 DEF DeathsWait, Known, Dead
      <4> QED  BY <1>6, <2>1, <2>2, <3>1, <4>1 DEF Known, Dead
    <3>2. CASE stage = "ticked" /\ ~IsDeath(1)
      <4>1. Dead(match.mechs, agenda'[i])
        BY <2>1, <2>2, <3>2 DEF Known, Dead
      <4> QED  BY <1>5, <1>7, <2>1, <3>2, <4>1, SameDead
    <3> QED  BY <3>1, <3>2
  <2>4. stage = "acting" => /\ i = Len(agenda') /\ \A j \in DOMAIN agenda' : agenda'[j].kind \notin Terminals
                            /\ \E m \in Living(match'.mechs) : m # agenda'[i].mech
    <3> HAVE stage = "acting"
    <3>1. ~IsDeath(1)
      BY <1>1, <1>2, <2>1, <2>2 DEF DeathsWait
    <3>2. Living(match'.mechs) = Living(match.mechs)
      BY <1>5, <3>1, SameDead
    <3> QED  BY <1>2, <1>3, <2>1, <2>2, <3>2 DEF IsEnd, Kind
  <2>5. stage = "top" =>
             /\ \A j \in DOMAIN agenda' : j > i =>
                   /\ agenda'[j].kind \in {"MECH_DESTROYED", "PILOT_KILLED"} /\ agenda'[j].mech # agenda'[i].mech
                   /\ agenda'[j].mech \in Living(match'.mechs) /\ Doomed(match'.mechs, agenda', agenda'[j].mech)
             /\ \A j \in DOMAIN agenda' : agenda'[j].kind \notin Terminals
    <3> HAVE stage = "top"
    <3>1. \A j \in DOMAIN agenda' : agenda'[j].kind \notin Terminals
      BY <1>3, <2>2 DEF IsEnd, Kind
    <3>2. ASSUME NEW j \in DOMAIN agenda', j > i
          PROVE  /\ agenda'[j].kind \in {"MECH_DESTROYED", "PILOT_KILLED"} /\ agenda'[j].mech # agenda'[i].mech
                 /\ agenda'[j].mech \in Living(match'.mechs) /\ Doomed(match'.mechs, agenda', agenda'[j].mech)
      <4>1. j \in Nat /\ j + 1 \in DOMAIN agenda /\ j + 1 > i + 1 /\ agenda'[j] = agenda[j + 1] /\ j + 1 > 1
              /\ agenda'[j] \in Events
        BY <1>3, <2>1, <3>2
      <4>2. /\ IsDeath(j + 1) /\ agenda[j + 1].mech # agenda[i + 1].mech
            /\ agenda[j + 1].mech \in Living(match.mechs) /\ Doomed(match.mechs, agenda, agenda[j + 1].mech)
        BY <2>2, <4>1
      <4>3. agenda[j + 1].mech \in Mechs
        BY <4>1, <4>2, DeathMech DEF IsDeath, Kind
      <4>4. Doomed(match'.mechs, agenda', agenda[j + 1].mech)
        BY <4>2, <4>3, DropDoomed
      <4>5. agenda[j + 1].mech \in Living(match'.mechs)
        <5>1. CASE IsDeath(1)
          <6>1. agenda[j + 1].mech # agenda[1].mech
            BY <1>1, <1>2, <4>1, <5>1 DEF DeathsWait
          <6> QED  BY <1>6, <4>2, <4>3, <5>1, <6>1 DEF Living
        <5>2. CASE ~IsDeath(1)
          BY <1>5, <4>2, <5>2, SameDead
        <5> QED  BY <5>1, <5>2
      <4> QED  BY <2>1, <4>1, <4>2, <4>4, <4>5 DEF IsDeath, Kind
    <3> QED  BY <3>1, <3>2
  <2> QED  BY <2>2, <2>3, <2>4, <2>5
<1> QED  BY <1>4, <1>7 DEF DeathsWait, IsDeath, IsEnd, Kind, Known, Dead

(* What dropping the head does to the rounds' rows, tick and terminal included. *)
DropsFairly ==
    \/ Head(agenda).kind \notin Terminals /\ match'.status = match.status
    \/ round = NoRound /\ match'.status # "running"

LEMMA SameRound ==
    ASSUME UNCHANGED <<stage, todo, cadence, round>>
    PROVE  /\ LastRegister' = LastRegister /\ Owed' = Owed /\ Committing' = Committing
           /\ \A kind : Holds(todo, kind)' = Holds(todo, kind)
BY DEF LastRegister, Owed, Committing, Holds

LEMMA DropPlane ==
    ASSUME IInv, Dropped, DropsFairly
    PROVE  Plane'
<1>1. agenda \in Seq(Events) /\ agenda # <<>> /\ Latched /\ RowsWait
  BY DEF IInv, Shape, Plane, Dropped
<1>2. stage' = stage /\ todo' = todo /\ cadence' = cadence /\ round' = round
  BY DEF Dropped
<1>3. LastRegister' = LastRegister
  BY <1>2, SameRound
<1>4. Head(agenda) = agenda[1] /\ 1 \in DOMAIN agenda /\ Len(agenda') = Len(agenda) - 1 /\ Len(agenda) \in Nat
        /\ agenda' \in Seq(Events) /\ DOMAIN agenda = 1 .. Len(agenda)
  BY <1>1, Shifting
<1>5. \A i \in DOMAIN agenda' : i \in Nat /\ i >= 1 /\ i + 1 \in DOMAIN agenda /\ agenda'[i] = agenda[i + 1]
  BY <1>1, Shifting
<1>6. \A i \in DOMAIN agenda : i # 1 => i - 1 \in DOMAIN agenda' /\ agenda'[i - 1] = agenda[i]
  BY <1>1, Shifting
<1>7. Latched'
  <2>1. stage = "acting" /\ cadence = "paced" /\ round = NoRound =>
            match'.status # "running" \/ \E i \in DOMAIN agenda' : agenda'[i].kind \in Terminals
    <3>1. CASE round = NoRound /\ match'.status # "running"
      BY <3>1
    <3>2. CASE Head(agenda).kind \notin Terminals /\ match'.status = match.status
      <4>1. stage = "acting" /\ cadence = "paced" /\ round = NoRound =>
                match.status # "running" \/ \E i \in DOMAIN agenda : agenda[i].kind \in Terminals
        BY <1>1 DEF Latched, Running, IsEnd, Kind
      <4>2. \A i \in DOMAIN agenda : agenda[i].kind \in Terminals => i # 1
        BY <1>4, <3>2
      <4> QED  BY <1>6, <3>2, <4>1, <4>2
    <3> QED  BY <3>1, <3>2 DEF DropsFairly
  <2>2. round # NoRound => cadence = "paced" /\ match'.status = "running" /\ stage \notin {"closing", "done"}
    BY <1>1 DEF Latched, DropsFairly, Running
  <2> QED  BY <1>1, <1>2, <1>3, <2>1, <2>2 DEF Latched, Running, IsEnd, Kind, Holds
<1>8. RowsWait'
  <2>1. \A i \in DOMAIN todo : todo[i].kind # "PLAN_COMMITTED"
    BY <1>1 DEF RowsWait
  <2>2. \A i \in DOMAIN agenda' : agenda'[i].kind # "PLAN_COMMITTED"
    <3>1. ASSUME NEW i \in DOMAIN agenda', agenda'[i].kind = "PLAN_COMMITTED"
          PROVE  FALSE
      <4>1. agenda = <<Row("PLAN_COMMITTED")>>
        BY <1>1, <1>5, <3>1 DEF RowsWait, Kind
      <4>2. DOMAIN agenda = {1}
        BY <4>1
      <4> QED  BY <1>5, <4>2
    <3> QED  BY <3>1
  <2>3. \A i, j \in DOMAIN agenda' :
            agenda'[i].kind = "CARDS_DISCARDED" /\ agenda'[j].kind = "CARDS_DISCARDED" => i = j
    <3>1. \A i, j \in DOMAIN agenda : IsDisc(i) /\ IsDisc(j) => i = j
      BY <1>1 DEF RowsWait
    <3>2. ASSUME NEW i \in DOMAIN agenda', NEW j \in DOMAIN agenda',
                 agenda'[i].kind = "CARDS_DISCARDED" /\ agenda'[j].kind = "CARDS_DISCARDED"
          PROVE  i = j
      <4>1. i \in Nat /\ j \in Nat /\ i + 1 = j + 1
        BY <1>5, <3>1, <3>2 DEF IsDisc, Kind
      <4> QED  BY <4>1
    <3> QED  BY <3>2
  <2>4. \A i \in DOMAIN agenda' : agenda'[i].kind = "CARDS_DISCARDED" => round = NoRound
    <3>1. ASSUME NEW i \in DOMAIN agenda', agenda'[i].kind = "CARDS_DISCARDED", round # NoRound
          PROVE  FALSE
      <4>1. agenda = Discards
        BY <1>1, <1>5, <3>1 DEF RowsWait, IsDisc, Kind
      <4>2. DOMAIN agenda = {1}
        BY <4>1 DEF Discards
      <4> QED  BY <1>5, <4>2
    <3> QED  BY <3>1
  <2>5. cadence = "paced" /\ LastRegister /\ stage = "acting" /\ todo = <<>> => agenda' = <<>>
    <3> HAVE cadence = "paced" /\ LastRegister /\ stage = "acting" /\ todo = <<>>
    <3>1. agenda = Discards
      BY <1>1 DEF RowsWait
    <3>2. Len(agenda') = 0
      BY <1>4, <3>1 DEF Discards
    <3> QED  BY <1>4, <3>2
  <2> QED  BY <1>1, <1>2, <1>3, <2>1, <2>2, <2>3, <2>4, <2>5 DEF RowsWait, IsDisc, Kind
<1> QED  BY <1>7, <1>8 DEF Plane

LEMMA DropLedger ==
    ASSUME IInv, Dropped
    PROVE  Ledger'
<1>1. agenda \in Seq(Events) /\ agenda # <<>> /\ RowsWait /\ Ledger /\ stage # "raised"
        /\ said.ends \in Nat /\ said.opened \in Nat /\ said.closed \in Nat /\ committed \in Nat
  BY DEF IInv, Shape, Plane, Dropped
<1>2. stage' = stage /\ todo' = todo /\ cadence' = cadence /\ round' = round /\ committed' = committed
        /\ agenda' = Tail(agenda) /\ said' = Heard(Head(agenda))
  BY DEF Dropped
<1>3. Owed' = Owed /\ Committing' = Committing /\ Holds(todo', "PLAN_COMMITTED") = Holds(todo, "PLAN_COMMITTED")
  BY <1>2, SameRound
<1> DEFINE e == Head(agenda)
           plan == e.kind = "PLAN_COMMITTED"
           disc == e.kind = "CARDS_DISCARDED"
<1>4. said'.opened = said.opened + One(plan) /\ said'.closed = said.closed + One(disc)
  BY <1>1, <1>2, Hearing
<1>5. /\ Holds(agenda, "PLAN_COMMITTED") <=> plan \/ Holds(agenda', "PLAN_COMMITTED")
      /\ Holds(agenda, "CARDS_DISCARDED") <=> disc \/ Holds(agenda', "CARDS_DISCARDED")
  BY <1>1, <1>2, HoldsTail
<1>6. Head(agenda) = agenda[1] /\ 1 \in DOMAIN agenda /\ Len(agenda) \in Nat
        /\ \A i \in DOMAIN agenda' : i \in Nat /\ i >= 1 /\ i + 1 \in DOMAIN agenda /\ agenda'[i] = agenda[i + 1]
  BY <1>1, Shifting
<1>7. plan => ~Holds(agenda', "PLAN_COMMITTED") /\ ~Holds(agenda, "CARDS_DISCARDED")
  <2> HAVE plan
  <2>1. agenda = <<Row("PLAN_COMMITTED")>>
    BY <1>1, <1>6 DEF RowsWait, Kind
  <2>2. agenda' = <<>>
    BY <1>2, <2>1
  <2> QED  BY <2>1, <2>2, HoldsFew DEF Row
<1>8. disc => ~Holds(agenda', "CARDS_DISCARDED") /\ ~Holds(agenda, "PLAN_COMMITTED")
  <2> HAVE disc
  <2>1. \A i \in DOMAIN agenda : agenda[i].kind = "CARDS_DISCARDED" => i = 1
    BY <1>1, <1>6 DEF RowsWait, IsDisc, Kind
  <2>2. ~Holds(agenda', "CARDS_DISCARDED")
    BY <1>6, <2>1 DEF Holds
  <2>3. ~Holds(agenda, "PLAN_COMMITTED")
    <3>1. ASSUME Holds(agenda, "PLAN_COMMITTED") PROVE FALSE
      <4>1. agenda = <<Row("PLAN_COMMITTED")>>
        BY <1>1, <3>1 DEF RowsWait, Kind, Holds
      <4>2. agenda[1].kind = "PLAN_COMMITTED"
        BY <4>1 DEF Row
      <4> QED  BY <1>6, <4>2
    <3> QED  BY <3>1
  <2> QED  BY <2>2, <2>3
<1>9. ~Holds(todo, "PLAN_COMMITTED")
  BY <1>1 DEF RowsWait, Holds
<1>10. /\ said.opened + One(Holds(agenda, "PLAN_COMMITTED")) + One(Holds(todo, "PLAN_COMMITTED"))
              = said.closed + One(Holds(agenda, "CARDS_DISCARDED")) + One(Owed)
       /\ Committing => committed + 1 <= said.closed + One(Holds(agenda, "CARDS_DISCARDED")) + One(Owed)
       /\ committed <= said.closed /\ said.closed <= said.opened
  BY <1>1 DEF Ledger
<1> DEFINE hp == Holds(agenda, "PLAN_COMMITTED")
           hq == Holds(agenda', "PLAN_COMMITTED")
           hd == Holds(agenda, "CARDS_DISCARDED")
           he == Holds(agenda', "CARDS_DISCARDED")
<1>11. /\ said'.opened + One(hq) = said.opened + One(hp)
       /\ said'.closed + One(he) = said.closed + One(hd)
       /\ said'.opened \in Nat /\ said'.closed \in Nat
  <2> HIDE DEF plan, disc
  <2>1. hp <=> plan \/ hq
    BY <1>5
  <2>2. hd <=> disc \/ he
    BY <1>5
  <2>3. plan => ~hq
    BY <1>7
  <2>4. disc => ~he
    BY <1>8
  <2> HIDE DEF hp, hq, hd, he
  <2> QED  BY <1>1, <1>4, <2>1, <2>2, <2>3, <2>4 DEF One
<1>12. said'.closed <= said'.opened /\ committed <= said'.closed
  <2> HIDE DEF plan
  <2>1. CASE disc
    <3>1. One(hp) = 0 /\ One(hd) = 1 /\ One(he) = 0
      BY <1>5, <1>8, <2>1 DEF One
    <3>2. One(Owed) \in {0, 1} /\ One(hq) \in {0, 1} /\ One(Holds(todo, "PLAN_COMMITTED")) = 0
      BY <1>9 DEF One
    <3> HIDE DEF hp, hd, he, hq, disc
    <3>3. said.opened = said.closed + 1 + One(Owed)
      BY <1>1, <1>10, <3>1, <3>2 DEF hp, hd
    <3>4. said'.closed = said.closed + 1 /\ said'.opened >= said.opened
      BY <1>1, <1>4, <2>1 DEF One
    <3> QED  BY <1>1, <1>10, <1>11, <3>2, <3>3, <3>4
  <2>2. CASE ~disc
    <3>1. said'.closed = said.closed /\ said'.opened >= said.opened
      BY <1>1, <1>4, <2>2 DEF One
    <3> HIDE DEF hp, hd, he, hq, disc
    <3> QED  BY <1>1, <1>10, <1>11, <3>1
  <2> QED  BY <2>1, <2>2
<1>13. One(Owed) \in {0, 1} /\ One(Holds(todo, "PLAN_COMMITTED")) \in {0, 1} /\ One(hp) \in {0, 1}
        /\ One(hd) \in {0, 1} /\ One(hq) \in {0, 1} /\ One(he) \in {0, 1}
  BY DEF One
<1>14. /\ said'.opened + One(hq) + One(Holds(todo, "PLAN_COMMITTED")) = said'.closed + One(he) + One(Owed)
       /\ Committing => committed + 1 <= said'.closed + One(he) + One(Owed)
  <2>1. said.opened + One(hp) + One(Holds(todo, "PLAN_COMMITTED")) = said.closed + One(hd) + One(Owed)
    BY <1>10
  <2>2. Committing => committed + 1 <= said.closed + One(hd) + One(Owed)
    BY <1>10
  <2> HIDE DEF hp, hd, he, hq, disc, plan
  <2> QED  BY <1>1, <1>11, <1>13, <2>1, <2>2
<1> HIDE DEF plan, disc
<1> QED  BY <1>2, <1>3, <1>12, <1>14 DEF Ledger, One, Holds

-----------------------------------------------------------------------------
(* The steps of the bus.                                                    *)

LEMMA DropMild ==
    ASSUME IInv, Dropped, Mild
    PROVE  IInv'
<1>1. Shape /\ agenda # <<>> /\ stage # "raised"
  BY DEF IInv, Dropped
<1>2. TicksWait' /\ IntentsWait' /\ DeathsWait' /\ EndsWait' /\ Verdict' /\ Told'
  BY DropTicks, DropIntents, DropDeaths, DropEnds
<1>3. Plane'
  <2>1. DropsFairly
    BY DEF Mild, DropsFairly, Quiet
  <2> QED  BY <2>1, DropPlane
<1>4. Ledger'
  BY DropLedger
<1>5. Shape'
  <2>1. match' \in Match
    BY DEF Mild, Quiet
  <2>2. agenda' \in Seq(Events)
    BY <1>1, Shifting DEF Shape
  <2>3. stage' = stage /\ todo' = todo /\ cadence' = cadence /\ round' = round /\ committed' = committed
          /\ said' = Heard(Head(agenda))
    BY DEF Dropped
  <2>4. said'.ends \in Nat /\ said'.opened \in Nat /\ said'.closed \in Nat
    BY <1>1, <2>3, Hearing DEF Shape
  <2> QED  BY <1>1, <2>1, <2>2, <2>3, <2>4 DEF Shape
<1>6. stage' = stage
  BY DEF Dropped
<1> QED  BY <1>1, <1>2, <1>3, <1>4, <1>5, <1>6 DEF IInv, Flow

LEMMA Nothing ==
    ASSUME NEW S, NEW s \in Seq(S)
    PROVE  <<>> \o <<>> \o s = s
OBVIOUS

(* An event that changes numbers only.                                      *)
LEMMA CalmIsMild ==
    ASSUME NEW e, agenda # <<>>, e = Head(agenda), agenda \in Seq(Events),
           e.kind \notin Terminals, e.kind # "MATCH_TICK", ~IsDeath(1),
           NEW f, Calm(match, e, f), match' = f.match, e.kind = "INTENT" => f.match = match
    PROVE  Mild
BY DEF Mild, Calm

LEMMA CalmStep ==
    ASSUME Shape, IntentsWait, Publish, Head(agenda).kind \notin Terminals, Head(agenda).kind # "MATCH_TICK",
           Head(agenda).kind \notin {"MECH_DESTROYED", "PILOT_KILLED"}
    PROVE  /\ Calm(match, Head(agenda), Delta(match, Head(agenda))) /\ Dropped
           /\ match' = Delta(match, Head(agenda)).match
           /\ Head(agenda).kind = "INTENT" => match' = match
<1> DEFINE e == Head(agenda)
           f == Delta(match, e)
<1>1. agenda \in Seq(Events) /\ match \in Match /\ agenda # <<>> /\ IntentsWait
  BY DEF Shape, Publish
<1>2. e \in Events /\ e = agenda[1] /\ 1 \in DOMAIN agenda /\ Tail(agenda) \in Seq(Events)
  BY <1>1, Tails
<1>3. Calm(match, e, f) /\ (e.kind = "INTENT" => f.match = match)
  <2>1. CASE e \in Notices \cup Plans \cup Discs
    <3> HIDE DEF e
    <3> QED  BY <1>1, <2>1, FoldsNotice
  <2>2. CASE e \in Damages
    <3> HIDE DEF e
    <3>1. e.kind # "INTENT"
      BY <2>2 DEF Damages
    <3> QED  BY <1>1, <2>2, <3>1, FoldsDamage
  <2>3. CASE e \in Moves
    <3>1. e.kind = "MOVEMENT_RESOLVED"
      BY <2>3 DEF Moves
    <3>2. e.from = match.mechs[e.mech].cell /\ Distance(e.from, e.to) <= match.mechs[e.mech].pressure
            /\ Distance(e.from, e.to) <= Rules.speed
      BY <1>1, <1>2, <3>1 DEF IntentsWait, Kind
    <3> HIDE DEF e
    <3> QED  BY <1>1, <2>3, <3>1, <3>2, FoldsMove
  <2>4. CASE e \in Switches
    <3>1. e.kind = "MODE_TRANSITION_STARTED"
      BY <2>4 DEF Switches
    <3>2. e.from = match.mechs[e.mech].mode
      BY <1>1, <1>2, <3>1 DEF IntentsWait, Kind
    <3> HIDE DEF e
    <3> QED  BY <1>1, <2>4, <3>1, <3>2, FoldsSwitch
  <2>5. e \notin Ticks /\ e \notin Ends /\ e \notin Deaths
    BY <1>2, Kinds
  <2> HIDE DEF e, f
  <2> QED  BY <1>2, <2>1, <2>2, <2>3, <2>4, <2>5 DEF Events
<1>4. match' = f.match /\ agenda' = f.nested \o f.out \o Tail(agenda) /\ Dropped
  <2>1. ~f.refused /\ f.nested = <<>> /\ f.out = <<>>
    BY <1>3 DEF Calm
  <2>2. /\ match' = f.match /\ said' = Heard(e)
        /\ agenda' = f.nested \o f.out \o Tail(agenda) /\ stage' = stage
        /\ UNCHANGED <<todo, cadence, round, committed>>
    BY <2>1 DEF Publish
  <2>3. agenda' = Tail(agenda)
    BY <1>2, <2>1, <2>2, Nothing
  <2> QED  BY <1>1, <2>2, <2>3 DEF Dropped
<1> HIDE DEF f
<1> QED  BY <1>3, <1>4 DEF f

LEMMA PublishCalm ==
    ASSUME IInv, Publish, Head(agenda).kind \notin Terminals, Head(agenda).kind # "MATCH_TICK",
           Head(agenda).kind \notin {"MECH_DESTROYED", "PILOT_KILLED"}
    PROVE  IInv'
<1> DEFINE e == Head(agenda)
           f == Delta(match, e)
<1>1. Shape /\ IntentsWait /\ agenda \in Seq(Events) /\ agenda # <<>>
  BY DEF IInv, Shape, Publish, Flow
<1>2. e \in Events /\ e = agenda[1] /\ 1 \in DOMAIN agenda
  BY <1>1, Tails
<1>3. Calm(match, e, f) /\ (e.kind = "INTENT" => f.match = match) /\ match' = f.match /\ Dropped
  BY <1>1, CalmStep
<1>4. ~IsDeath(1)
  BY <1>2 DEF IsDeath, Kind
<1>5. Mild
  <2>1. e = Head(agenda) /\ e.kind \notin Terminals /\ e.kind # "MATCH_TICK"
    OBVIOUS
  <2> HIDE DEF e, f
  <2> QED  BY <1>1, <1>3, <1>4, <2>1, CalmIsMild
<1> QED  BY <1>3, <1>5, DropMild

(* A terminal.                                                              *)
LEMMA PublishEnd ==
    ASSUME IInv, Publish, Head(agenda).kind \in Terminals
    PROVE  IInv'
<1> DEFINE e == Head(agenda)
           f == Delta(match, e)
<1>1. Shape /\ agenda # <<>> /\ stage # "raised" /\ Flow /\ Told /\ Plane /\ ~ClosesRound(e)
  BY DEF IInv, Publish
<1>2. /\ e \in Events /\ e = agenda[1] /\ 1 \in DOMAIN agenda /\ Tail(agenda) \in Seq(Events)
      /\ agenda \in Seq(Events) /\ match \in Match
  BY <1>1, Tails DEF Shape
<1>3. IsEnd(1) /\ e \in Ends
  BY <1>2, Kinds DEF IsEnd, Kind
<1>4. /\ \A j \in DOMAIN agenda : IsEnd(j) => 1 = j
      /\ ~Running => e.winner = match.winner /\ e.reason = match.reason
      /\ e.by # "fold" => round = NoRound
      /\ e.kind = "MATCH_ENDED" =>
           /\ said.ends = 0 /\ stage \notin {"acting", "after"}
           /\ \A j \in DOMAIN agenda : j > 1 => IsDisc(j) /\ e.reason = "aborted"
  BY <1>1, <1>2, <1>3 DEF Flow, EndsWait, Kind
<1>5. /\ f.nested = <<>> /\ f.out = <<>> /\ ~f.refused
      /\ f.match \in Match /\ f.match.status = "ended" /\ f.match.mechs = match.mechs
      /\ f.match.winner = e.winner /\ f.match.reason = e.reason
  <2> HIDE DEF e
  <2> QED  BY <1>2, <1>3, <1>4, FoldsEnd DEF Running
<1>6. Dropped /\ match' = f.match /\ stage' = stage /\ round' = round
  <2>1. /\ match' = f.match /\ said' = Heard(e)
        /\ agenda' = f.nested \o f.out \o Tail(agenda) /\ stage' = stage
        /\ UNCHANGED <<todo, cadence, round, committed>>
    BY <1>5 DEF Publish
  <2>2. agenda' = Tail(agenda)
    BY <1>2, <1>5, <2>1, Nothing
  <2> QED  BY <1>1, <2>1, <2>2 DEF Dropped
<1>7. round = NoRound
  BY <1>1, <1>3, <1>4 DEF ClosesRound, Plane, Latched, Shape
<1>8. \A i \in DOMAIN agenda' : i \in Nat /\ i >= 1 /\ i + 1 \in DOMAIN agenda /\ i + 1 > 1
            /\ agenda'[i] = agenda[i + 1] /\ agenda'[i] \in Events /\ agenda'[i].kind \notin Terminals
  BY <1>2, <1>4, <1>6, Shifting DEF IsEnd, Kind
<1>9. said.ends = 0
  BY <1>1, <1>2, <1>3 DEF Told, IsDisc, IsEnd, Kind, Terminals
<1>10. said'.ends = One(e.kind = "MATCH_ENDED") /\ said'.past = said.past
         /\ said'.ends \in Nat /\ said'.opened \in Nat /\ said'.closed \in Nat
  <2>1. said' = Heard(e) /\ said.ends \in Nat /\ said.opened \in Nat /\ said.closed \in Nat
    BY <1>1, <1>6 DEF Dropped, Shape
  <2> HIDE DEF e
  <2> QED  BY <1>9, <2>1, Hearing DEF One
<1>11. match'.status = "ended" /\ match'.mechs = match.mechs /\ match'.winner = e.winner /\ match'.reason = e.reason
  BY <1>5, <1>6
<1>12. e.reason # None
  BY <1>3 DEF Ends, Reasons, None
<1>13. TicksWait'
  <2>1. ASSUME NEW i \in DOMAIN agenda', agenda'[i].kind = "MATCH_TICK"
        PROVE  FALSE
    <3>1. \A j \in 1 .. (i + 1) - 1 : IsDisc(j)
      BY <1>1, <1>8, <2>1 DEF Flow, TicksWait, Kind
    <3>2. IsDisc(1)
      BY <1>8, <3>1
    <3> QED  BY <1>3, <3>2 DEF IsDisc, IsEnd, Kind, Terminals
  <2> QED  BY <2>1 DEF TicksWait, Kind
<1>14. IntentsWait'
  <2>1. ASSUME NEW i \in DOMAIN agenda', agenda'[i].kind \in {"MOVEMENT_RESOLVED", "MODE_TRANSITION_STARTED"}
        PROVE  FALSE
    <3>1. i + 1 = 1 \/ (i + 1 = 2 /\ Kind(1) = "INTENT")
      BY <1>1, <1>8, <2>1 DEF Flow, IntentsWait, Kind
    <3> QED  BY <1>3, <1>8, <3>1 DEF IsEnd, Kind, Terminals
  <2> QED  BY <2>1 DEF IntentsWait, Kind
<1>15. DeathsWait'
  <2>1. ASSUME NEW i \in DOMAIN agenda', agenda'[i].kind \in {"MECH_DESTROYED", "PILOT_KILLED"}
        PROVE  stage = "ticked" /\ Dead(match.mechs, agenda'[i])
    <3>1. /\ stage \in {"ticked", "acting", "top"} /\ (stage = "ticked" => Known(agenda[i + 1]))
          /\ stage # "ticked" => \A j \in DOMAIN agenda : ~IsEnd(j)
      BY <1>1, <1>8, <2>1 DEF Flow, DeathsWait, IsDeath, Kind
    <3> QED  BY <1>2, <1>3, <1>8, <3>1 DEF Known, Dead
  <2> QED  BY <1>6, <1>11, <2>1 DEF DeathsWait, IsDeath, Kind, Known, Dead
<1>16. EndsWait'
  BY <1>8 DEF EndsWait, IsEnd, Kind
<1>17. Verdict'
  <2>1. stage # "after"
    BY <1>1 DEF Flow, Verdict
  <2>2. stage = "done" => said'.ends = 1
    <3> HAVE stage = "done"
    <3>1. PICK i \in DOMAIN agenda : Kind(i) = "MATCH_ENDED"
      BY <1>1, <1>9 DEF Flow, Verdict
    <3>2. e.kind = "MATCH_ENDED"
      BY <1>2, <1>4, <3>1 DEF IsEnd, Kind, Terminals
    <3> QED  BY <1>10, <3>2 DEF One
  <2> QED  BY <1>6, <1>11, <1>12, <2>1, <2>2 DEF Verdict, Running
<1>18. Told'
  <2>1. e.kind = "MATCH_ENDED" =>
            /\ stage \notin {"acting", "after"}
            /\ \A i \in DOMAIN agenda' : agenda'[i].kind = "CARDS_DISCARDED"
            /\ agenda' # <<>> => match'.reason = "aborted"
    <3> HAVE e.kind = "MATCH_ENDED"
    <3>1. \A i \in DOMAIN agenda' : agenda'[i].kind = "CARDS_DISCARDED" /\ e.reason = "aborted"
      BY <1>4, <1>8 DEF IsDisc, Kind
    <3>2. agenda' # <<>> => 1 \in DOMAIN agenda'
      <4>1. agenda' \in Seq(Events)
        BY <1>2, <1>6, Shifting
      <4> QED  BY <4>1
    <3> QED  BY <1>4, <1>11, <3>1, <3>2
  <2>2. said.past = {}
    BY <1>1, <1>9 DEF Told
  <2>3. said'.ends \in {0, 1} /\ (said'.ends = 1 => e.kind = "MATCH_ENDED")
    BY <1>10 DEF One
  <2>4. said'.past = {} /\ stage' = stage /\ match'.status # "running"
    BY <1>6, <1>10, <1>11, <2>2
  <2>5. said'.ends = 1 => stage' \notin {"acting", "after"}
          /\ (\A i \in DOMAIN agenda' : agenda'[i].kind = "CARDS_DISCARDED")
          /\ (agenda' # <<>> => match'.reason = "aborted")
    <3> HIDE DEF e, f
    <3> HAVE said'.ends = 1
    <3>1. e.kind = "MATCH_ENDED"
      BY <2>3
    <3>2. stage \notin {"acting", "after"}
      BY <2>1, <3>1
    <3>3. \A i \in DOMAIN agenda' : agenda'[i].kind = "CARDS_DISCARDED"
      BY <2>1, <3>1
    <3>4. agenda' # <<>> => match'.reason = "aborted"
      BY <2>1, <3>1
    <3> QED  BY <2>4, <3>2, <3>3, <3>4
  <2> HIDE DEF e, f
  <2> QED  BY <2>3, <2>4, <2>5 DEF Told, IsDisc, Kind, Running
<1>19. Plane' /\ Ledger'
  <2>1. DropsFairly
    BY <1>7, <1>11 DEF DropsFairly
  <2> QED  BY <1>6, <2>1, DropPlane, DropLedger
<1>20. Shape'
  <2>1. agenda' \in Seq(Events)
    BY <1>2, <1>6, Shifting
  <2>2. stage' = stage /\ todo' = todo /\ cadence' = cadence /\ round' = round /\ committed' = committed
    BY <1>6 DEF Dropped
  <2> QED  BY <1>1, <1>5, <1>6, <1>10, <2>1, <2>2 DEF Shape
<1> QED  BY <1>1, <1>6, <1>13, <1>14, <1>15, <1>16, <1>17, <1>18, <1>19, <1>20 DEF IInv, Flow

LEMMA Single ==
    ASSUME NEW v
    PROVE  <<>> \o <<v>> \o <<>> = <<v>>
OBVIOUS

LEMMA Empty ==
    ASSUME NEW S, NEW s \in Seq(S), Len(s) = 0
    PROVE  s = <<>>
OBVIOUS

LEMMA TidingsAre ==
    ASSUME NEW mechs, NEW e \in Tidings(mechs)
    PROVE  /\ e \in Events /\ e.kind \in {"DAMAGE_APPLIED", "BOILER_RUPTURED", "MECH_DESTROYED", "PILOT_KILLED"}
           /\ e.kind \in {"MECH_DESTROYED", "PILOT_KILLED"} => Dead(mechs, e)
<1>1. e \in [kind: {"DAMAGE_APPLIED"}, mech: Mechs, after: Nat, by: {"fold"}] =>
        e \in Damages /\ e.kind = "DAMAGE_APPLIED"
  BY DEF Damages, Publishers
<1>2. e \in [kind: {"BOILER_RUPTURED"}, mech: Mechs, by: {"fold"}] =>
        e \in Notices /\ e.kind = "BOILER_RUPTURED"
  BY DEF Notices, Publishers
<1>3. e \in {d \in [kind: {"MECH_DESTROYED", "PILOT_KILLED"}, mech: Mechs, by: {"fold"}] : Dead(mechs, d)} =>
        e \in Deaths /\ e.kind \in {"MECH_DESTROYED", "PILOT_KILLED"} /\ Dead(mechs, e)
  BY DEF Deaths, Publishers
<1> QED  BY <1>1, <1>2, <1>3 DEF Tidings, Events

LEMMA VerdictsAre ==
    ASSUME NEW v \in Verdicts
    PROVE  v \in Ends /\ v \in Events /\ v.kind \in Terminals /\ v.by = "fold"
<1>1. v \in Ends /\ v.kind \in Terminals /\ v.by = "fold"
  BY DEF Verdicts, Ends, Publishers
<1> QED  BY <1>1 DEF Events

(* A step of which neither the agenda before nor the one after holds a row  *)
(* that opens or closes a round.                                            *)
Rowless(events) ==
    \A i \in DOMAIN events : events[i].kind \notin {"PLAN_COMMITTED", "CARDS_DISCARDED"}

LEMMA RowlessHolds ==
    ASSUME NEW events, Rowless(events)
    PROVE  ~Holds(events, "PLAN_COMMITTED") /\ ~Holds(events, "CARDS_DISCARDED")
BY DEF Rowless, Holds

LEMMA RowlessLedger ==
    ASSUME Shape, Ledger, stage # "raised", Rowless(agenda), Rowless(agenda'),
           UNCHANGED <<stage, todo, cadence, round, committed>>,
           said'.opened = said.opened, said'.closed = said.closed
    PROVE  Ledger'
<1>1. Owed' = Owed /\ Committing' = Committing /\ Holds(todo, "PLAN_COMMITTED")' = Holds(todo, "PLAN_COMMITTED")
  BY SameRound
<1>2. Holds(agenda, "PLAN_COMMITTED") = FALSE /\ Holds(agenda, "CARDS_DISCARDED") = FALSE
  BY RowlessHolds DEF Holds
<1>3. Holds(agenda', "PLAN_COMMITTED") = FALSE /\ Holds(agenda', "CARDS_DISCARDED") = FALSE
  BY RowlessHolds DEF Holds
<1>4. /\ said'.opened + One(Holds(agenda', "PLAN_COMMITTED")) + One(Holds(todo', "PLAN_COMMITTED"))
             = said'.closed + One(Holds(agenda', "CARDS_DISCARDED")) + One(Owed)
      /\ Committing => committed + 1 <= said'.closed + One(Holds(agenda', "CARDS_DISCARDED")) + One(Owed)
  BY <1>2, <1>3 DEF Ledger
<1> QED  BY <1>1, <1>4 DEF Ledger

(* A death.                                                                 *)
LEMMA PublishDeath ==
    ASSUME IInv, Publish, Head(agenda).kind \in {"MECH_DESTROYED", "PILOT_KILLED"}
    PROVE  IInv'
<1> DEFINE e == Head(agenda)
           f == Delta(match, e)
<1>1. Shape /\ agenda # <<>> /\ stage # "raised" /\ Flow /\ Told /\ Plane /\ Ledger
  BY DEF IInv, Publish
<1>2. /\ e \in Events /\ e = agenda[1] /\ 1 \in DOMAIN agenda /\ Tail(agenda) \in Seq(Events)
      /\ agenda \in Seq(Events) /\ match \in Match /\ Len(agenda) \in Nat /\ DOMAIN agenda = 1 .. Len(agenda)
      /\ Len(Tail(agenda)) = Len(agenda) - 1
  BY <1>1, Tails DEF Shape
<1>3. IsDeath(1) /\ e \in Deaths /\ e.mech \in Mechs
  BY <1>2, Kinds, DeathMech DEF IsDeath, Kind
<1>4. /\ f.nested = <<>> /\ ~f.refused /\ Quiet(match, f.match)
      /\ Dead(match.mechs, e) => f.match = match /\ f.out = <<>>
      /\ \A m \in Mechs : f.match.mechs[m].hp = match.mechs[m].hp
      /\ \A m \in Mechs \ {e.mech} : f.match.mechs[m] = match.mechs[m]
      /\ f.out = <<>> \/ (match.status = "running" /\ \E v \in Verdicts : f.out = <<v>>)
      /\ (\E m \in Living(match.mechs) : m # e.mech) =>
            f.out = <<>> \/ \E v \in Verdicts : v.kind = "VICTORY_DECLARED" /\ f.out = <<v>>
      /\ (\E m \in Living(match.mechs) : m # e.mech /\ match.mechs[m].hp = 0) => f.out = <<>>
  <2> HIDE DEF e
  <2> QED  BY <1>2, <1>3, FoldsDeath
<1>5. /\ match' = f.match /\ said' = Heard(e)
      /\ agenda' = f.nested \o f.out \o Tail(agenda) /\ stage' = stage
      /\ UNCHANGED <<todo, cadence, round, committed>>
  BY <1>4 DEF Publish
<1>6. CASE f.out = <<>>
  <2>1. agenda' = Tail(agenda)
    BY <1>2, <1>4, <1>5, <1>6, Nothing
  <2>2. Dropped
    BY <1>1, <1>5, <2>1 DEF Dropped
  <2>3. Mild
    <3>1. e.kind \notin Terminals /\ e.kind \notin {"MATCH_TICK", "DAMAGE_APPLIED", "INTENT"}
      BY DEF Terminals
    <3>2. e = Head(agenda)
      OBVIOUS
    <3> HIDE DEF e, f
    <3> QED  BY <1>3, <1>4, <1>5, <3>1, <3>2 DEF Mild
  <2> QED  BY <2>2, <2>3, DropMild
<1>7. CASE f.out # <<>>
  <2>1. PICK v \in Verdicts : f.out = <<v>> /\ match.status = "running"
    BY <1>4, <1>7
  <2>2. v \in Events /\ v.kind \in Terminals /\ v.by = "fold"
    BY VerdictsAre
  <2>3. /\ stage \in {"ticked", "acting", "top"}
        /\ stage = "ticked" => Known(agenda[1])
        /\ stage = "acting" =>
             /\ 1 = Len(agenda)
             /\ \E m \in Living(match.mechs) : m # agenda[1].mech
        /\ stage = "top" =>
             \A j \in DOMAIN agenda : j > 1 =>
                    /\ IsDeath(j) /\ agenda[j].mech # agenda[1].mech
                    /\ agenda[j].mech \in Living(match.mechs) /\ Doomed(match.mechs, agenda, agenda[j].mech)
    BY <1>1, <1>2, <1>3 DEF Flow, DeathsWait
  <2>4. stage # "ticked"
    BY <1>2, <1>4, <1>7, <2>3 DEF Known, Dead
  <2>5. stage = "acting" => v.kind = "VICTORY_DECLARED"
    BY <1>2, <1>4, <1>7, <2>1, <2>3
  <2>6. Len(agenda) = 1
    <3>1. CASE stage = "acting"
      BY <2>3, <3>1
    <3>2. CASE stage = "top" /\ Len(agenda) # 1
      <4>1. 2 \in DOMAIN agenda
        BY <1>2, <3>2
      <4>2. /\ agenda[2].mech # e.mech /\ agenda[2].mech \in Living(match.mechs)
            /\ Doomed(match.mechs, agenda, agenda[2].mech)
        BY <1>2, <2>3, <3>2, <4>1
      <4>3. \A k \in DOMAIN agenda : agenda[k].kind # "DAMAGE_APPLIED"
        BY <1>2, <1>3, <2>3, <3>2 DEF IsDeath, Kind
      <4>4. match.mechs[agenda[2].mech].hp = 0
        BY <4>2, <4>3 DEF Doomed
      <4> QED  BY <1>4, <1>7, <4>2, <4>4
    <3> QED  BY <2>3, <2>4, <3>1, <3>2
  <2>7. agenda' = <<v>> /\ Tail(agenda) = <<>>
    <3>1. Tail(agenda) = <<>>
      <4>1. Len(Tail(agenda)) = 0
        BY <1>2, <2>6
      <4> QED  BY <1>2, <4>1, Empty
    <3>2. agenda' = <<>> \o <<v>> \o <<>>
      <4> HIDE DEF f
      <4> QED  BY <1>4, <1>5, <2>1, <3>1
    <3> QED  BY <3>1, <3>2, Single
  <2>8. DOMAIN agenda' = {1} /\ agenda'[1] = v /\ agenda' \in Seq(Events) /\ Len(agenda') = 1
    BY <2>2, <2>7
  <2>9. match' \in Match /\ match'.status = "running"
    BY <1>4, <1>5, <2>1 DEF Quiet
  <2>10. said.ends = 0 /\ said.past = {}
    BY <1>1, <2>1 DEF Told, Running
  <2>11. /\ said'.ends = 0 /\ said'.past = {} /\ said'.opened = said.opened /\ said'.closed = said.closed
         /\ said'.opened \in Nat /\ said'.closed \in Nat
    <3>1. said.ends \in Nat /\ said.opened \in Nat /\ said.closed \in Nat
      BY <1>1 DEF Shape
    <3>2. e.kind \notin {"MATCH_ENDED", "PLAN_COMMITTED", "CARDS_DISCARDED"}
      OBVIOUS
    <3> HIDE DEF e
    <3> QED  BY <1>5, <2>10, <3>1, <3>2, Hearing DEF One
  <2>12. Shape'
    BY <1>1, <1>5, <2>8, <2>9, <2>11 DEF Shape
  <2>13. TicksWait' /\ IntentsWait' /\ DeathsWait'
    BY <2>2, <2>8 DEF TicksWait, IntentsWait, DeathsWait, IsDeath, Kind, Terminals
  <2>14. EndsWait' /\ Verdict'
    <3>1. v.kind = "MATCH_ENDED" => stage' \notin {"acting", "after"}
      BY <1>5, <2>3, <2>5
    <3>2. \A i, j \in DOMAIN agenda' : i = j /\ agenda'[i] = v /\ ~(j > i)
      BY <2>8
    <3>3. EndsWait'
      BY <2>2, <2>9, <2>11, <3>1, <3>2 DEF EndsWait, IsEnd, IsDisc, Kind, Running
    <3>4. Verdict'
      BY <1>5, <2>3, <2>9 DEF Verdict, Running
    <3> QED  BY <3>3, <3>4
  <2>15. Told'
    BY <2>9, <2>11 DEF Told, Running
  <2>16. Plane'
    <3>1. LastRegister' = LastRegister
      BY <1>5, SameRound
    <3>2. Latched /\ RowsWait
      BY <1>1 DEF Plane
    <3>3. Latched'
      BY <1>5, <2>2, <2>3, <2>4, <2>8, <2>9, <3>1, <3>2 DEF Latched, Running, IsEnd, Kind, Holds
    <3>4. \A i \in DOMAIN todo : todo[i].kind # "PLAN_COMMITTED"
      BY <1>1, <3>2 DEF RowsWait
    <3>5. ~(cadence = "paced" /\ LastRegister /\ stage = "acting" /\ todo = <<>>)
      BY <1>1, <1>2, <1>3, <3>2 DEF RowsWait, Discards, Row, IsDeath, Kind
    <3>6. RowsWait'
      BY <1>5, <2>2, <2>8, <3>1, <3>2, <3>4, <3>5 DEF RowsWait, IsDisc, Kind, Terminals
    <3> QED  BY <3>3, <3>6 DEF Plane
  <2>17. Ledger'
    <3>1. Rowless(agenda) /\ Rowless(agenda')
      BY <1>2, <1>3, <2>2, <2>6, <2>8 DEF Rowless, IsDeath, Kind, Terminals
    <3> QED  BY <1>1, <1>5, <2>11, <3>1, RowlessLedger
  <2>18. stage' # "raised"
    BY <1>1, <1>5
  <2> QED  BY <2>12, <2>13, <2>14, <2>15, <2>16, <2>17, <2>18 DEF IInv, Flow
<1> QED  BY <1>6, <1>7

(* What a tick may leave on the agenda.                                     *)
LEMMA TickLeaves ==
    ASSUME NEW f, Told1(f), NEW s, s = f.out
    PROVE  /\ s \in Seq(Events) /\ Len(s) \in Nat /\ DOMAIN s = 1 .. Len(s)
           /\ \A i \in DOMAIN s :
                /\ i \in Nat
                /\ s[i].kind \in {"DAMAGE_APPLIED", "BOILER_RUPTURED", "MECH_DESTROYED", "PILOT_KILLED"} \cup Terminals
                /\ s[i].kind \in {"MECH_DESTROYED", "PILOT_KILLED"} => Dead(f.match.mechs, s[i])
                /\ s[i].kind \in Terminals => i = Len(s) /\ s[i].by = "fold"
<1>1. PICK body \in Seq(Tidings(f.match.mechs)) : s = body \/ \E v \in Verdicts : s = Append(body, v)
  BY DEF Told1
<1>2. Len(body) \in Nat /\ DOMAIN body = 1 .. Len(body)
        /\ \A i \in DOMAIN body : i \in Nat /\ body[i] \in Tidings(f.match.mechs)
  <2> HIDE DEF Tidings
  <2> QED  OBVIOUS
<1>3. \A i \in DOMAIN body :
        /\ body[i] \in Events
        /\ body[i].kind \in {"DAMAGE_APPLIED", "BOILER_RUPTURED", "MECH_DESTROYED", "PILOT_KILLED"}
        /\ body[i].kind \in {"MECH_DESTROYED", "PILOT_KILLED"} => Dead(f.match.mechs, body[i])
  BY <1>2, TidingsAre
<1>4. body \in Seq(Events)
  <2>1. Tidings(f.match.mechs) \subseteq Events
    BY TidingsAre
  <2> QED  BY <2>1
<1>5. \A i \in DOMAIN body : body[i].kind \notin Terminals
  BY <1>3 DEF Terminals
<1>6. CASE s = body
  BY <1>2, <1>3, <1>4, <1>5, <1>6
<1>7. ASSUME NEW v \in Verdicts, s = Append(body, v)
      PROVE  /\ s \in Seq(Events) /\ Len(s) \in Nat /\ DOMAIN s = 1 .. Len(s)
             /\ \A i \in DOMAIN s :
                /\ i \in Nat
                /\ s[i].kind \in {"DAMAGE_APPLIED", "BOILER_RUPTURED", "MECH_DESTROYED", "PILOT_KILLED"} \cup Terminals
                /\ s[i].kind \in {"MECH_DESTROYED", "PILOT_KILLED"} => Dead(f.match.mechs, s[i])
                /\ s[i].kind \in Terminals => i = Len(s) /\ s[i].by = "fold"
  <2>1. v \in Events /\ v.kind \in Terminals /\ v.by = "fold"
    BY VerdictsAre
  <2>2. /\ s \in Seq(Events) /\ Len(s) = Len(body) + 1 /\ DOMAIN s = 1 .. Len(body) + 1
        /\ s[Len(body) + 1] = v /\ \A i \in DOMAIN body : s[i] = body[i]
    BY <1>2, <1>4, <1>7, <2>1
  <2>3. \A i \in DOMAIN s : i = Len(body) + 1 \/ i \in DOMAIN body
    BY <1>2, <2>2
  <2>4. v.kind \notin {"MECH_DESTROYED", "PILOT_KILLED"}
    BY <2>1 DEF Terminals
  <2> HIDE DEF Dead
  <2> QED  BY <1>2, <1>3, <1>5, <2>1, <2>2, <2>3, <2>4
<1> QED  BY <1>1, <1>6, <1>7

(* A tick: what it derives comes in front of an agenda it leaves empty.     *)
LEMMA PublishTick ==
    ASSUME IInv, Publish, Head(agenda).kind = "MATCH_TICK"
    PROVE  IInv'
<1> DEFINE e == Head(agenda)
           f == Delta(match, e)
<1>1. Shape /\ agenda # <<>> /\ stage # "raised" /\ Flow /\ Told /\ Plane /\ Ledger
  BY DEF IInv, Publish
<1>2. /\ e \in Events /\ e = agenda[1] /\ 1 \in DOMAIN agenda /\ Tail(agenda) \in Seq(Events)
      /\ agenda \in Seq(Events) /\ match \in Match /\ Len(agenda) \in Nat /\ DOMAIN agenda = 1 .. Len(agenda)
      /\ Len(Tail(agenda)) = Len(agenda) - 1
  BY <1>1, Tails DEF Shape
<1>3. /\ stage = "ticked" /\ match.status = "running" /\ e.tick = match.tick + 1
      /\ Len(agenda) = 1
      /\ match.max # 0 /\ e.tick >= match.max => round = NoRound
  BY <1>1, <1>2 DEF Flow, TicksWait, Running, Kind
<1>4. Tail(agenda) = <<>>
  <2>1. Len(Tail(agenda)) = 0
    BY <1>2, <1>3
  <2> QED  BY <1>2, <2>1, Empty
<1>5. /\ f.match \in Match /\ ~f.refused
      /\ \/ /\ match.max # 0 /\ e.tick >= match.max
            /\ f.match.status = "ended" /\ f.out = <<>>
            /\ \E v \in Ends : f.nested = <<v>> /\ v.by = "lifecycle"
                   /\ v.winner = f.match.winner /\ v.reason = f.match.reason
         \/ f.match.status = "running" /\ f.match.max = match.max /\ f.nested = <<>> /\ Told1(f)
  <2>1. e \in Ticks
    BY <1>2, Kinds
  <2> HIDE DEF e
  <2> QED  BY <1>2, <1>3, <2>1, FoldsTick
<1>6. /\ match' = f.match /\ said' = Heard(e) /\ agenda' = f.nested \o f.out \o <<>>
      /\ stage' = stage /\ UNCHANGED <<todo, cadence, round, committed>>
  BY <1>4, <1>5 DEF Publish
<1>7. said.ends = 0 /\ said.past = {}
  BY <1>1, <1>3 DEF Told, Running
<1>8. /\ said'.ends = 0 /\ said'.past = {} /\ said'.opened = said.opened /\ said'.closed = said.closed
      /\ said'.opened \in Nat /\ said'.closed \in Nat
  <2>1. said.ends \in Nat /\ said.opened \in Nat /\ said.closed \in Nat
    BY <1>1 DEF Shape
  <2>2. e.kind \notin {"MATCH_ENDED", "PLAN_COMMITTED", "CARDS_DISCARDED"}
    OBVIOUS
  <2> HIDE DEF e
  <2> QED  BY <1>6, <1>7, <2>1, <2>2, Hearing DEF One
\* What waits now, in both cases.
<1>9. /\ agenda' \in Seq(Events) /\ match' \in Match
      /\ \A i \in DOMAIN agenda' :
            /\ agenda'[i].kind \in {"DAMAGE_APPLIED", "BOILER_RUPTURED", "MECH_DESTROYED", "PILOT_KILLED"} \cup Terminals
            /\ agenda'[i].kind \in {"MECH_DESTROYED", "PILOT_KILLED"} => Dead(match'.mechs, agenda'[i])
            /\ agenda'[i].kind \in Terminals =>
                 /\ \A j \in DOMAIN agenda' : ~(j > i)
                 /\ \A j \in DOMAIN agenda' : agenda'[j].kind \in Terminals => i = j
                 /\ agenda'[i].by # "fold" => round = NoRound
                 /\ match'.status # "running" => agenda'[i].winner = match'.winner /\ agenda'[i].reason = match'.reason
      /\ match'.status # "running" => match'.reason # None /\ round = NoRound
  <2>1. ASSUME match.max # 0 /\ e.tick >= match.max, f.match.status = "ended", f.out = <<>>,
               NEW v \in Ends, f.nested = <<v>>, v.by = "lifecycle",
               v.winner = f.match.winner, v.reason = f.match.reason
        PROVE  <1>9!:
    <3>1. agenda' = <<v>>
      <4>1. agenda' = <<v>> \o <<>> \o <<>>
        <5> HIDE DEF f
        <5> QED  BY <1>6, <2>1
      <4> QED  BY <4>1
    <3>2. DOMAIN agenda' = {1} /\ agenda'[1] = v
      BY <3>1
    <3>3. v \in Events /\ v.kind \in Terminals /\ v.reason # None
      BY DEF Events, Ends, Reasons, None
    <3>4. agenda' \in Seq(Events)
      BY <3>1, <3>3
    <3>5. round = NoRound
      BY <1>3, <2>1
    <3>6. \A i, j \in DOMAIN agenda' : agenda'[i] = v /\ i = j /\ ~(j > i)
      BY <3>2
    <3>7. v.kind \notin {"MECH_DESTROYED", "PILOT_KILLED"}
      BY <3>3 DEF Terminals
    <3> HIDE DEF f, Dead
    <3> QED  BY <1>5, <1>6, <2>1, <3>3, <3>4, <3>5, <3>6, <3>7
  <2>2. ASSUME f.match.status = "running", f.nested = <<>>, Told1(f)
        PROVE  <1>9!:
    <3>1. /\ f.out \in Seq(Events) /\ Len(f.out) \in Nat /\ DOMAIN f.out = 1 .. Len(f.out)
          /\ \A i \in DOMAIN f.out :
               /\ i \in Nat
               /\ f.out[i].kind \in {"DAMAGE_APPLIED", "BOILER_RUPTURED", "MECH_DESTROYED", "PILOT_KILLED"} \cup Terminals
               /\ f.out[i].kind \in {"MECH_DESTROYED", "PILOT_KILLED"} => Dead(f.match.mechs, f.out[i])
               /\ f.out[i].kind \in Terminals => i = Len(f.out) /\ f.out[i].by = "fold"
      <4> HIDE DEF f
      <4> QED  BY <2>2, TickLeaves
    <3>2. agenda' = f.out
      <4>1. agenda' = <<>> \o f.out \o <<>>
        <5> HIDE DEF f
        <5> QED  BY <1>6, <2>2
      <4> HIDE DEF f
      <4> QED  BY <3>1, <4>1
    <3>3. match' = f.match
      BY <1>6
    <3> HIDE DEF f, Dead
    <3>4. \A i \in DOMAIN agenda' : agenda'[i].kind \in Terminals =>
                 /\ \A j \in DOMAIN agenda' : ~(j > i)
                 /\ \A j \in DOMAIN agenda' : agenda'[j].kind \in Terminals => i = j
      BY <3>1, <3>2
    <3> QED  BY <1>5, <2>2, <3>1, <3>2, <3>3, <3>4
  <2> HIDE DEF f
  <2> QED  BY <1>5, <2>1, <2>2
<1> HIDE DEF f
<1>10. Shape'
  BY <1>1, <1>6, <1>8, <1>9 DEF Shape
<1>11. TicksWait' /\ IntentsWait' /\ DeathsWait'
  <2>1. TicksWait' /\ IntentsWait'
    BY <1>9 DEF TicksWait, IntentsWait, Kind, Terminals
  <2>2. DeathsWait'
    <3>1. stage' = "ticked"
      BY <1>3, <1>6
    <3> QED  BY <1>9, <3>1 DEF DeathsWait, IsDeath, Kind, Known, Dead
  <2> QED  BY <2>1, <2>2
<1>12. EndsWait'
  <2>1. stage' = "ticked" /\ said'.ends = 0 /\ round' = round
    BY <1>3, <1>6, <1>8
  <2> QED  BY <1>9, <2>1 DEF EndsWait, IsEnd, IsDisc, Kind, Running
<1>13. Verdict' /\ Told'
  <2>1. stage' = "ticked" /\ said'.ends = 0 /\ said'.past = {}
    BY <1>3, <1>6, <1>8
  <2> QED  BY <1>9, <2>1 DEF Verdict, Told, Running
<1>14. Plane'
  <2>1. LastRegister' = LastRegister
    BY <1>6, SameRound
  <2>2. Latched /\ todo = <<>> /\ stage = "ticked"
    BY <1>1, <1>3 DEF Plane, Latched
  <2>3. Latched'
    BY <1>6, <1>9, <2>1, <2>2 DEF Latched, Running, Holds
  <2>4. RowsWait'
    <3>1. \A i \in DOMAIN agenda' : agenda'[i].kind \notin {"PLAN_COMMITTED", "CARDS_DISCARDED"}
      BY <1>9 DEF Terminals
    <3>2. todo' = <<>> /\ stage' = "ticked" /\ DOMAIN todo' = {}
      BY <1>6, <2>2
    <3> QED  BY <3>1, <3>2 DEF RowsWait, IsDisc, Kind
  <2> QED  BY <2>3, <2>4 DEF Plane
<1>15. Ledger'
  <2>1. Rowless(agenda')
    BY <1>9 DEF Rowless, Terminals
  <2>2. Rowless(agenda)
    BY <1>2, <1>3 DEF Rowless
  <2> QED  BY <1>1, <1>6, <1>8, <2>1, <2>2, RowlessLedger
<1>16. stage' # "raised"
  BY <1>1, <1>6
<1> QED  BY <1>10, <1>11, <1>12, <1>13, <1>14, <1>15, <1>16 DEF IInv, Flow

LEMMA Publishing ==
    ASSUME IInv, Publish
    PROVE  IInv'
BY PublishCalm, PublishEnd, PublishDeath, PublishTick

LEMMA RaiseKeeps ==
    ASSUME IInv, Raise
    PROVE  IInv'
<1>1. /\ Shape /\ Told /\ Ledger /\ agenda' = <<>> /\ stage' = "raised"
      /\ UNCHANGED <<match, todo, cadence, round, committed, said>>
  BY DEF IInv, Raise
<1>2. Shape'
  BY <1>1 DEF Shape, Stages
<1>3. Ledger'
  BY <1>1 DEF Ledger
<1> QED  BY <1>1, <1>2, <1>3 DEF IInv, Told

LEMMA DiscIsEvent ==
    /\ Row("CARDS_DISCARDED") \in Events /\ Row("CARDS_DISCARDED").kind = "CARDS_DISCARDED"
    /\ Discards \in Seq(Events) /\ Len(Discards) = 1 /\ Discards[1] = Row("CARDS_DISCARDED")
<1>1. Row("CARDS_DISCARDED") \in Events /\ Row("CARDS_DISCARDED").kind = "CARDS_DISCARDED"
  BY DEF Events, Discs, Row
<1> QED  BY <1>1 DEF Discards

(* The round is closed before the fold's own terminal.                      *)
LEMMA CloseRoundFirstKeeps ==
    ASSUME IInv, CloseRoundFirst
    PROVE  IInv'
<1> DEFINE disc == Row("CARDS_DISCARDED")
<1>1. /\ Shape /\ agenda # <<>> /\ stage # "raised" /\ Flow /\ Told /\ Latched /\ RowsWait /\ Ledger
      /\ ClosesRound(Head(agenda)) /\ agenda' = Discards \o agenda /\ round' = NoRound
      /\ UNCHANGED <<match, stage, todo, cadence, committed, said>>
  BY DEF IInv, CloseRoundFirst, Plane
<1>2. /\ agenda \in Seq(Events) /\ Head(agenda) = agenda[1] /\ 1 \in DOMAIN agenda
      /\ Len(agenda) \in Nat /\ DOMAIN agenda = 1 .. Len(agenda)
  BY <1>1, Tails DEF Shape
<1>3. agenda[1].kind \in Terminals /\ cadence = "paced" /\ round # NoRound
  BY <1>1, <1>2 DEF ClosesRound
<1>4. disc \in Events /\ disc.kind = "CARDS_DISCARDED" /\ agenda' = <<disc>> \o agenda
  BY <1>1, DiscIsEvent DEF Discards
<1>5. /\ agenda' \in Seq(Events) /\ Len(agenda') = Len(agenda) + 1 /\ DOMAIN agenda' = 1 .. Len(agenda) + 1
      /\ agenda'[1] = disc
      /\ \A i \in DOMAIN agenda : i \in Nat /\ i + 1 \in DOMAIN agenda' /\ agenda'[i + 1] = agenda[i]
      /\ \A i \in DOMAIN agenda' : i \in Nat /\ i >= 1 /\ (i # 1 => i - 1 \in DOMAIN agenda /\ agenda'[i] = agenda[i - 1])
  <2> HIDE DEF disc
  <2> QED  BY <1>2, <1>4
<1>6. \A i \in DOMAIN agenda' : agenda'[i].kind # "CARDS_DISCARDED" =>
        i # 1 /\ i - 1 \in DOMAIN agenda /\ agenda'[i] = agenda[i - 1]
  BY <1>4, <1>5
\* None of the round's rows waits yet, and the round is still owed its discards.
<1>7. \A i \in DOMAIN agenda : agenda[i].kind \notin {"CARDS_DISCARDED", "PLAN_COMMITTED"}
  <2>1. agenda # Discards /\ agenda # <<Row("PLAN_COMMITTED")>>
    BY <1>3 DEF Discards, Row, Terminals
  <2> QED  BY <1>1, <1>3, <2>1 DEF RowsWait, IsDisc, Kind
<1>8. \A i \in DOMAIN todo : todo[i].kind # "PLAN_COMMITTED"
  BY <1>1 DEF RowsWait
<1>9. Owed
  BY <1>1, <1>3, <1>7, <1>2 DEF RowsWait, Owed, Discards, Row
<1>10. ~Owed' /\ ~Committing'
  BY <1>1, <1>3 DEF Owed, Committing, LastRegister
<1>11. TicksWait'
  <2>1. \A i \in DOMAIN agenda : agenda[i].kind # "MATCH_TICK"
    <3>1. ASSUME NEW i \in DOMAIN agenda, agenda[i].kind = "MATCH_TICK"
          PROVE  FALSE
      <4>1. \A j \in 1 .. i - 1 : IsDisc(j)
        BY <1>1, <3>1 DEF Flow, TicksWait, Kind
      <4>2. i # 1
        BY <1>3, <3>1 DEF Terminals
      <4>3. 1 \in 1 .. i - 1
        BY <1>2, <4>2
      <4>4. agenda[1].kind = "CARDS_DISCARDED"
        BY <4>1, <4>3 DEF IsDisc, Kind
      <4> QED  BY <1>3, <4>4 DEF Terminals
    <3> QED  BY <3>1
  <2>2. \A i \in DOMAIN agenda' : agenda'[i].kind # "MATCH_TICK"
    BY <1>6, <2>1
  <2> QED  BY <2>2 DEF TicksWait, Kind
<1>12. IntentsWait'
  <2>1. \A i \in DOMAIN agenda : agenda[i].kind \notin {"MOVEMENT_RESOLVED", "MODE_TRANSITION_STARTED"}
    BY <1>1, <1>3 DEF Flow, IntentsWait, Kind, Terminals
  <2>2. \A i \in DOMAIN agenda' : agenda'[i].kind \notin {"MOVEMENT_RESOLVED", "MODE_TRANSITION_STARTED"}
    BY <1>6, <2>1
  <2> QED  BY <2>2 DEF IntentsWait, Kind
<1>13. DeathsWait'
  <2>1. \A i \in DOMAIN agenda : agenda[i].kind \in {"MECH_DESTROYED", "PILOT_KILLED"} =>
            stage = "ticked" /\ Dead(match.mechs, agenda[i])
    BY <1>1, <1>2, <1>3 DEF Flow, DeathsWait, IsDeath, IsEnd, Kind, Known, Dead
  <2>2. \A i \in DOMAIN agenda' : agenda'[i].kind \in {"MECH_DESTROYED", "PILOT_KILLED"} =>
            stage = "ticked" /\ Dead(match.mechs, agenda'[i])
    BY <1>6, <2>1
  <2> QED  BY <1>1, <2>2 DEF DeathsWait, IsDeath, Kind, Known, Dead
<1>14. EndsWait'
  <2>1. ASSUME NEW i \in DOMAIN agenda', agenda'[i].kind \in Terminals
        PROVE  /\ \A j \in DOMAIN agenda' : agenda'[j].kind \in Terminals => i = j
               /\ match.status # "running" => agenda'[i].winner = match.winner /\ agenda'[i].reason = match.reason
               /\ agenda'[i].kind = "MATCH_ENDED" =>
                    /\ said.ends = 0 /\ stage \notin {"acting", "after"}
                    /\ \A j \in DOMAIN agenda' : j > i =>
                          agenda'[j].kind = "CARDS_DISCARDED" /\ agenda'[i].reason = "aborted"
    <3>1. \A j \in DOMAIN agenda' : agenda'[j].kind \in Terminals =>
            j \in Nat /\ j - 1 \in DOMAIN agenda /\ agenda'[j] = agenda[j - 1]
      BY <1>5, <1>6 DEF Terminals
    <3>2. i \in Nat /\ i - 1 \in DOMAIN agenda /\ agenda'[i] = agenda[i - 1] /\ IsEnd(i - 1)
      BY <2>1, <3>1 DEF IsEnd, Kind
    <3>3. /\ \A j \in DOMAIN agenda : IsEnd(j) => i - 1 = j
          /\ ~Running => agenda[i - 1].winner = match.winner /\ agenda[i - 1].reason = match.reason
          /\ Kind(i - 1) = "MATCH_ENDED" =>
               /\ said.ends = 0 /\ stage \notin {"acting", "after"}
               /\ \A j \in DOMAIN agenda : j > i - 1 => IsDisc(j) /\ agenda[i - 1].reason = "aborted"
      BY <1>1, <3>2 DEF Flow, EndsWait
    <3>4. \A j \in DOMAIN agenda' : agenda'[j].kind \in Terminals => i = j
      <4>1. ASSUME NEW j \in DOMAIN agenda', agenda'[j].kind \in Terminals
            PROVE  i = j
        <5>1. j \in Nat /\ j - 1 \in DOMAIN agenda /\ IsEnd(j - 1)
          BY <3>1, <4>1 DEF IsEnd, Kind
        <5>2. i - 1 = j - 1
          BY <3>3, <5>1
        <5> QED  BY <3>2, <5>1, <5>2
      <4> QED  BY <4>1
    <3>5. agenda'[i].kind = "MATCH_ENDED" =>
            \A j \in DOMAIN agenda' : j > i => agenda'[j].kind = "CARDS_DISCARDED" /\ agenda'[i].reason = "aborted"
      <4>1. ASSUME agenda'[i].kind = "MATCH_ENDED", NEW j \in DOMAIN agenda', j > i
            PROVE  agenda'[j].kind = "CARDS_DISCARDED" /\ agenda'[i].reason = "aborted"
        <5>1. j \in Nat /\ j - 1 \in DOMAIN agenda /\ agenda'[j] = agenda[j - 1] /\ j - 1 > i - 1
          BY <1>5, <3>2, <4>1
        <5> QED  BY <3>2, <3>3, <4>1, <5>1 DEF IsDisc, Kind
      <4> QED  BY <4>1
    <3> QED  BY <3>2, <3>3, <3>4, <3>5 DEF Kind, Running
  <2> QED  BY <1>1, <2>1 DEF EndsWait, IsEnd, IsDisc, Kind, Running
<1>15. Verdict' /\ Told'
  <2>1. said.ends = 0 /\ said.past = {}
    BY <1>1, <1>2, <1>3, <1>7 DEF Told, IsDisc, Kind
  <2>2. Told'
    BY <1>1, <2>1 DEF Told
  <2>3. \A i \in DOMAIN agenda : i + 1 \in DOMAIN agenda' /\ agenda'[i + 1] = agenda[i]
    BY <1>5
  <2>4. Verdict'
    BY <1>1, <2>3 DEF Flow, Verdict, IsEnd, Kind, Running
  <2> QED  BY <2>2, <2>4
<1>16. Plane'
  <2>1. 2 \in DOMAIN agenda' /\ agenda'[2] = agenda[1]
    BY <1>2, <1>5
  <2>2. ~LastRegister'
    BY <1>1 DEF LastRegister
  <2>3. Latched'
    BY <1>1, <1>3, <2>1, <2>2 DEF Latched, IsEnd, Kind
  <2>4. \A i \in DOMAIN agenda' : agenda'[i].kind # "PLAN_COMMITTED"
    BY <1>4, <1>5, <1>7
  <2>5. \A i \in DOMAIN agenda' : agenda'[i].kind = "CARDS_DISCARDED" => i = 1
    BY <1>5, <1>7
  <2>6. RowsWait'
    BY <1>1, <1>8, <2>2, <2>4, <2>5 DEF RowsWait, IsDisc, Kind
  <2> QED  BY <2>3, <2>6 DEF Plane
<1>17. Ledger'
  <2>1. Holds(agenda, "PLAN_COMMITTED") = FALSE /\ Holds(agenda, "CARDS_DISCARDED") = FALSE
    BY <1>7 DEF Holds
  <2>2. Holds(agenda', "PLAN_COMMITTED") = FALSE /\ Holds(agenda', "CARDS_DISCARDED") = TRUE
    <3>1. 1 \in DOMAIN agenda' /\ agenda'[1].kind = "CARDS_DISCARDED"
      BY <1>2, <1>4, <1>5
    <3>2. \A i \in DOMAIN agenda' : agenda'[i].kind # "PLAN_COMMITTED"
      BY <1>4, <1>5, <1>7
    <3> QED  BY <3>1, <3>2 DEF Holds
  <2>3. Holds(todo, "PLAN_COMMITTED") = FALSE
    BY <1>8 DEF Holds
  <2>4. said.opened \in Nat /\ said.closed \in Nat
    BY <1>1 DEF Shape
  <2>5. Owed = TRUE /\ Owed' = FALSE /\ Committing' = FALSE
    BY <1>9, <1>10 DEF Owed, Committing
  <2>6. said.opened + One(FALSE) + One(FALSE) = said.closed + One(FALSE) + One(TRUE)
        /\ committed <= said.closed /\ said.closed <= said.opened
    BY <1>1, <2>1, <2>3, <2>5 DEF Ledger
  <2>7. said.opened + One(FALSE) + One(FALSE) = said.closed + One(TRUE) + One(FALSE)
    BY <2>4, <2>6 DEF One
  <2>8. Holds(todo', "PLAN_COMMITTED") = FALSE /\ said' = said /\ committed' = committed
    BY <1>1, <2>3
  <2> QED  BY <2>2, <2>5, <2>6, <2>7, <2>8 DEF Ledger
<1>18. Shape'
  BY <1>1, <1>5 DEF Shape
<1> QED  BY <1>1, <1>11, <1>12, <1>13, <1>14, <1>15, <1>16, <1>17, <1>18 DEF IInv, Flow

(* The rows of a tick.                                                      *)
LEMMA NoticeKinds ==
    ASSUME NEW e \in Calls
    PROVE  e.kind \notin {"PLAN_COMMITTED", "CARDS_DISCARDED"} /\ e \in RowEvents
BY DEF Calls, RowEvents, Notices

LEMMA PlanDisc ==
    /\ Row("PLAN_COMMITTED") \in RowEvents /\ Row("PLAN_COMMITTED").kind = "PLAN_COMMITTED"
    /\ Row("CARDS_DISCARDED") \in RowEvents /\ Row("CARDS_DISCARDED").kind = "CARDS_DISCARDED"
BY DEF RowEvents, Plans, Discs, Row

LEMMA Dealt ==
    ASSUME NEW pre, NEW mid \in Seq(Calls), NEW post, mid # <<>>,
           pre = <<>> \/ pre = <<Row("PLAN_COMMITTED")>>, post = <<>> \/ post = Discards
    PROVE  LET s == pre \o mid \o post
           IN  /\ s \in Seq(RowEvents) /\ s # <<>>
               /\ Holds(s, "PLAN_COMMITTED") <=> pre # <<>>
               /\ Holds(s, "CARDS_DISCARDED") <=> post # <<>>
               /\ \A i \in DOMAIN s : s[i].kind = "PLAN_COMMITTED" => i = 1
               /\ \A i, j \in DOMAIN s : s[i].kind = "CARDS_DISCARDED" => j <= i
<1> DEFINE s == pre \o mid \o post
           a == Len(pre)
           b == Len(mid)
           c == Len(post)
<1>1. /\ pre \in Seq(RowEvents) /\ a \in {0, 1} /\ (a = 0 <=> pre = <<>>)
      /\ \A i \in 1 .. a : pre[i].kind = "PLAN_COMMITTED"
  <2> DEFINE p == Row("PLAN_COMMITTED")
  <2>1. p \in RowEvents /\ p.kind = "PLAN_COMMITTED" /\ (pre = <<>> \/ pre = <<p>>)
    BY PlanDisc
  <2> HIDE DEF p
  <2>2. CASE pre = <<>>
    BY <2>2
  <2>3. CASE pre = <<p>>
    BY <2>1, <2>3
  <2> QED  BY <2>1, <2>2, <2>3
<1>2. /\ post \in Seq(RowEvents) /\ c \in {0, 1} /\ (c = 0 <=> post = <<>>)
      /\ \A i \in 1 .. c : post[i].kind = "CARDS_DISCARDED"
  <2> DEFINE p == Row("CARDS_DISCARDED")
  <2>1. p \in RowEvents /\ p.kind = "CARDS_DISCARDED" /\ (post = <<>> \/ post = <<p>>)
    BY PlanDisc DEF Discards
  <2> HIDE DEF p
  <2>2. CASE post = <<>>
    BY <2>2
  <2>3. CASE post = <<p>>
    BY <2>1, <2>3
  <2> QED  BY <2>1, <2>2, <2>3
<1>3. /\ mid \in Seq(RowEvents) /\ b \in Nat /\ b > 0
      /\ \A i \in 1 .. b : mid[i].kind \notin {"PLAN_COMMITTED", "CARDS_DISCARDED"}
  <2>1. b \in Nat /\ b > 0 /\ \A i \in 1 .. b : mid[i] \in Calls
    <3> HIDE DEF Calls
    <3> QED  BY Tails
  <2>2. mid \in Seq(RowEvents)
    <3>1. Calls \subseteq RowEvents
      BY NoticeKinds
    <3> QED  BY <3>1
  <2> QED  BY <2>1, <2>2, NoticeKinds
<1>4. /\ s \in Seq(RowEvents) /\ DOMAIN s = 1 .. a + b + c
      /\ \A i \in 1 .. a : s[i] = pre[i]
      /\ \A i \in 1 .. b : s[a + i] = mid[i]
      /\ \A i \in 1 .. c : s[a + b + i] = post[i]
  BY <1>1, <1>2, <1>3
<1>5. \A i \in DOMAIN s : i \in 1 .. a \/ i - a \in 1 .. b \/ i - (a + b) \in 1 .. c
  <2> HIDE DEF a, b, c, s
  <2> QED  BY <1>1, <1>2, <1>3, <1>4
<1>6. \A i \in DOMAIN s : /\ i \in Int
                          /\ i \in 1 .. a => s[i].kind = "PLAN_COMMITTED"
                          /\ i - a \in 1 .. b => s[i].kind \notin {"PLAN_COMMITTED", "CARDS_DISCARDED"}
                          /\ i - (a + b) \in 1 .. c => s[i].kind = "CARDS_DISCARDED"
  <2>1. ASSUME NEW i \in DOMAIN s
        PROVE  /\ i \in Int /\ (i \in 1 .. a => s[i] = pre[i])
               /\ i - a \in 1 .. b => s[i] = mid[i - a]
               /\ i - (a + b) \in 1 .. c => s[i] = post[i - (a + b)]
    <3> HIDE DEF a, b, c, s
    <3>1. i \in Int
      BY <1>1, <1>2, <1>3, <1>4
    <3>2. a + (i - a) = i /\ a + b + (i - (a + b)) = i
      BY <1>1, <1>2, <1>3, <3>1
    <3>3. i - a \in 1 .. b => s[a + (i - a)] = mid[i - a]
      BY <1>4
    <3>4. i - (a + b) \in 1 .. c => s[a + b + (i - (a + b))] = post[i - (a + b)]
      BY <1>4
    <3> QED  BY <1>4, <3>1, <3>2, <3>3, <3>4
  <2> HIDE DEF a, b, c, s
  <2> QED  BY <1>1, <1>2, <1>3, <2>1
<1> HIDE DEF a, b, c, s
<1>7. \A i \in DOMAIN s : s[i].kind = "PLAN_COMMITTED" => i = 1
  BY <1>1, <1>5, <1>6
<1>8. \A i, j \in DOMAIN s : s[i].kind = "CARDS_DISCARDED" => j <= i
  <2>1. ASSUME NEW i \in DOMAIN s, NEW j \in DOMAIN s, s[i].kind = "CARDS_DISCARDED"
        PROVE  j <= i
    <3>1. i - (a + b) \in 1 .. c /\ i \in Int
      BY <1>5, <1>6, <2>1
    <3>2. i = a + b + c
      BY <1>1, <1>2, <1>3, <3>1
    <3> QED  BY <1>1, <1>2, <1>3, <1>4, <3>2
  <2> QED  BY <2>1
<1>9. Holds(s, "PLAN_COMMITTED") <=> pre # <<>>
  <2>1. pre # <<>> => 1 \in DOMAIN s /\ 1 \in 1 .. a
    BY <1>1, <1>2, <1>3, <1>4
  <2>2. pre # <<>> => Holds(s, "PLAN_COMMITTED")
    BY <1>6, <2>1 DEF Holds
  <2>3. Holds(s, "PLAN_COMMITTED") => pre # <<>>
    <3>1. ASSUME NEW i \in DOMAIN s, s[i].kind = "PLAN_COMMITTED"
          PROVE  pre # <<>>
      <4>1. i \in 1 .. a
        BY <1>5, <1>6, <3>1
      <4> QED  BY <1>1, <4>1
    <3> QED  BY <3>1 DEF Holds
  <2> QED  BY <2>2, <2>3
<1>10. Holds(s, "CARDS_DISCARDED") <=> post # <<>>
  <2>1. post # <<>> => a + b + c \in DOMAIN s /\ (a + b + c) - (a + b) \in 1 .. c
    BY <1>1, <1>2, <1>3, <1>4
  <2>2. post # <<>> => Holds(s, "CARDS_DISCARDED")
    BY <1>6, <2>1 DEF Holds
  <2>3. Holds(s, "CARDS_DISCARDED") => post # <<>>
    <3>1. ASSUME NEW i \in DOMAIN s, s[i].kind = "CARDS_DISCARDED"
          PROVE  post # <<>>
      <4>1. i - (a + b) \in 1 .. c
        BY <1>5, <1>6, <3>1
      <4> QED  BY <1>2, <4>1
    <3> QED  BY <3>1 DEF Holds
  <2> QED  BY <2>2, <2>3
<1>11. s # <<>>
  <2>1. 1 \in DOMAIN s
    BY <1>1, <1>2, <1>3, <1>4
  <2> QED  BY <2>1
<1> QED  BY <1>4, <1>7, <1>8, <1>9, <1>10, <1>11 DEF s

LEMMA RegisterRowsAre ==
    ASSUME NEW order \in Seq(Mechs)
    PROVE  RegisterRows(order) \in Seq(Calls) /\ RegisterRows(order) # <<>>
<1>1. \A i \in DOMAIN order : Intent(order[i]) \in Calls
  BY DEF Intent, Calls, Notices, Publishers
<1>2. Row("REGISTER_RESOLVED") \in Calls
  BY DEF Row, Calls, Notices
<1>3. [i \in DOMAIN order |-> Intent(order[i])] \in Seq(Calls)
  <2> HIDE DEF Calls
  <2> QED  BY <1>1
<1> HIDE DEF Calls
<1> QED  BY <1>2, <1>3 DEF RegisterRows

LEMMA PacedRowsAre ==
    ASSUME NEW order \in Seq(Mechs), NEW r
    PROVE  LET s == PacedRows(order, r)
           IN  /\ s \in Seq(RowEvents) /\ s # <<>>
               /\ Holds(s, "PLAN_COMMITTED") <=> r = 0
               /\ Holds(s, "CARDS_DISCARDED") <=> r = Registers - 1
               /\ \A i \in DOMAIN s : s[i].kind = "PLAN_COMMITTED" => i = 1
               /\ \A i, j \in DOMAIN s : s[i].kind = "CARDS_DISCARDED" => j <= i
<1> DEFINE pre == IF r = 0 THEN <<Row("PLAN_COMMITTED")>> ELSE <<>>
           post == IF r = Registers - 1 THEN Discards ELSE <<>>
           mid == RegisterRows(order)
<1>1. mid \in Seq(Calls) /\ mid # <<>>
  BY RegisterRowsAre
<1>2. (pre = <<>> \/ pre = <<Row("PLAN_COMMITTED")>>) /\ (pre # <<>> <=> r = 0)
  BY DEF Row
<1>3. (post = <<>> \/ post = Discards) /\ (post # <<>> <=> r = Registers - 1)
  BY DEF Discards
<1>4. PacedRows(order, r) = pre \o mid \o post
  BY DEF PacedRows
<1> DEFINE s == pre \o mid \o post
<1>5. /\ s \in Seq(RowEvents) /\ s # <<>>
      /\ Holds(s, "PLAN_COMMITTED") <=> pre # <<>>
      /\ Holds(s, "CARDS_DISCARDED") <=> post # <<>>
      /\ \A i \in DOMAIN s : s[i].kind = "PLAN_COMMITTED" => i = 1
      /\ \A i, j \in DOMAIN s : s[i].kind = "CARDS_DISCARDED" => j <= i
  <2>1. (pre = <<>> \/ pre = <<Row("PLAN_COMMITTED")>>) /\ (post = <<>> \/ post = Discards)
    BY <1>2, <1>3
  <2> HIDE DEF pre, post, mid, Calls
  <2> QED  BY <1>1, <2>1, Dealt
<1>6. PacedRows(order, r) = s
  BY <1>4
<1> HIDE DEF pre, post, s
<1> QED  BY <1>2, <1>3, <1>5, <1>6

LEMMA AtomicRowsAre ==
    ASSUME NEW order \in Seq(Mechs)
    PROVE  LET s == AtomicRows(order)
           IN  /\ s \in Seq(RowEvents) /\ s # <<>>
               /\ Holds(s, "PLAN_COMMITTED") /\ Holds(s, "CARDS_DISCARDED")
               /\ \A i \in DOMAIN s : s[i].kind = "PLAN_COMMITTED" => i = 1
               /\ \A i, j \in DOMAIN s : s[i].kind = "CARDS_DISCARDED" => j <= i
<1> DEFINE rows == RegisterRows(order)
           n == Len(rows)
           mid == [i \in 1 .. Registers * n |-> rows[((i - 1) % n) + 1]]
           pre == <<Row("PLAN_COMMITTED")>>
<1>1. rows \in Seq(Calls) /\ rows # <<>>
  BY RegisterRowsAre
<1>2. n \in Nat /\ n > 0 /\ \A i \in 1 .. n : rows[i] \in Calls
  <2> HIDE DEF rows, Calls
  <2> QED  BY <1>1, Tails
<1>3. Registers \in Nat /\ Registers > 0
  BY RunnerAssumption DEF RunnerAssumption
<1>4. Registers * n \in Nat /\ Registers * n > 0
  <2> HIDE DEF n
  <2> QED  BY <1>2, <1>3
<1>5. \A i \in 1 .. Registers * n : ((i - 1) % n) + 1 \in 1 .. n
  <2> HIDE DEF n
  <2>1. \A x \in Int : x % n \in 0 .. n - 1
    BY <1>2
  <2>2. \A i \in 1 .. Registers * n : i - 1 \in Int
    BY <1>4
  <2> QED  BY <1>2, <2>1, <2>2
<1>6. mid \in Seq(Calls) /\ mid # <<>>
  <2> HIDE DEF n, rows, Calls
  <2>1. \A i \in 1 .. Registers * n : rows[((i - 1) % n) + 1] \in Calls
    BY <1>2, <1>5
  <2>2. Len(mid) = Registers * n
    BY <1>4
  <2> QED  BY <1>4, <2>1, <2>2
<1>7. AtomicRows(order) = pre \o mid \o Discards
  BY DEF AtomicRows
<1>8. pre # <<>> /\ Discards # <<>>
  BY DEF Discards
<1> HIDE DEF mid, Calls, pre
<1> QED  BY <1>6, <1>7, <1>8, Dealt DEF pre

(* Orders are of distinct living mechs, two at most.                        *)
LEMMA OrdersAre ==
    ASSUME NEW order \in Orders
    PROVE  /\ order \in Seq(Mechs) /\ Len(order) \in {0, 1, 2} /\ DOMAIN order = 1 .. Len(order)
           /\ \A i \in DOMAIN order : order[i] \in Living(match.mechs)
           /\ \A i, j \in DOMAIN order : order[i] = order[j] => i = j
<1> DEFINE n == Cardinality(Living(match.mechs))
<1>1. n \in Nat /\ n <= 2 /\ Living(match.mechs) \subseteq Mechs
  <2>1. Living(match.mechs) \subseteq Mechs /\ n \in Nat
    BY Counting
  <2>2. IsFiniteSet(Mechs) /\ Cardinality(Mechs) = 2
    <3>1. IsFiniteSet({Roster[1]}) /\ Cardinality({Roster[1]}) = 1
      BY FS_Singleton
    <3>2. Cardinality({Roster[1]} \cup {Roster[2]}) = 2
      BY <3>1, TwoMechs, FS_AddElement
    <3>3. Mechs = {Roster[1]} \cup {Roster[2]}
      BY TwoMechs
    <3> QED  BY <3>2, <3>3, TwoMechs
  <2>3. n <= Cardinality(Mechs)
    BY <2>1, <2>2, FS_Subset
  <2> QED  BY <2>1, <2>2, <2>3
<1>2. order \in [1 .. n -> Living(match.mechs)] /\ \A i, j \in DOMAIN order : order[i] = order[j] => i = j
  BY DEF Orders
<1> HIDE DEF n
<1>3. order \in Seq(Mechs) /\ Len(order) = n
  BY <1>1, <1>2
<1> QED  BY <1>1, <1>2, <1>3

(* The runner looks.                                                        *)
LEMMA Idling ==
    ASSUME IInv, Idle
    PROVE  /\ Shape /\ stage # "raised" /\ agenda = <<>> /\ DOMAIN agenda = {} /\ Verdict /\ Told
           /\ Latched /\ RowsWait
           /\ ~Running => round = NoRound /\ Cancelled = <<>> /\ match.reason # None
           /\ stage \in {"closing", "done"} => ~Running /\ round = NoRound
           /\ stage = "done" => said.ends = 1
           /\ said.ends \in {0, 1} /\ (said.ends = 1 => ~Running)
           /\ said.opened + One(Holds(todo, "PLAN_COMMITTED")) = said.closed + One(Owed)
           /\ Committing => committed + 1 <= said.closed + One(Owed)
           /\ committed <= said.closed /\ said.closed <= said.opened
           /\ said.opened \in Nat /\ said.closed \in Nat /\ committed \in Nat
<1>1. /\ Shape /\ stage # "raised" /\ agenda = <<>> /\ Verdict /\ Told /\ Latched /\ RowsWait /\ Ledger
  BY DEF IInv, Idle, Flow, Plane
<1>2. DOMAIN agenda = {}
  BY <1>1
<1>3. ~Running => round = NoRound /\ Cancelled = <<>> /\ match.reason # None
  BY <1>1 DEF Latched, Cancelled, Verdict
<1>4. stage \in {"closing", "done"} => ~Running /\ round = NoRound
  BY <1>1, <1>2 DEF Latched, Verdict
<1>5. stage = "done" => said.ends = 1
  BY <1>1, <1>2 DEF Verdict
<1>6. said.ends \in {0, 1} /\ (said.ends = 1 => ~Running)
  BY <1>1 DEF Told
<1>7. Holds(agenda, "PLAN_COMMITTED") = FALSE /\ Holds(agenda, "CARDS_DISCARDED") = FALSE
  BY <1>2 DEF Holds
<1>8. said.opened \in Nat /\ said.closed \in Nat /\ committed \in Nat
  BY <1>1 DEF Shape
<1>9. /\ said.opened + One(FALSE) + One(Holds(todo, "PLAN_COMMITTED")) = said.closed + One(FALSE) + One(Owed)
      /\ Committing => committed + 1 <= said.closed + One(FALSE) + One(Owed)
      /\ committed <= said.closed /\ said.closed <= said.opened
  BY <1>1, <1>7 DEF Ledger
<1>10. One(FALSE) = 0 /\ One(Owed) \in {0, 1} /\ One(Holds(todo, "PLAN_COMMITTED")) \in {0, 1}
  BY DEF One
<1>11. /\ said.opened + One(Holds(todo, "PLAN_COMMITTED")) = said.closed + One(Owed)
       /\ Committing => committed + 1 <= said.closed + One(Owed)
  <2> DEFINE p == One(Holds(todo, "PLAN_COMMITTED"))
             o == One(Owed)
             z == One(FALSE)
  <2>1. /\ said.opened + z + p = said.closed + z + o
        /\ Committing => committed + 1 <= said.closed + z + o
        /\ z = 0 /\ o \in {0, 1} /\ p \in {0, 1}
    BY <1>9, <1>10
  <2> HIDE DEF p, o, z
  <2>2. said.opened + p = said.closed + o /\ (Committing => committed + 1 <= said.closed + o)
    BY <1>8, <2>1
  <2> QED  BY <2>2 DEF p, o
<1> QED  BY <1>1, <1>2, <1>3, <1>4, <1>5, <1>6, <1>8, <1>9, <1>11

(* A step that publishes nothing.                                           *)
LEMMA Silently ==
    ASSUME IInv, Idle, agenda' = <<>>, match' = match, said' = said, stage' \in Stages \ {"raised"},
           stage' \in {"closing", "done"} => ~Running,
           stage' = "done" => said.ends = 1,
           said.ends = 1 => stage' \notin {"acting", "after"}
    PROVE  Flow' /\ Told'
<1>1. DOMAIN agenda' = {}
  OBVIOUS
<1>2. Verdict /\ Told
  BY Idling
<1>3. TicksWait' /\ IntentsWait' /\ DeathsWait' /\ EndsWait'
  BY <1>1 DEF TicksWait, IntentsWait, DeathsWait, EndsWait
<1>4. Verdict'
  BY <1>1, <1>2 DEF Verdict, Running
<1>5. Told'
  BY <1>1, <1>2 DEF Told, Running
<1> QED  BY <1>3, <1>4, <1>5 DEF Flow

(* The sums of the ledger after a step of the runner.                       *)
LEMMA Balance ==
    ASSUME said' = said,
           NEW p \in BOOLEAN, p <=> Holds(agenda', "PLAN_COMMITTED"),
           NEW q \in BOOLEAN, q <=> Holds(todo', "PLAN_COMMITTED"),
           NEW d \in BOOLEAN, d <=> Holds(agenda', "CARDS_DISCARDED"),
           NEW o \in BOOLEAN, o <=> Owed',
           said.opened + One(p) + One(q) = said.closed + One(d) + One(o),
           Committing' => committed' + 1 <= said.closed + One(d) + One(o),
           committed' <= said.closed, said.closed <= said.opened
    PROVE  Ledger'
<1>1. Holds(agenda', "PLAN_COMMITTED") = p /\ Holds(todo', "PLAN_COMMITTED") = q
        /\ Holds(agenda', "CARDS_DISCARDED") = d
  BY DEF Holds
<1>2. Owed' = o
  BY DEF Owed, Holds
<1> QED  BY <1>1, <1>2 DEF Ledger

LEMMA TickWasLastKeeps ==
    ASSUME IInv, TickWasLast
    PROVE  IInv'
<1>1. /\ Idle /\ stage = "ticked" /\ ~Running /\ round' = NoRound /\ stage' = "closing"
      /\ UNCHANGED <<match, todo, cadence, committed, said>>
      /\ agenda' = (IF Cancelled # <<>> /\ said.ends = 0
                    THEN <<Ended(match.winner, match.reason, "runner")>> ELSE <<>>) \o Cancelled
  BY DEF TickWasLast
<1>2. Shape /\ Latched /\ RowsWait /\ round = NoRound /\ Cancelled = <<>> /\ todo = <<>>
  BY <1>1, Idling DEF Latched
<1>3. agenda' = <<>>
  BY <1>1, <1>2
<1>4. Flow' /\ Told'
  BY <1>1, <1>3, Silently DEF Stages
<1>5. DOMAIN agenda' = {} /\ DOMAIN todo' = {}
  BY <1>1, <1>2, <1>3
<1>6. Plane'
  BY <1>1, <1>2, <1>5 DEF Plane, Latched, RowsWait, LastRegister, Holds
<1>7. ~Holds(todo, "PLAN_COMMITTED") /\ ~Owed /\ ~Holds(todo', "PLAN_COMMITTED") /\ ~Owed'
        /\ ~Holds(agenda', "PLAN_COMMITTED") /\ ~Holds(agenda', "CARDS_DISCARDED") /\ ~Committing'
  BY <1>1, <1>2, <1>5 DEF Owed, Holds, Committing
<1>8. said.opened + One(FALSE) + One(FALSE) = said.closed + One(FALSE) + One(FALSE)
        /\ committed' <= said.closed /\ said.closed <= said.opened
  <2>1. said.opened + One(Holds(todo, "PLAN_COMMITTED")) = said.closed + One(Owed)
          /\ committed <= said.closed /\ said.closed <= said.opened
    BY <1>1, Idling
  <2>2. Owed = FALSE /\ Holds(todo, "PLAN_COMMITTED") = FALSE
    BY <1>7 DEF Owed, Holds
  <2>3. said.opened \in Nat /\ said.closed \in Nat
    BY <1>2 DEF Shape
  <2> QED  BY <1>1, <2>1, <2>2, <2>3 DEF One
<1>9. Ledger'
  BY <1>1, <1>7, <1>8, Balance
<1>10. Shape'
  BY <1>1, <1>2, <1>3 DEF Shape, Stages
<1> QED  BY <1>1, <1>4, <1>6, <1>9, <1>10 DEF IInv

(* The steps of the runner.                                                 *)
LEMMA PilotsDecideKeeps ==
    ASSUME IInv, PilotsDecide
    PROVE  IInv'
<1>1. /\ Idle /\ stage = "ticked" /\ Running /\ cadence = "plain" /\ stage' = "acting"
      /\ UNCHANGED <<match, agenda, cadence, round, committed, said>>
  BY DEF PilotsDecide
<1>2. PICK order \in Orders : todo' = [i \in DOMAIN order |-> Intent(order[i])]
  BY DEF PilotsDecide
<1>3. Shape /\ Latched /\ RowsWait /\ agenda = <<>> /\ todo = <<>> /\ round = NoRound /\ said.ends = 0
  BY <1>1, Idling DEF Latched
<1>4. order \in Seq(Mechs)
  BY OrdersAre
<1>5. todo' \in Seq(RowEvents) /\ \A i \in DOMAIN todo' : todo'[i].kind = "INTENT"
  <2>1. \A i \in DOMAIN order : Intent(order[i]) \in RowEvents /\ Intent(order[i]).kind = "INTENT"
    BY <1>4 DEF Intent, RowEvents, Calls, Notices, Publishers
  <2> HIDE DEF RowEvents, Intent
  <2> QED  BY <1>2, <1>4, <2>1
<1>6. Flow' /\ Told'
  BY <1>1, <1>3, Silently DEF Stages
<1>7. DOMAIN agenda' = {} /\ agenda' = <<>>
  BY <1>1, <1>3
<1>8. ~Holds(todo', "PLAN_COMMITTED") /\ ~Holds(todo', "CARDS_DISCARDED")
        /\ ~Holds(agenda', "PLAN_COMMITTED") /\ ~Holds(agenda', "CARDS_DISCARDED")
  BY <1>5, <1>7 DEF Holds
<1>9. Latched'
  BY <1>1, <1>3, <1>8 DEF Latched
<1>10. RowsWait'
  BY <1>1, <1>5, <1>7 DEF RowsWait
<1>11. ~Owed' /\ ~Committing' /\ ~Owed /\ ~Holds(todo, "PLAN_COMMITTED")
  BY <1>1, <1>3, <1>8 DEF Owed, Committing, Holds
<1>12. said.opened + One(FALSE) + One(FALSE) = said.closed + One(FALSE) + One(FALSE)
        /\ committed' <= said.closed /\ said.closed <= said.opened
  <2>1. said.opened + One(Holds(todo, "PLAN_COMMITTED")) = said.closed + One(Owed)
          /\ committed <= said.closed /\ said.closed <= said.opened
          /\ said.opened \in Nat /\ said.closed \in Nat
    BY <1>1, Idling
  <2>2. Owed = FALSE /\ Holds(todo, "PLAN_COMMITTED") = FALSE
    BY <1>11 DEF Owed, Holds
  <2> QED  BY <1>1, <2>1, <2>2 DEF One
<1>13. Ledger'
  BY <1>1, <1>8, <1>11, <1>12, Balance
<1>14. Shape'
  BY <1>1, <1>3, <1>5 DEF Shape, Stages
<1> QED  BY <1>1, <1>6, <1>9, <1>10, <1>13, <1>14 DEF IInv, Plane

LEMMA DealAtomicRoundKeeps ==
    ASSUME IInv, DealAtomicRound
    PROVE  IInv'
<1>1. /\ Idle /\ stage = "ticked" /\ Running /\ cadence = "atomic" /\ stage' = "acting"
      /\ UNCHANGED <<match, agenda, cadence, round, committed, said>>
  BY DEF DealAtomicRound
<1>2. PICK order \in Orders : todo' = AtomicRows(order)
  BY DEF DealAtomicRound
<1>3. Shape /\ Latched /\ RowsWait /\ agenda = <<>> /\ todo = <<>> /\ round = NoRound /\ said.ends = 0
  BY <1>1, Idling DEF Latched
<1>4. order \in Seq(Mechs)
  BY OrdersAre
<1>5. /\ todo' \in Seq(RowEvents) /\ todo' # <<>>
      /\ Holds(todo', "PLAN_COMMITTED") /\ Holds(todo', "CARDS_DISCARDED")
      /\ \A i \in DOMAIN todo' : todo'[i].kind = "PLAN_COMMITTED" => i = 1
      /\ \A i, j \in DOMAIN todo' : todo'[i].kind = "CARDS_DISCARDED" => j <= i
  BY <1>2, <1>4, AtomicRowsAre
<1>6. Flow' /\ Told'
  BY <1>1, <1>3, Silently DEF Stages
<1>7. DOMAIN agenda' = {} /\ agenda' = <<>>
  BY <1>1, <1>3
<1>8. ~Holds(agenda', "PLAN_COMMITTED") /\ ~Holds(agenda', "CARDS_DISCARDED")
  BY <1>7 DEF Holds
<1>9. Latched'
  BY <1>1, <1>3 DEF Latched
<1>10. RowsWait'
  BY <1>1, <1>5, <1>7 DEF RowsWait, Running
<1>11. Owed' /\ ~Owed /\ ~Holds(todo, "PLAN_COMMITTED")
  BY <1>1, <1>3, <1>5 DEF Owed, Holds
<1>12. said.opened + One(FALSE) + One(TRUE) = said.closed + One(FALSE) + One(TRUE)
        /\ committed' <= said.closed /\ said.closed <= said.opened
        /\ committed' + 1 <= said.closed + One(FALSE) + One(TRUE)
  <2>1. said.opened + One(Holds(todo, "PLAN_COMMITTED")) = said.closed + One(Owed)
          /\ committed <= said.closed /\ said.closed <= said.opened
          /\ said.opened \in Nat /\ said.closed \in Nat /\ committed \in Nat
    BY <1>1, Idling
  <2>2. Owed = FALSE /\ Holds(todo, "PLAN_COMMITTED") = FALSE
    BY <1>11 DEF Owed, Holds
  <2> QED  BY <1>1, <2>1, <2>2 DEF One
<1>13. Ledger'
  BY <1>1, <1>5, <1>8, <1>11, <1>12, Balance
<1>14. Shape'
  BY <1>1, <1>3, <1>5 DEF Shape, Stages
<1> QED  BY <1>1, <1>6, <1>9, <1>10, <1>13, <1>14 DEF IInv, Plane

LEMMA SuppressRoundKeeps ==
    ASSUME IInv, SuppressRound
    PROVE  IInv'
<1>1. /\ Idle /\ stage = "ticked" /\ Running /\ cadence # "plain" /\ round = NoRound /\ stage' = "after"
      /\ UNCHANGED <<match, agenda, todo, cadence, round, committed, said>>
  BY DEF SuppressRound
<1>3. Shape /\ Latched /\ RowsWait /\ agenda = <<>> /\ todo = <<>> /\ said.ends = 0
  BY <1>1, Idling DEF Latched
<1>6. Flow' /\ Told'
  BY <1>1, <1>3, Silently DEF Stages
<1>7. DOMAIN agenda' = {} /\ agenda' = <<>> /\ DOMAIN todo' = {} /\ todo' = <<>>
  BY <1>1, <1>3
<1>8. ~Holds(agenda', "PLAN_COMMITTED") /\ ~Holds(agenda', "CARDS_DISCARDED") /\ ~Holds(todo', "PLAN_COMMITTED")
        /\ ~Holds(todo', "CARDS_DISCARDED")
  BY <1>7 DEF Holds
<1>9. Latched'
  BY <1>1, <1>3, <1>8 DEF Latched
<1>10. RowsWait'
  BY <1>1, <1>7 DEF RowsWait
<1>11. ~Owed' /\ ~Owed /\ ~Holds(todo, "PLAN_COMMITTED") /\ ~Committing'
  BY <1>1, <1>3, <1>8 DEF Owed, Holds, Committing
<1>12. said.opened + One(FALSE) + One(FALSE) = said.closed + One(FALSE) + One(FALSE)
        /\ committed' <= said.closed /\ said.closed <= said.opened
  <2>1. said.opened + One(Holds(todo, "PLAN_COMMITTED")) = said.closed + One(Owed)
          /\ committed <= said.closed /\ said.closed <= said.opened
          /\ said.opened \in Nat /\ said.closed \in Nat /\ committed \in Nat
    BY <1>1, Idling
  <2>2. Owed = FALSE /\ Holds(todo, "PLAN_COMMITTED") = FALSE
    BY <1>11 DEF Owed, Holds
  <2> QED  BY <1>1, <2>1, <2>2 DEF One
<1>13. Ledger'
  BY <1>1, <1>8, <1>11, <1>12, Balance
<1>14. Shape'
  BY <1>1, <1>3 DEF Shape, Stages
<1> QED  BY <1>1, <1>6, <1>9, <1>10, <1>13, <1>14 DEF IInv, Plane

LEMMA PaceRegisterKeeps ==
    ASSUME IInv, PaceRegister
    PROVE  IInv'
<1> DEFINE r == IF round = NoRound THEN 0 ELSE round.register
<1>1. /\ Idle /\ stage = "ticked" /\ Running /\ cadence = "paced" /\ stage' = "acting"
      /\ UNCHANGED <<match, agenda, cadence, committed, said>>
  BY DEF PaceRegister
<1>2. PICK order \in (IF round = NoRound THEN Orders ELSE {round.order}) :
            todo' = PacedRows(order, r) /\ round' = [order |-> order, register |-> r]
  BY DEF PaceRegister
<1>3. Shape /\ Latched /\ RowsWait /\ agenda = <<>> /\ todo = <<>> /\ said.ends = 0
  BY <1>1, Idling DEF Latched
<1>4. order \in Seq(Mechs) /\ r \in 0 .. Registers - 1 /\ (round # NoRound => r > 0)
  <2>1. CASE round = NoRound
    <3>1. Registers \in Nat /\ Registers > 0
      BY RunnerAssumption DEF RunnerAssumption
    <3> QED  BY <1>2, <2>1, <3>1, OrdersAre
  <2>2. CASE round # NoRound
    <3>1. round \in Rounds
      BY <1>3, <2>2 DEF Shape
    <3> QED  BY <1>1, <1>2, <1>3, <2>2, <3>1 DEF Rounds, Latched
  <2> QED  BY <2>1, <2>2
<1> HIDE DEF r
<1>5. /\ todo' \in Seq(RowEvents) /\ todo' # <<>>
      /\ Holds(todo', "PLAN_COMMITTED") <=> r = 0
      /\ Holds(todo', "CARDS_DISCARDED") <=> r = Registers - 1
      /\ \A i \in DOMAIN todo' : todo'[i].kind = "PLAN_COMMITTED" => i = 1
      /\ \A i, j \in DOMAIN todo' : todo'[i].kind = "CARDS_DISCARDED" => j <= i
  BY <1>2, <1>4, PacedRowsAre
<1>6. Flow' /\ Told'
  BY <1>1, <1>3, Silently DEF Stages
<1>7. DOMAIN agenda' = {} /\ agenda' = <<>>
  BY <1>1, <1>3
<1>8. ~Holds(agenda', "PLAN_COMMITTED") /\ ~Holds(agenda', "CARDS_DISCARDED")
  BY <1>7 DEF Holds
<1>9. round' \in Rounds /\ round' # NoRound /\ round'.register = r
  <2>1. round' \in Rounds /\ round'.register = r
    BY <1>2, <1>4 DEF Rounds
  <2>2. r # -1
    BY <1>4
  <2> QED  BY <2>1, <2>2 DEF NoRound
<1>10. LastRegister' <=> r = Registers - 1
  BY <1>9 DEF LastRegister
<1>11. Latched'
  BY <1>1, <1>5, <1>9, <1>10 DEF Latched, Running
<1>12. RowsWait'
  BY <1>1, <1>5, <1>7 DEF RowsWait, Running
<1>13. Owed' /\ (Owed <=> round # NoRound) /\ ~Holds(todo, "PLAN_COMMITTED") /\ ~Committing
  BY <1>1, <1>3, <1>5, <1>9 DEF Owed, Holds, Committing
<1>14. /\ said.opened + One(FALSE) + One(r = 0) = said.closed + One(FALSE) + One(TRUE)
       /\ committed' + 1 <= said.closed + One(FALSE) + One(TRUE)
       /\ committed' <= said.closed /\ said.closed <= said.opened
  <2>1. said.opened + One(Holds(todo, "PLAN_COMMITTED")) = said.closed + One(Owed)
          /\ committed <= said.closed /\ said.closed <= said.opened
          /\ said.opened \in Nat /\ said.closed \in Nat /\ committed \in Nat
    BY <1>1, Idling
  <2>2. One(Holds(todo, "PLAN_COMMITTED")) = 0 /\ One(Owed) = (IF round # NoRound THEN 1 ELSE 0)
    BY <1>13 DEF One
  <2>3. r = 0 <=> round = NoRound
    BY <1>4 DEF r
  <2>4. One(r = 0) = (IF round = NoRound THEN 1 ELSE 0) /\ One(FALSE) = 0 /\ One(TRUE) = 1
    BY <2>3 DEF One
  <2>5. said.opened = said.closed + (IF round # NoRound THEN 1 ELSE 0)
    <3> DEFINE p == One(Holds(todo, "PLAN_COMMITTED"))
               o == One(Owed)
    <3>1. said.opened + p = said.closed + o /\ p = 0 /\ o = (IF round # NoRound THEN 1 ELSE 0)
      BY <2>1, <2>2
    <3> HIDE DEF p, o
    <3> QED  BY <2>1, <3>1
  <2> DEFINE x == One(r = 0)
             z == One(FALSE)
             t == One(TRUE)
  <2>6. x = (IF round = NoRound THEN 1 ELSE 0) /\ z = 0 /\ t = 1
    BY <2>4
  <2> HIDE DEF x, z, t
  <2>7. /\ said.opened + z + x = said.closed + z + t
        /\ committed + 1 <= said.closed + z + t
    BY <2>1, <2>5, <2>6
  <2> QED  BY <1>1, <2>1, <2>7 DEF x, z, t
<1>15. Ledger'
  BY <1>1, <1>5, <1>8, <1>13, <1>14, Balance
<1>16. Shape'
  BY <1>1, <1>3, <1>5, <1>9 DEF Shape, Stages
<1> QED  BY <1>1, <1>6, <1>11, <1>12, <1>15, <1>16 DEF IInv, Plane

(* A step that publishes nothing and leaves no row of a round.              *)
LEMMA QuietEnd ==
    ASSUME IInv, Idle, agenda' = <<>>, todo' = <<>>, round' = NoRound,
           UNCHANGED <<match, cadence, committed, said>>,
           stage' \in Stages \ {"raised", "acting"},
           stage' \in {"closing", "done"} => ~Running,
           stage' = "done" => said.ends = 1,
           said.ends = 1 => stage' # "after",
           ~Owed, ~Holds(todo, "PLAN_COMMITTED")
    PROVE  IInv'
<1>1. Shape
  BY Idling
<1>2. Flow' /\ Told'
  BY Silently
<1>3. DOMAIN agenda' = {} /\ DOMAIN todo' = {}
  OBVIOUS
<1>4. Latched' /\ RowsWait'
  BY <1>3 DEF Latched, RowsWait, LastRegister, Holds
<1>5. ~Holds(todo', "PLAN_COMMITTED") /\ ~Owed'
        /\ ~Holds(agenda', "PLAN_COMMITTED") /\ ~Holds(agenda', "CARDS_DISCARDED") /\ ~Committing'
  BY <1>3 DEF Owed, Holds, Committing
<1>6. said.opened + One(FALSE) + One(FALSE) = said.closed + One(FALSE) + One(FALSE)
        /\ committed' <= said.closed /\ said.closed <= said.opened
  <2>1. said.opened + One(Holds(todo, "PLAN_COMMITTED")) = said.closed + One(Owed)
          /\ committed <= said.closed /\ said.closed <= said.opened
    BY Idling
  <2>2. Owed = FALSE /\ Holds(todo, "PLAN_COMMITTED") = FALSE
    BY DEF Owed, Holds
  <2>3. said.opened \in Nat /\ said.closed \in Nat
    BY <1>1 DEF Shape
  <2> QED  BY <2>1, <2>2, <2>3 DEF One
<1>7. Ledger'
  BY <1>5, <1>6, Balance
<1>8. Shape'
  BY <1>1 DEF Shape
<1> QED  BY <1>2, <1>4, <1>7, <1>8 DEF IInv, Plane

LEMMA CutTickKeeps ==
    ASSUME IInv, CutTick
    PROVE  IInv'
<1>1. /\ Idle /\ stage = "acting" /\ ~Running /\ cadence # "atomic"
      /\ todo' = <<>> /\ round' = NoRound /\ stage' = "after"
      /\ UNCHANGED <<match, cadence, committed, said>>
      /\ agenda' = (IF Cancelled # <<>> /\ said.ends = 0
                    THEN <<Ended(match.winner, match.reason, "runner")>> ELSE <<>>) \o Cancelled
  BY DEF CutTick, CutShort
<1>2. Shape /\ Latched /\ RowsWait /\ Told /\ round = NoRound /\ Cancelled = <<>>
  BY <1>1, Idling
<1>3. agenda' = <<>>
  BY <1>1, <1>2
<1>4. ~Owed
  BY <1>1, <1>2 DEF Owed, Latched, Shape
<1>5. ~Holds(todo, "PLAN_COMMITTED")
  BY <1>1, <1>2 DEF RowsWait, Holds
<1>6. said.ends # 1 /\ stage' \in Stages \ {"raised", "acting"}
  BY <1>1, <1>2 DEF Told, Stages
<1> QED  BY <1>1, <1>3, <1>4, <1>5, <1>6, QuietEnd

LEMMA LeaveLoopKeeps ==
    ASSUME IInv, LeaveLoop
    PROVE  IInv'
<1>1. /\ Idle /\ ~Running /\ stage \in {"top", "after"} /\ stage' = "closing"
      /\ UNCHANGED <<match, todo, cadence, committed, said>>
      /\ agenda' = IF stage = "after" THEN Cancelled ELSE <<>>
      /\ round' = IF stage = "after" THEN NoRound ELSE round
  BY DEF LeaveLoop
<1>2. Shape /\ Latched /\ RowsWait /\ Told /\ round = NoRound /\ Cancelled = <<>> /\ todo = <<>>
  BY <1>1, Idling DEF Latched
<1>3. agenda' = <<>> /\ todo' = <<>> /\ round' = NoRound
  BY <1>1, <1>2
<1>4. ~Owed /\ ~Holds(todo, "PLAN_COMMITTED")
  BY <1>1, <1>2 DEF Owed, Latched, Holds
<1>6. stage' \in Stages \ {"raised", "acting"}
  BY <1>1 DEF Stages
<1> QED  BY <1>1, <1>3, <1>4, <1>6, QuietEnd

LEMMA RowsPublishedKeeps ==
    ASSUME IInv, RowsPublished
    PROVE  IInv'
<1>1. /\ Idle /\ stage = "acting" /\ todo = <<>> /\ ~CutShort /\ stage' = "after"
      /\ committed' = committed + (IF Commits THEN 1 ELSE 0)
      /\ round' = IF cadence = "paced" /\ round.register < Registers - 1
                  THEN [round EXCEPT !.register = round.register + 1] ELSE NoRound
      /\ UNCHANGED <<match, agenda, todo, cadence, said>>
  BY DEF RowsPublished
<1>2. Shape /\ Latched /\ RowsWait /\ Told /\ agenda = <<>> /\ said.ends # 1
  BY <1>1, Idling DEF Told
<1>3. Flow' /\ Told'
  <2>1. stage' \in Stages \ {"raised"} /\ agenda' = <<>>
    BY <1>1, <1>2 DEF Stages
  <2> QED  BY <1>1, <1>2, <2>1, Silently
<1>4. DOMAIN agenda' = {} /\ DOMAIN todo' = {} /\ agenda' = <<>> /\ todo' = <<>>
  BY <1>1, <1>2
<1>5. cadence = "paced" => Running /\ round \in Rounds /\ round # NoRound
  <2> HAVE cadence = "paced"
  <2>1. Running
    BY <1>1 DEF CutShort
  <2>2. round # NoRound
    BY <1>1, <1>2, <2>1 DEF Latched
  <2> QED  BY <1>2, <2>1, <2>2 DEF Shape
<1>6. Registers \in Nat /\ Registers > 0
  BY RunnerAssumption DEF RunnerAssumption
<1>7. /\ round' \in Rounds \cup {NoRound}
      /\ round' # NoRound <=> cadence = "paced" /\ ~LastRegister
      /\ round' # NoRound => round'.register > 0
  <2>1. CASE cadence = "paced" /\ round.register < Registers - 1
    <3> DEFINE n == round.register + 1
    <3>1. round.order \in Seq(Mechs) /\ round.register \in 0 .. Registers - 1 /\ n \in 0 .. Registers - 1 /\ n > 0
      BY <1>5, <1>6, <2>1 DEF Rounds
    <3>2. round' = [order |-> round.order, register |-> n]
      BY <1>1, <1>5, <2>1 DEF Rounds
    <3> HIDE DEF n
    <3>3. round' \in Rounds /\ round'.register = n /\ round' # NoRound
      BY <3>1, <3>2 DEF Rounds, NoRound
    <3> QED  BY <1>6, <2>1, <3>1, <3>3 DEF LastRegister
  <2>2. CASE ~(cadence = "paced" /\ round.register < Registers - 1)
    <3>1. round' = NoRound
      BY <1>1, <2>2
    <3>2. cadence = "paced" => LastRegister
      BY <1>5, <1>6, <2>2 DEF Rounds, LastRegister
    <3> QED  BY <3>1, <3>2
  <2> QED  BY <2>1, <2>2
<1>8. Commits <=> Committing
  BY <1>1, <1>5 DEF Commits, Committing, LastRegister
<1>9. (Owed' <=> Owed) /\ ~Committing' /\ ~Holds(todo, "PLAN_COMMITTED")
  <2>1. Owed <=> cadence = "paced" /\ round # NoRound /\ ~LastRegister
    BY <1>1, <1>4 DEF Owed, Holds
  <2>2. Owed' <=> cadence = "paced" /\ round' # NoRound
    BY <1>1, <1>4 DEF Owed, Holds
  <2> QED  BY <1>1, <1>4, <1>5, <1>7, <2>1, <2>2 DEF Committing, Holds
<1>10. ~Holds(agenda', "PLAN_COMMITTED") /\ ~Holds(agenda', "CARDS_DISCARDED")
        /\ ~Holds(todo', "PLAN_COMMITTED") /\ ~Holds(todo', "CARDS_DISCARDED")
  BY <1>4 DEF Holds
<1>11. Committing => ~Owed
  BY <1>1, <1>4 DEF Owed, Holds, Committing
<1>12. /\ said.opened + One(FALSE) + One(FALSE) = said.closed + One(FALSE) + One(Owed)
       /\ committed' <= said.closed /\ said.closed <= said.opened
  <2> DEFINE p == One(Holds(todo, "PLAN_COMMITTED"))
             z == One(FALSE)
             o == One(Owed)
  <2>1. /\ said.opened + p = said.closed + o /\ committed <= said.closed /\ said.closed <= said.opened
        /\ Committing => committed + 1 <= said.closed + o
        /\ said.opened \in Nat /\ said.closed \in Nat /\ committed \in Nat
    BY <1>1, Idling
  <2>2. p = 0 /\ z = 0 /\ o \in {0, 1} /\ (~Owed => o = 0)
    BY <1>9 DEF One
  <2>3. committed' = committed + (IF Committing THEN 1 ELSE 0)
    BY <1>1, <1>8
  <2> HIDE DEF p, z, o
  <2>4. committed' <= said.closed
    BY <1>11, <2>1, <2>2, <2>3
  <2>5. said.opened + z + z = said.closed + z + o
    BY <2>1, <2>2
  <2> QED  BY <2>1, <2>4, <2>5 DEF z, o
<1>13. Ledger'
  <2> DEFINE o == Owed
  <2>1. o \in BOOLEAN /\ (o <=> Owed')
    BY <1>9 DEF Owed, Holds
  <2>2. said.opened + One(FALSE) + One(FALSE) = said.closed + One(FALSE) + One(o)
    BY <1>12
  <2> HIDE DEF o
  <2> QED  BY <1>1, <1>9, <1>10, <1>12, <2>1, <2>2, Balance
<1>14. Latched'
  BY <1>1, <1>4, <1>5, <1>7, <1>10 DEF Latched, Running
<1>15. RowsWait'
  BY <1>1, <1>4 DEF RowsWait
<1>16. Shape'
  <2>1. committed' \in Nat
    BY <1>1, <1>2 DEF Shape
  <2> QED  BY <1>1, <1>2, <1>7, <2>1 DEF Shape, Stages
<1> QED  BY <1>1, <1>3, <1>13, <1>14, <1>15, <1>16 DEF IInv, Plane

LEMMA SeqEqual ==
    ASSUME NEW S, NEW u \in Seq(S), NEW w \in Seq(S), Len(u) = Len(w),
           \A i \in 1 .. Len(u) : u[i] = w[i]
    PROVE  u = w
OBVIOUS

LEMMA PairOf ==
    ASSUME NEW a, NEW b
    PROVE  <<a>> \o <<b>> = <<a, b>> /\ <<>> \o <<a>> = <<a>> /\ <<a>> \o <<>> = <<a>>
<1>1. <<a>> \o <<b>> = <<a, b>>
  <2> DEFINE S == {a, b}
             u == <<a>> \o <<b>>
             w == <<a, b>>
  <2>1. u \in Seq(S) /\ Len(u) = 2 /\ u[1] = a /\ u[2] = b
    OBVIOUS
  <2>2. w \in Seq(S) /\ Len(w) = 2 /\ w[1] = a /\ w[2] = b
    OBVIOUS
  <2> HIDE DEF u, w, S
  <2>3. u = w
    <3>1. Len(u) = Len(w) /\ \A i \in 1 .. Len(u) : u[i] = w[i]
      BY <2>1, <2>2
    <3> QED  BY <2>1, <2>2, <3>1, SeqEqual
  <2> QED  BY <2>3 DEF u, w
<1>2. <<>> \o <<a>> = <<a>>
  OBVIOUS
<1>3. <<a>> \o <<>> = <<a>>
  OBVIOUS
<1> QED  BY <1>1, <1>2, <1>3

(* The runner declares a terminal of its own and cancels the latched round. *)
LEMMA Endings ==
    ASSUME IInv, Idle, stage # "acting", said.ends = 0,
           NEW v \in Ends, v.kind = "MATCH_ENDED",
           ~Running => v.winner = match.winner /\ v.reason = match.reason,
           \/ agenda' = Cancelled \o <<v>>
           \/ agenda' = <<v>> \o Cancelled /\ (v.reason = "aborted" \/ Cancelled = <<>>),
           round' = NoRound, stage' \in {"closing", "done"},
           UNCHANGED <<match, todo, cadence, committed, said>>
    PROVE  IInv'
<1> DEFINE disc == Row("CARDS_DISCARDED")
           cut == Cancelled # <<>>
<1>1. Shape /\ Latched /\ Verdict /\ Told /\ todo = <<>>
  BY Idling DEF Latched
<1>2. disc \in Events /\ disc.kind = "CARDS_DISCARDED" /\ v \in Events /\ v.kind \in Terminals
  BY DiscIsEvent DEF Events, Terminals
<1>3. Cancelled \in {<<>>, <<disc>>} /\ (cut <=> Owed) /\ cut \in BOOLEAN
  <2>1. cut <=> cadence = "paced" /\ round # NoRound
    BY DEF Cancelled, Discards
  <2>2. Cancelled \in {<<>>, <<disc>>}
    BY DEF Cancelled, Discards
  <2> QED  BY <1>1, <2>1, <2>2 DEF Owed, Holds
<1> HIDE DEF disc
<1>4. \/ ~cut /\ agenda' = <<v>>
      \/ cut /\ agenda' = <<disc, v>>
      \/ cut /\ agenda' = <<v, disc>> /\ v.reason = "aborted"
  <2>1. CASE Cancelled = <<>>
    BY <2>1, PairOf
  <2>2. CASE Cancelled = <<disc>>
    <3>1. cut
      BY <2>2
    <3>2. Cancelled # <<>>
      BY <2>2
    <3>3. agenda' = <<disc>> \o <<v>> \/ (agenda' = <<v>> \o <<disc>> /\ v.reason = "aborted")
      BY <2>2, <3>2
    <3> QED  BY <3>1, <3>3, PairOf
  <2> QED  BY <1>3, <2>1, <2>2
<1> HIDE DEF cut
<1>5. /\ agenda' \in Seq(Events)
      /\ \A i \in DOMAIN agenda' : agenda'[i] \in {v, disc}
      /\ \A i, j \in DOMAIN agenda' : agenda'[i] = agenda'[j] => i = j
      /\ \E i \in DOMAIN agenda' : agenda'[i] = v
      /\ (\E i \in DOMAIN agenda' : agenda'[i] = disc) <=> cut
      /\ \A i, j \in DOMAIN agenda' : agenda'[i] = v /\ j > i => agenda'[j] = disc /\ v.reason = "aborted"
  <2>1. v # disc
    BY <1>2 DEF Terminals
  <2>2. CASE ~cut /\ agenda' = <<v>>
    BY <1>2, <2>1, <2>2
  <2>3. CASE cut /\ agenda' = <<disc, v>>
    BY <1>2, <2>1, <2>3
  <2>4. CASE cut /\ agenda' = <<v, disc>> /\ v.reason = "aborted"
    BY <1>2, <2>1, <2>4
  <2> QED  BY <1>4, <2>2, <2>3, <2>4
<1>6. \A i \in DOMAIN agenda' : /\ agenda'[i].kind \in {"MATCH_ENDED", "CARDS_DISCARDED"}
                                /\ agenda'[i].kind \in Terminals <=> agenda'[i] = v
                                /\ agenda'[i].kind = "CARDS_DISCARDED" <=> agenda'[i] = disc
  BY <1>2, <1>5 DEF Terminals
<1>7. TicksWait' /\ IntentsWait' /\ DeathsWait'
  BY <1>6 DEF TicksWait, IntentsWait, DeathsWait, Kind, IsDeath
<1>8. EndsWait'
  BY <1>5, <1>6 DEF EndsWait, IsEnd, IsDisc, Kind, Running
<1>9. Verdict' /\ Told'
  <2>1. \E i \in DOMAIN agenda' : agenda'[i] = v
    BY <1>5
  <2>2. Verdict'
    BY <1>1, <1>2, <2>1 DEF Verdict, IsEnd, Kind, Running
  <2> QED  BY <1>1, <2>2 DEF Told
<1>10. DOMAIN todo' = {} /\ todo' = <<>>
  BY <1>1
<1>11. Latched'
  BY <1>1, <1>10 DEF Latched, Holds, LastRegister
<1>12. RowsWait'
  BY <1>5, <1>6, <1>10 DEF RowsWait, IsDisc, Kind, LastRegister
<1>13. /\ ~Holds(agenda', "PLAN_COMMITTED") /\ (Holds(agenda', "CARDS_DISCARDED") <=> cut)
       /\ ~Holds(todo', "PLAN_COMMITTED") /\ ~Holds(todo, "PLAN_COMMITTED")
  BY <1>1, <1>5, <1>6, <1>10 DEF Holds
<1>14. ~Owed' /\ ~Committing'
  BY <1>10 DEF Owed, Committing, Holds
<1>15. said.opened + One(FALSE) + One(FALSE) = said.closed + One(cut) + One(FALSE)
        /\ committed <= said.closed /\ said.closed <= said.opened
  <2> DEFINE p == One(Holds(todo, "PLAN_COMMITTED"))
             z == One(FALSE)
             o == One(Owed)
             c == One(cut)
  <2>1. /\ said.opened + p = said.closed + o /\ committed <= said.closed /\ said.closed <= said.opened
        /\ said.opened \in Nat /\ said.closed \in Nat
    BY Idling
  <2>2. p = 0 /\ z = 0 /\ o \in {0, 1} /\ c = o
    BY <1>3, <1>13 DEF One
  <2> HIDE DEF p, z, o, c
  <2>3. said.opened + z + z = said.closed + c + z
    BY <2>1, <2>2
  <2> QED  BY <2>1, <2>3 DEF z, c
<1>16. Ledger'
  BY <1>3, <1>13, <1>14, <1>15, Balance
<1>17. Shape'
  BY <1>1, <1>5 DEF Shape, Stages
<1> QED  BY <1>7, <1>8, <1>9, <1>11, <1>12, <1>16, <1>17 DEF IInv, Flow, Plane

LEMMA EndedIs ==
    ASSUME NEW w \in Mechs \cup {None}, NEW reason \in Reasons
    PROVE  LET v == Ended(w, reason, "runner")
           IN  v \in Ends /\ v.kind = "MATCH_ENDED" /\ v.winner = w /\ v.reason = reason
BY DEF Ended, Ends, Terminals, Publishers

LEMMA RunawayKeeps ==
    ASSUME IInv, Runaway
    PROVE  IInv'
<1> DEFINE v == Ended(None, "aborted_runaway", "runner")
<1>1. /\ Idle /\ stage = "top" /\ Running /\ agenda' = Cancelled \o <<v>>
      /\ round' = NoRound /\ stage' = "closing" /\ UNCHANGED <<match, todo, cadence, committed, said>>
  BY DEF Runaway
<1>2. said.ends = 0
  BY <1>1, Idling
<1>3. v \in Ends /\ v.kind = "MATCH_ENDED"
  BY EndedIs DEF Reasons
<1> HIDE DEF v
<1> QED  BY <1>1, <1>2, <1>3, Endings

LEMMA StoppedKeeps ==
    ASSUME IInv, Stopped
    PROVE  IInv'
<1> DEFINE v == Ended(None, "aborted", "runner")
<1>1. /\ Idle /\ stage = "top" /\ Running /\ agenda' = <<v>> \o Cancelled
      /\ round' = NoRound /\ stage' = "closing" /\ UNCHANGED <<match, todo, cadence, committed, said>>
  BY DEF Stopped
<1>2. said.ends = 0
  BY <1>1, Idling
<1>3. v \in Ends /\ v.kind = "MATCH_ENDED" /\ v.reason = "aborted"
  BY EndedIs DEF Reasons
<1> HIDE DEF v
<1> QED  BY <1>1, <1>2, <1>3, Endings

LEMMA PilotGivesUpKeeps ==
    ASSUME IInv, PilotGivesUp
    PROVE  IInv'
<1>1. PICK reason \in {"aborted", "provider_semantic_failure"} :
            agenda' = <<Ended(None, reason, "runner")>>
  BY DEF PilotGivesUp
<1> DEFINE v == Ended(None, reason, "runner")
<1>2. /\ Idle /\ stage = "ticked" /\ Running /\ round = NoRound /\ agenda' = <<v>>
      /\ round' = NoRound /\ stage' = "closing" /\ UNCHANGED <<match, todo, cadence, committed, said>>
  BY <1>1 DEF PilotGivesUp
<1>3. said.ends = 0 /\ Cancelled = <<>>
  BY <1>2, Idling DEF Cancelled
<1>4. v \in Ends /\ v.kind = "MATCH_ENDED"
  BY EndedIs DEF Reasons
<1> HIDE DEF v
<1>5. agenda' = Cancelled \o <<v>>
  BY <1>2, <1>3, PairOf
<1> QED  BY <1>2, <1>3, <1>4, <1>5, Endings

LEMMA CloseKeeps ==
    ASSUME IInv, Close
    PROVE  IInv'
<1> DEFINE v == Ended(match.winner, match.reason, "runner")
<1>1. /\ Idle /\ stage = "closing" /\ stage' = "done"
      /\ agenda' = IF Restates THEN <<v>> ELSE <<>>
      /\ UNCHANGED <<match, todo, cadence, round, committed, said>>
  BY DEF Close
<1>2. /\ Shape /\ Latched /\ ~Running /\ round = NoRound /\ match.reason # None /\ Cancelled = <<>>
      /\ said.ends \in {0, 1} /\ todo = <<>>
  BY <1>1, Idling DEF Latched
<1>3. CASE said.ends = 0
  <2>1. match.winner \in Mechs \cup {None} /\ match.reason \in Reasons
    BY <1>2 DEF Shape, Match
  <2>2. v \in Ends /\ v.kind = "MATCH_ENDED" /\ v.winner = match.winner /\ v.reason = match.reason
    BY <2>1, EndedIs
  <2>3. agenda' = <<v>>
    BY <1>1, <1>2, <1>3 DEF Restates
  <2> HIDE DEF v
  <2>4. agenda' = Cancelled \o <<v>>
    BY <1>2, <2>3, PairOf
  <2> QED  BY <1>1, <1>2, <1>3, <2>2, <2>4, Endings
<1>4. CASE said.ends = 1
  <2>1. agenda' = <<>> /\ todo' = <<>> /\ round' = NoRound
    BY <1>1, <1>2, <1>4 DEF Restates
  <2>2. ~Owed /\ ~Holds(todo, "PLAN_COMMITTED")
    BY <1>2 DEF Owed, Holds
  <2>3. stage' \in Stages \ {"raised", "acting"}
    BY <1>1 DEF Stages
  <2> QED  BY <1>1, <1>2, <1>4, <2>1, <2>2, <2>3, QuietEnd
<1> QED  BY <1>2, <1>3, <1>4

LEMMA BeginTickKeeps ==
    ASSUME IInv, BeginTick
    PROVE  IInv'
<1> DEFINE t == Tick(match.tick + 1)
           disc == Row("CARDS_DISCARDED")
           cut == CapClosesRound(match.tick + 1)
<1>1. /\ Idle /\ stage = "top" /\ Running /\ stage' = "ticked" /\ todo' = <<>>
      /\ agenda' = (IF cut THEN Discards ELSE <<>>) \o <<t>>
      /\ round' = IF cut THEN NoRound ELSE round
      /\ UNCHANGED <<match, cadence, committed, said>>
  BY DEF BeginTick
<1>2. Shape /\ Latched /\ Verdict /\ Told /\ todo = <<>> /\ said.ends = 0 /\ match.tick \in Nat
  <2>1. Shape /\ Latched /\ Verdict /\ Told /\ todo = <<>> /\ said.ends = 0
    BY <1>1, Idling DEF Latched
  <2> QED  BY <2>1 DEF Shape, Match
<1>3. /\ t \in Events /\ t.kind = "MATCH_TICK" /\ t.tick = match.tick + 1
      /\ disc \in Events /\ disc.kind = "CARDS_DISCARDED"
  <2>1. t \in Ticks /\ t.kind = "MATCH_TICK" /\ t.tick = match.tick + 1
    BY <1>2 DEF Tick, Ticks
  <2> QED  BY <2>1, DiscIsEvent DEF Events
<1>4. /\ cut \in BOOLEAN
      /\ cut => cadence = "paced" /\ round # NoRound
      /\ match.max # 0 /\ t.tick >= match.max => round' = NoRound
  <2>1. cut <=> cadence = "paced" /\ round # NoRound /\ match.max # 0 /\ match.tick + 1 >= match.max
    BY DEF CapClosesRound
  <2>2. cut \in BOOLEAN
    BY DEF CapClosesRound
  <2>3. round # NoRound => cadence = "paced"
    BY <1>2 DEF Latched
  <2> HIDE DEF cut, t
  <2>4. match.max # 0 /\ t.tick >= match.max => cut \/ round = NoRound
    BY <1>3, <2>1, <2>3
  <2> QED  BY <1>1, <2>1, <2>2, <2>4
<1>5. (~cut /\ agenda' = <<t>>) \/ (cut /\ agenda' = <<disc, t>>)
  <2>1. CASE cut
    <3>1. agenda' = <<disc>> \o <<t>>
      BY <1>1, <2>1 DEF Discards
    <3> HIDE DEF disc, t, cut
    <3> QED  BY <2>1, <3>1, PairOf
  <2>2. CASE ~cut
    <3>1. agenda' = <<>> \o <<t>>
      BY <1>1, <2>2
    <3> HIDE DEF disc, t, cut
    <3> QED  BY <2>2, <3>1, PairOf
  <2> QED  BY <2>1, <2>2
<1> HIDE DEF disc, t, cut
<1>6. /\ agenda' \in Seq(Events) /\ Len(agenda') \in Nat
      /\ \A i \in DOMAIN agenda' : agenda'[i] \in {t, disc}
      /\ \A i \in DOMAIN agenda' : agenda'[i] = t => i = Len(agenda') /\ \A j \in 1 .. i - 1 : agenda'[j] = disc
      /\ \A i, j \in DOMAIN agenda' : agenda'[i] = disc /\ agenda'[j] = disc => i = j
      /\ (\E i \in DOMAIN agenda' : agenda'[i] = disc) <=> cut
  <2>1. t # disc
    BY <1>3
  <2>2. CASE ~cut /\ agenda' = <<t>>
    BY <1>3, <2>1, <2>2
  <2>3. CASE cut /\ agenda' = <<disc, t>>
    BY <1>3, <2>1, <2>3
  <2> QED  BY <1>5, <2>2, <2>3
<1>7. \A i \in DOMAIN agenda' : /\ agenda'[i].kind \in {"MATCH_TICK", "CARDS_DISCARDED"}
                                /\ agenda'[i].kind = "MATCH_TICK" <=> agenda'[i] = t
                                /\ agenda'[i].kind = "CARDS_DISCARDED" <=> agenda'[i] = disc
  BY <1>3, <1>6
<1>8. TicksWait'
  <2>1. ASSUME NEW i \in DOMAIN agenda', agenda'[i].kind = "MATCH_TICK"
        PROVE  /\ stage' = "ticked" /\ Running' /\ agenda'[i].tick = match'.tick + 1
               /\ i = Len(agenda') /\ \A j \in 1 .. i - 1 : agenda'[j].kind = "CARDS_DISCARDED"
               /\ match'.max # 0 /\ agenda'[i].tick >= match'.max => round' = NoRound
    <3>1. agenda'[i] = t /\ i = Len(agenda') /\ \A j \in 1 .. i - 1 : agenda'[j] = disc
      BY <1>6, <1>7, <2>1
    <3> QED  BY <1>1, <1>3, <1>4, <3>1 DEF Running
  <2> QED  BY <2>1 DEF TicksWait, Kind, IsDisc
<1>9. IntentsWait' /\ DeathsWait' /\ EndsWait'
  BY <1>7 DEF IntentsWait, DeathsWait, EndsWait, Kind, IsDeath, IsEnd, Terminals
<1>10. Verdict' /\ Told'
  BY <1>1, <1>2 DEF Verdict, Told, Running
<1>11. DOMAIN todo' = {} /\ ~Holds(todo, "PLAN_COMMITTED") /\ ~Holds(todo', "PLAN_COMMITTED")
        /\ ~Holds(todo, "CARDS_DISCARDED") /\ ~Holds(todo', "CARDS_DISCARDED")
  BY <1>1, <1>2 DEF Holds
<1>12. Latched'
  BY <1>1, <1>2, <1>11 DEF Latched, Running
<1>13. RowsWait'
  BY <1>1, <1>6, <1>7, <1>11 DEF RowsWait, Kind, IsDisc
<1>14. /\ ~Holds(agenda', "PLAN_COMMITTED") /\ (Holds(agenda', "CARDS_DISCARDED") <=> cut)
  BY <1>6, <1>7 DEF Holds
<1>15. /\ Owed <=> cadence = "paced" /\ round # NoRound
       /\ Owed' <=> Owed /\ ~cut
       /\ cut => Owed
       /\ ~Committing'
  BY <1>1, <1>4, <1>11 DEF Owed, Committing
<1>16. PICK o \in BOOLEAN : o <=> Owed'
  BY DEF Owed, Holds
<1>17. said.opened + One(FALSE) + One(FALSE) = said.closed + One(cut) + One(o)
        /\ committed <= said.closed /\ said.closed <= said.opened
  <2> DEFINE p == One(Holds(todo, "PLAN_COMMITTED"))
             z == One(FALSE)
             b == One(Owed)
             c == One(cut)
             a == One(o)
  <2>1. /\ said.opened + p = said.closed + b /\ committed <= said.closed /\ said.closed <= said.opened
        /\ said.opened \in Nat /\ said.closed \in Nat
    BY <1>1, Idling
  <2>2. p = 0 /\ z = 0 /\ b = c + a /\ b \in Nat /\ c \in Nat /\ a \in Nat
    BY <1>11, <1>15, <1>16 DEF One
  <2> HIDE DEF p, z, b, c, a
  <2>3. said.opened + z + z = said.closed + c + a
    BY <2>1, <2>2
  <2> QED  BY <2>1, <2>3 DEF z, c, a
<1>18. Ledger'
  BY <1>1, <1>4, <1>11, <1>14, <1>15, <1>16, <1>17, Balance
<1>19. Shape'
  BY <1>1, <1>2, <1>6 DEF Shape, Stages
<1> QED  BY <1>1, <1>8, <1>9, <1>10, <1>12, <1>13, <1>18, <1>19 DEF IInv, Flow, Plane

(* What the intent of mech m may become: no row and no terminal, a move or  *)
(* a switch alone and legal, a death last and not its own.                  *)
Fit(r, m) ==
    /\ r \in Seq(Events)
    /\ \A i \in DOMAIN r :
         /\ r[i].kind \notin Terminals \cup {"MATCH_TICK", "PLAN_COMMITTED", "CARDS_DISCARDED", "PILOT_KILLED"}
         /\ r[i].kind = "MOVEMENT_RESOLVED" =>
              /\ i = 1 /\ r[i].from = match.mechs[r[i].mech].cell
              /\ Distance(r[i].from, r[i].to) <= match.mechs[r[i].mech].pressure
              /\ Distance(r[i].from, r[i].to) <= Rules.speed
         /\ r[i].kind = "MODE_TRANSITION_STARTED" => i = 1 /\ r[i].from = match.mechs[r[i].mech].mode
         /\ r[i].kind = "MECH_DESTROYED" => i = Len(r) /\ r[i].mech # m

LEMMA NothingFits ==
    ASSUME NEW m
    PROVE  Fit(<<>>, m)
BY DEF Fit

LEMMA OneFits ==
    ASSUME NEW e \in Events, NEW m,
           e.kind \notin Terminals \cup {"MATCH_TICK", "PLAN_COMMITTED", "CARDS_DISCARDED", "PILOT_KILLED", "MECH_DESTROYED"},
           e.kind = "MOVEMENT_RESOLVED" =>
              /\ e.from = match.mechs[e.mech].cell
              /\ Distance(e.from, e.to) <= match.mechs[e.mech].pressure
              /\ Distance(e.from, e.to) <= Rules.speed,
           e.kind = "MODE_TRANSITION_STARTED" => e.from = match.mechs[e.mech].mode
    PROVE  Fit(<<e>>, m)
<1>1. <<e>> \in Seq(Events) /\ DOMAIN <<e>> = {1} /\ <<e>>[1] = e
  OBVIOUS
<1> QED  BY <1>1 DEF Fit

LEMMA Steam ==
    ASSUME NEW kind \in {"INTENT", "WEAPON_FIRED", "HIT_RESOLVED", "WEAPON_FIRE_REJECTED",
                   "UTILITY_DEPLOYED", "BOILER_RUPTURED"}, NEW m \in Mechs
    PROVE  LET e == About(kind, m, "runner") IN e \in Events /\ e.kind = kind
<1>1. About(kind, m, "runner") \in Notices
  BY DEF About, Notices, Publishers
<1> QED  BY <1>1 DEF Events, About

LEMMA MovesFit ==
    ASSUME match \in Match, NEW m \in Mechs, NEW r \in MoveResults(m)
    PROVE  Fit(r, m)
<1> DEFINE mech == match.mechs[m]
<1>1. mech \in Mech /\ mech.cell \in Cells /\ mech.pressure \in Nat
  <2>1. mech \in Mech
    BY DEF Match
  <2> QED  BY <2>1 DEF Mech
<1>2. CASE r = <<>>
  BY <1>2, NothingFits
<1>3. CASE r # <<>>
  <2>1. PICK to \in Cells : r = <<Moved(m, mech.cell, to)>>
                /\ Distance(mech.cell, to) \in 1 .. Low(Rules.speed, mech.pressure)
    BY <1>3 DEF MoveResults
  <2> DEFINE e == Moved(m, mech.cell, to)
  <2>2. e \in Events /\ e.kind = "MOVEMENT_RESOLVED" /\ e.mech = m /\ e.from = mech.cell /\ e.to = to
    <3>1. e \in Moves /\ e.kind = "MOVEMENT_RESOLVED" /\ e.mech = m /\ e.from = mech.cell /\ e.to = to
      BY <1>1 DEF Moved, Moves
    <3> QED  BY <3>1 DEF Events
  <2>3. Distance(mech.cell, to) <= mech.pressure /\ Distance(mech.cell, to) <= Rules.speed
    <3>1. Low(Rules.speed, mech.pressure) <= mech.pressure /\ Low(Rules.speed, mech.pressure) <= Rules.speed
            /\ Low(Rules.speed, mech.pressure) \in Nat /\ Rules.speed \in Nat
      BY <1>1, LowHigh, Numbers
    <3> QED  BY <1>1, <2>1, <3>1
  <2> HIDE DEF e
  <2>4. e.kind \notin Terminals \cup {"MATCH_TICK", "PLAN_COMMITTED", "CARDS_DISCARDED", "PILOT_KILLED", "MECH_DESTROYED"}
          /\ e.kind # "MODE_TRANSITION_STARTED"
    BY <2>2 DEF Terminals
  <2>5. r = <<e>>
    BY <2>1 DEF e
  <2> QED  BY <2>2, <2>3, <2>4, <2>5, OneFits
<1> QED  BY <1>2, <1>3

LEMMA SwitchesFit ==
    ASSUME match \in Match, NEW m \in Mechs, NEW r \in SwitchResults(m)
    PROVE  Fit(r, m)
<1> DEFINE mech == match.mechs[m]
<1>1. mech \in Mech /\ mech.mode \in Modes \cup {None}
  <2>1. mech \in Mech
    BY DEF Match
  <2> QED  BY <2>1 DEF Mech
<1>2. CASE r = <<>>
  BY <1>2, NothingFits
<1>3. CASE r # <<>>
  <2>1. PICK to \in Modes : r = <<Switching(m, mech.mode, to)>>
    BY <1>3 DEF SwitchResults
  <2> DEFINE e == Switching(m, mech.mode, to)
  <2>2. e \in Events /\ e.kind = "MODE_TRANSITION_STARTED" /\ e.mech = m /\ e.from = mech.mode
    <3>1. e \in Switches /\ e.kind = "MODE_TRANSITION_STARTED" /\ e.mech = m /\ e.from = mech.mode
      BY <1>1 DEF Switching, Switches
    <3> QED  BY <3>1 DEF Events
  <2> HIDE DEF e
  <2>4. e.kind \notin Terminals \cup {"MATCH_TICK", "PLAN_COMMITTED", "CARDS_DISCARDED", "PILOT_KILLED", "MECH_DESTROYED"}
          /\ e.kind # "MOVEMENT_RESOLVED"
    BY <2>2 DEF Terminals
  <2>5. r = <<e>>
    BY <2>1 DEF e
  <2> QED  BY <2>2, <2>4, <2>5, OneFits
<1> QED  BY <1>2, <1>3

LEMMA HitsFit ==
    ASSUME match \in Match, NEW m \in Mechs
    PROVE  Fit(HitResults(m), m)
<1> DEFINE o == Opponent(m)
           target == match.mechs[o]
           absorbed == Low(target.armor, Rules.fireDamage)
           after == High(0, target.hp - (Rules.fireDamage - absorbed))
           a == About("WEAPON_FIRED", m, "runner")
           b == About("HIT_RESOLVED", m, "runner")
           c == Absorbed(o, target.armor - absorbed)
           d == Damage(o, after, "runner")
           k == About("MECH_DESTROYED", o, "runner")
<1>1. o \in Mechs /\ o # m
  <2>1. \E x \in Mechs : x # m
    BY TwoMechs
  <2> QED  BY <2>1 DEF Opponent
<1>2. target \in Mech /\ target.armor \in Nat /\ target.hp \in Nat
  <2>1. target \in Mech
    BY <1>1 DEF Match
  <2> QED  BY <2>1 DEF Mech
<1>3. target.armor - absorbed \in Nat /\ after \in Nat
  <2>1. absorbed \in Nat /\ absorbed <= target.armor /\ Rules.fireDamage \in Nat
    BY <1>2, LowHigh, Numbers
  <2>2. target.hp - (Rules.fireDamage - absorbed) \in Int
    BY <1>2, <2>1
  <2>3. after \in Nat
    <3> DEFINE x == target.hp - (Rules.fireDamage - absorbed)
    <3>1. x \in Int /\ after = High(0, x)
      BY <2>2
    <3> HIDE DEF x, after
    <3> QED  BY <3>1, LowHigh
  <2>4. target.armor - absorbed \in Nat
    <3> HIDE DEF absorbed
    <3> QED  BY <1>2, <2>1
  <2> QED  BY <2>3, <2>4
<1>4. HitResults(m) = <<a, b, c, d>> \o (IF after = 0 THEN <<k>> ELSE <<>>)
  BY DEF HitResults
<1>5. /\ a \in Events /\ a.kind = "WEAPON_FIRED" /\ b \in Events /\ b.kind = "HIT_RESOLVED"
  BY Steam
<1>6. c \in Events /\ c.kind = "ARMOR_ABSORBED"
  <2>1. c \in Notices /\ c.kind = "ARMOR_ABSORBED"
    BY <1>1, <1>3 DEF Absorbed, Notices, Publishers
  <2> QED  BY <2>1 DEF Events
<1>7. d \in Events /\ d.kind = "DAMAGE_APPLIED"
  <2>1. d \in Damages /\ d.kind = "DAMAGE_APPLIED"
    BY <1>1, <1>3 DEF Damage, Damages, Publishers
  <2> QED  BY <2>1 DEF Events
<1>8. k \in Events /\ k.kind = "MECH_DESTROYED" /\ k.mech = o
  <2>1. k \in Deaths /\ k.kind = "MECH_DESTROYED" /\ k.mech = o
    BY <1>1 DEF About, Deaths, Publishers
  <2> QED  BY <2>1 DEF Events
<1> DEFINE r == HitResults(m)
           pre == <<a, b, c, d>>
           post == IF after = 0 THEN <<k>> ELSE <<>>
<1>9. pre \in Seq(Events) /\ Len(pre) = 4 /\ DOMAIN pre = 1 .. 4
        /\ \A i \in DOMAIN pre : pre[i] \in {a, b, c, d}
  <2> HIDE DEF a, b, c, d
  <2> QED  BY <1>5, <1>6, <1>7
<1>10. post \in Seq(Events) /\ Len(post) \in {0, 1} /\ DOMAIN post = 1 .. Len(post)
        /\ \A i \in DOMAIN post : post[i] = k /\ i = 1 /\ Len(post) = 1
  <2> HIDE DEF k, after
  <2>1. CASE after = 0
    BY <1>8, <2>1
  <2>2. CASE after # 0
    BY <2>2
  <2> QED  BY <2>1, <2>2
<1>11. r = pre \o post
  BY <1>4
<1> HIDE DEF pre, post, r
<1>12. /\ r \in Seq(Events) /\ Len(r) = 4 + Len(post)
       /\ \A i \in DOMAIN r : r[i] \in {a, b, c, d} \/ (r[i] = k /\ i = Len(r))
  <2> HIDE DEF a, b, c, d, k
  <2>0. /\ r \in Seq(Events) /\ DOMAIN r = 1 .. Len(pre) + Len(post)
        /\ \A i \in DOMAIN r : IF i <= Len(pre) THEN i \in DOMAIN pre /\ r[i] = pre[i]
                    ELSE i - Len(pre) \in DOMAIN post /\ r[i] = post[i - Len(pre)]
    <3>1. pre \in Seq(Events) /\ post \in Seq(Events)
      BY <1>9, <1>10
    <3>2. /\ pre \o post \in Seq(Events) /\ DOMAIN (pre \o post) = 1 .. Len(pre) + Len(post)
          /\ \A i \in DOMAIN (pre \o post) :
                IF i <= Len(pre) THEN i \in DOMAIN pre /\ (pre \o post)[i] = pre[i]
                ELSE i - Len(pre) \in DOMAIN post /\ (pre \o post)[i] = post[i - Len(pre)]
      BY <3>1, Joined
    <3> QED  BY <1>11, <3>2
  <2>1. /\ r \in Seq(Events) /\ DOMAIN r = 1 .. 4 + Len(post) /\ Len(r) = 4 + Len(post)
        /\ \A i \in DOMAIN r : IF i <= 4 THEN i \in DOMAIN pre /\ r[i] = pre[i]
                    ELSE i - 4 \in DOMAIN post /\ r[i] = post[i - 4]
    BY <1>9, <1>10, <2>0
  <2>2. ASSUME NEW i \in DOMAIN r
        PROVE  r[i] \in {a, b, c, d} \/ (r[i] = k /\ i = Len(r))
    <3>1. CASE i <= 4
      BY <1>9, <2>1, <3>1
    <3>2. CASE ~(i <= 4)
      <4>1. i - 4 \in DOMAIN post /\ r[i] = post[i - 4] /\ i \in Nat
        BY <2>1, <3>2, <1>10
      <4> QED  BY <1>10, <2>1, <4>1
    <3> QED  BY <3>1, <3>2
  <2> QED  BY <2>1, <2>2
<1> HIDE DEF a, b, c, d, k, o
<1>13. ASSUME NEW i \in DOMAIN r
       PROVE  /\ r[i].kind \in {"WEAPON_FIRED", "HIT_RESOLVED", "ARMOR_ABSORBED", "DAMAGE_APPLIED", "MECH_DESTROYED"}
              /\ r[i].kind = "MECH_DESTROYED" => i = Len(r) /\ r[i].mech # m
  BY <1>1, <1>5, <1>6, <1>7, <1>8, <1>12
<1>14. Fit(r, m)
  BY <1>12, <1>13 DEF Fit, Terminals
<1> QED  BY <1>14 DEF r

LEMMA ResolutionsFit ==
    ASSUME match \in Match, NEW m \in Mechs, NEW r \in Resolutions(m)
    PROVE  Fit(r, m)
<1>1. PICK a \in Acts[m] : r \in (CASE a = "move" -> MoveResults(m)
             [] a = "fire" -> FireResults(m)
             [] a = "switch" -> SwitchResults(m)
             [] a = "utility" -> {<<About("UTILITY_DEPLOYED", m, "runner")>>}
             [] a = "vent" -> {<<>>})
  BY DEF Resolutions
<1>2. a \in {"move", "fire", "switch", "utility", "vent"}
  <2>1. Acts[m] \in SUBSET {"move", "fire", "switch", "utility", "vent"}
    BY RunnerAssumption DEF RunnerAssumption
  <2> QED  BY <2>1
<1>3. ASSUME NEW kind \in {"WEAPON_FIRED", "WEAPON_FIRE_REJECTED", "UTILITY_DEPLOYED"}
      PROVE  Fit(<<About(kind, m, "runner")>>, m)
  <2> DEFINE e == About(kind, m, "runner")
  <2>1. e \in Events /\ e.kind = kind
    BY Steam
  <2> HIDE DEF e
  <2>2. Fit(<<e>>, m)
    BY <2>1, OneFits DEF Terminals
  <2> QED  BY <2>2 DEF e
<1>4. CASE a = "move"
  BY <1>1, <1>4, MovesFit
<1>5. CASE a = "switch"
  BY <1>1, <1>5, SwitchesFit
<1>6. CASE a = "fire"
  <2>1. r \in FireResults(m)
    BY <1>1, <1>6
  <2>2. \/ r = <<About("WEAPON_FIRE_REJECTED", m, "runner")>> \/ r = <<About("WEAPON_FIRED", m, "runner")>>
        \/ r = HitResults(m)
    BY <2>1 DEF FireResults
  <2> QED  BY <1>3, <2>2, HitsFit
<1>7. CASE a = "utility"
  <2>1. r = <<About("UTILITY_DEPLOYED", m, "runner")>>
    BY <1>1, <1>7
  <2> QED  BY <1>3, <2>1
<1>8. CASE a = "vent"
  <2>1. r = <<>>
    BY <1>1, <1>8
  <2> QED  BY <2>1, NothingFits
<1> QED  BY <1>2, <1>4, <1>5, <1>6, <1>7, <1>8

LEMMA RowKinds ==
    ASSUME NEW e \in RowEvents
    PROVE  /\ e \in Events
           /\ e.kind \notin Terminals \cup {"MATCH_TICK", "MOVEMENT_RESOLVED", "MODE_TRANSITION_STARTED",
                                            "MECH_DESTROYED", "PILOT_KILLED"}
           /\ e.kind \notin {"DAMAGE_APPLIED", "UTILITY_DEPLOYED"}
           /\ e.kind = "PLAN_COMMITTED" => e = Row("PLAN_COMMITTED")
           /\ e.kind = "CARDS_DISCARDED" => e = Row("CARDS_DISCARDED")
           /\ e.kind = "INTENT" => e.mech \in Mechs
<1>1. e \in Plans => e.kind = "PLAN_COMMITTED" /\ e = Row("PLAN_COMMITTED")
  BY DEF Plans, Row
<1>2. e \in Discs => e.kind = "CARDS_DISCARDED" /\ e = Row("CARDS_DISCARDED")
  BY DEF Discs, Row
<1>3. e \in Calls => /\ e.kind \in {"REGISTER_RESOLVED", "INTENT"}
                     /\ e.kind = "INTENT" => e.mech \in Mechs
  BY DEF Calls, Notices
<1>4. e \in Events
  BY DEF Events, RowEvents, Calls
<1> QED  BY <1>1, <1>2, <1>3, <1>4 DEF RowEvents, Terminals

(* What is left of the tick after its next row.                             *)
LEMMA Remaining ==
    ASSUME Shape, RowsWait, todo # <<>>, todo' = Tail(todo)
    PROVE  /\ todo' \in Seq(RowEvents) /\ Head(todo) \in RowEvents
           /\ ~Holds(todo', "PLAN_COMMITTED")
           /\ Holds(todo, "PLAN_COMMITTED") <=> Head(todo).kind = "PLAN_COMMITTED"
           /\ Holds(todo, "CARDS_DISCARDED") <=> Head(todo).kind = "CARDS_DISCARDED" \/ Holds(todo', "CARDS_DISCARDED")
           /\ Head(todo).kind = "CARDS_DISCARDED" => todo' = <<>>
           /\ \A i, j \in DOMAIN todo' : todo'[i].kind = "CARDS_DISCARDED" => j <= i
           /\ ~Holds(<<>>, "CARDS_DISCARDED")
<1>0. todo \in Seq(RowEvents)
  BY DEF Shape
<1>1. /\ Len(todo) \in Nat /\ DOMAIN todo = 1 .. Len(todo) /\ 1 \in DOMAIN todo
      /\ Head(todo) = todo[1] /\ Head(todo) \in RowEvents /\ todo' \in Seq(RowEvents) /\ Len(todo') = Len(todo) - 1
      /\ \A i \in DOMAIN todo' : i \in Nat /\ i >= 1 /\ i + 1 \in DOMAIN todo /\ todo'[i] = todo[i + 1]
  <2> HIDE DEF RowEvents
  <2> QED  BY <1>0, Tails
<1>2. ~Holds(todo', "PLAN_COMMITTED")
  <2>1. ASSUME NEW i \in DOMAIN todo', todo'[i].kind = "PLAN_COMMITTED"
        PROVE  FALSE
    <3>1. i + 1 = 1
      BY <1>1, <2>1 DEF RowsWait
    <3> QED  BY <1>1, <3>1
  <2> QED  BY <2>1 DEF Holds
<1>3. \A kind : Holds(todo, kind) <=> Head(todo).kind = kind \/ Holds(todo', kind)
  <2> HIDE DEF RowEvents
  <2> QED  BY <1>0, HoldsTail
<1>4. Head(todo).kind = "CARDS_DISCARDED" => todo' = <<>>
  <2> HAVE Head(todo).kind = "CARDS_DISCARDED"
  <2>1. \A j \in DOMAIN todo : j <= 1
    BY <1>1 DEF RowsWait
  <2>2. Len(todo) \in DOMAIN todo
    BY <1>1
  <2>3. Len(todo') = 0
    BY <1>1, <2>1, <2>2
  <2> HIDE DEF RowEvents
  <2> QED  BY <1>1, <2>3, Empty
<1>5. \A i, j \in DOMAIN todo' : todo'[i].kind = "CARDS_DISCARDED" => j <= i
  <2>1. ASSUME NEW i \in DOMAIN todo', NEW j \in DOMAIN todo', todo'[i].kind = "CARDS_DISCARDED"
        PROVE  j <= i
    <3>1. j + 1 <= i + 1
      BY <1>1, <2>1 DEF RowsWait
    <3> QED  BY <1>1, <3>1
  <2> QED  BY <2>1
<1>6. ~Holds(<<>>, "CARDS_DISCARDED")
  BY DEF Holds
<1> QED  BY <1>1, <1>2, <1>3, <1>4, <1>5, <1>6

(* A row of the tick with what its intent becomes.                          *)
LEMMA ActKeeps ==
    ASSUME IInv, Act
    PROVE  IInv'
<1> DEFINE e == Head(todo)
           able == e.kind = "INTENT" /\ Able(e.mech)
           plan == e.kind = "PLAN_COMMITTED"
           disc == e.kind = "CARDS_DISCARDED"
<1>1. /\ Idle /\ stage = "acting" /\ todo # <<>> /\ ~CutShort /\ todo' = Tail(todo)
      /\ UNCHANGED <<match, stage, cadence, round, committed, said>>
  BY DEF Act
<1>2. PICK r \in (IF able THEN Resolutions(e.mech) ELSE {<<>>}) : agenda' = <<e>> \o r
  BY DEF Act
<1>3. /\ Shape /\ Latched /\ RowsWait /\ Told /\ Verdict /\ agenda = <<>> /\ DOMAIN agenda = {} /\ said.ends # 1
      /\ match \in Match
  <2>1. /\ Shape /\ Latched /\ RowsWait /\ Told /\ Verdict /\ agenda = <<>> /\ DOMAIN agenda = {}
    BY <1>1, Idling
  <2> QED  BY <1>1, <2>1 DEF Told, Shape
<1>4. /\ todo' \in Seq(RowEvents) /\ e \in RowEvents
      /\ ~Holds(todo', "PLAN_COMMITTED") /\ (Holds(todo, "PLAN_COMMITTED") <=> plan)
      /\ Holds(todo, "CARDS_DISCARDED") <=> disc \/ Holds(todo', "CARDS_DISCARDED")
      /\ disc => todo' = <<>>
      /\ \A i, j \in DOMAIN todo' : todo'[i].kind = "CARDS_DISCARDED" => j <= i
      /\ ~Holds(<<>>, "CARDS_DISCARDED")
  <2> HIDE DEF RowEvents
  <2> QED  BY <1>1, <1>3, Remaining
<1>5. /\ e \in Events
      /\ e.kind \notin Terminals \cup {"MATCH_TICK", "MOVEMENT_RESOLVED", "MODE_TRANSITION_STARTED",
                                       "MECH_DESTROYED", "PILOT_KILLED"}
      /\ plan => e = Row("PLAN_COMMITTED")
      /\ disc => e = Row("CARDS_DISCARDED")
      /\ e.kind = "INTENT" => e.mech \in Mechs
  <2> HIDE DEF RowEvents, e
  <2> QED  BY <1>4, RowKinds
<1>6. /\ Fit(r, e.mech)
      /\ r # <<>> => e.kind = "INTENT" /\ e.mech \in Living(match.mechs)
  <2>1. CASE able
    <3>1. r \in Resolutions(e.mech) /\ e.mech \in Mechs
      BY <1>2, <1>5, <2>1
    <3> HIDE DEF e
    <3> QED  BY <1>3, <2>1, <3>1, ResolutionsFit DEF Able
  <2>2. CASE ~able
    <3>1. r = <<>>
      BY <1>2, <2>2
    <3> QED  BY <3>1, NothingFits
  <2> QED  BY <2>1, <2>2
<1> DEFINE s == agenda'
<1>7. /\ s \in Seq(Events) /\ Len(s) = Len(r) + 1 /\ Len(r) \in Nat /\ 1 \in DOMAIN s /\ s[1] = e
      /\ \A i \in DOMAIN s : i = 1 \/ (i \in Nat /\ i - 1 \in DOMAIN r /\ s[i] = r[i - 1])
      /\ r = <<>> => s = <<e>>
      /\ \A i \in DOMAIN r : r # <<>>
  <2>1. r \in Seq(Events) /\ s = <<e>> \o r
    BY <1>2, <1>6 DEF Fit
  <2> HIDE DEF e, s, Events
  <2>2. <<e>> \in Seq(Events) /\ Len(<<e>>) = 1 /\ DOMAIN <<e>> = {1} /\ <<e>>[1] = e
    BY <1>5
  <2>3. /\ s \in Seq(Events) /\ DOMAIN s = 1 .. 1 + Len(r) /\ Len(r) \in Nat
        /\ s[1] = e
        /\ \A i \in DOMAIN s : i # 1 => i \in Nat /\ i - 1 \in DOMAIN r /\ s[i] = r[i - 1]
    BY <2>1, <2>2
  <2>4. r = <<>> => s = <<e>>
    BY <2>1, PairOf
  <2> QED  BY <2>3, <2>4
<1> HIDE DEF s
<1>8. \A i \in DOMAIN s : i # 1 =>
        /\ e.kind = "INTENT" /\ e.mech \in Living(match.mechs)
        /\ s[i].kind \notin Terminals \cup {"MATCH_TICK", "PLAN_COMMITTED", "CARDS_DISCARDED", "PILOT_KILLED"}
        /\ s[i].kind = "MOVEMENT_RESOLVED" =>
             /\ i = 2 /\ s[i].from = match.mechs[s[i].mech].cell
             /\ Distance(s[i].from, s[i].to) <= match.mechs[s[i].mech].pressure
             /\ Distance(s[i].from, s[i].to) <= Rules.speed
        /\ s[i].kind = "MODE_TRANSITION_STARTED" => i = 2 /\ s[i].from = match.mechs[s[i].mech].mode
        /\ s[i].kind = "MECH_DESTROYED" => i = Len(s) /\ s[i].mech # e.mech
  <2> SUFFICES ASSUME NEW i \in DOMAIN s, i # 1
               PROVE  /\ e.kind = "INTENT" /\ e.mech \in Living(match.mechs)
                      /\ s[i].kind \notin Terminals \cup {"MATCH_TICK", "PLAN_COMMITTED", "CARDS_DISCARDED", "PILOT_KILLED"}
                      /\ s[i].kind = "MOVEMENT_RESOLVED" =>
                           /\ i = 2 /\ s[i].from = match.mechs[s[i].mech].cell
                           /\ Distance(s[i].from, s[i].to) <= match.mechs[s[i].mech].pressure
                           /\ Distance(s[i].from, s[i].to) <= Rules.speed
                      /\ s[i].kind = "MODE_TRANSITION_STARTED" => i = 2 /\ s[i].from = match.mechs[s[i].mech].mode
                      /\ s[i].kind = "MECH_DESTROYED" => i = Len(s) /\ s[i].mech # e.mech
    OBVIOUS
  <2> HIDE DEF e
  <2>1. i \in Nat /\ i - 1 \in DOMAIN r /\ s[i] = r[i - 1] /\ r # <<>>
    BY <1>7
  <2>2. e.kind = "INTENT" /\ e.mech \in Living(match.mechs)
    BY <1>6, <2>1
  <2>3. /\ r[i - 1].kind \notin Terminals \cup {"MATCH_TICK", "PLAN_COMMITTED", "CARDS_DISCARDED", "PILOT_KILLED"}
        /\ r[i - 1].kind = "MOVEMENT_RESOLVED" =>
             /\ i - 1 = 1 /\ r[i - 1].from = match.mechs[r[i - 1].mech].cell
             /\ Distance(r[i - 1].from, r[i - 1].to) <= match.mechs[r[i - 1].mech].pressure
             /\ Distance(r[i - 1].from, r[i - 1].to) <= Rules.speed
        /\ r[i - 1].kind = "MODE_TRANSITION_STARTED" => i - 1 = 1 /\ r[i - 1].from = match.mechs[r[i - 1].mech].mode
        /\ r[i - 1].kind = "MECH_DESTROYED" => i - 1 = Len(r) /\ r[i - 1].mech # e.mech
    BY <1>6, <2>1 DEF Fit
  <2>4. (i - 1 = 1 => i = 2) /\ (i - 1 = Len(r) => i = Len(s))
    BY <1>7, <2>1
  <2> QED  BY <2>1, <2>2, <2>3, <2>4
<1> HIDE DEF e, able, plan, disc
<1>9. TicksWait' /\ EndsWait'
  <2>1. \A i \in DOMAIN s : s[i].kind \notin Terminals \cup {"MATCH_TICK"}
    BY <1>5, <1>7, <1>8
  <2> QED  BY <2>1 DEF s, TicksWait, EndsWait, Kind, IsEnd
<1>10. IntentsWait'
  <2>1. ASSUME NEW i \in DOMAIN s, s[i].kind \in {"MOVEMENT_RESOLVED", "MODE_TRANSITION_STARTED"}
        PROVE  /\ i = 2 /\ s[1].kind = "INTENT"
               /\ s[i].kind = "MODE_TRANSITION_STARTED" => s[i].from = match.mechs[s[i].mech].mode
               /\ s[i].kind = "MOVEMENT_RESOLVED" =>
                    /\ s[i].from = match.mechs[s[i].mech].cell
                    /\ Distance(s[i].from, s[i].to) <= match.mechs[s[i].mech].pressure
                    /\ Distance(s[i].from, s[i].to) <= Rules.speed
    <3>1. i # 1
      BY <1>5, <1>7, <2>1
    <3> QED  BY <1>7, <1>8, <2>1, <3>1
  <2> QED  BY <1>1, <2>1 DEF s, IntentsWait, Kind
<1>11. DeathsWait'
  <2>1. ASSUME NEW i \in DOMAIN s, s[i].kind \in {"MECH_DESTROYED", "PILOT_KILLED"}
        PROVE  /\ i = Len(s) /\ \E m \in Living(match.mechs) : m # s[i].mech
               /\ \A j \in DOMAIN s : s[j].kind \notin Terminals
    <3>1. i # 1
      BY <1>5, <1>7, <2>1
    <3>2. i = Len(s) /\ e.mech \in Living(match.mechs) /\ s[i].mech # e.mech
      BY <1>8, <2>1, <3>1
    <3> QED  BY <1>5, <1>7, <1>8, <3>2
  <2> QED  BY <1>1, <2>1 DEF s, DeathsWait, IsDeath, IsEnd, Kind
<1>12. Verdict' /\ Told'
  BY <1>1, <1>3 DEF Verdict, Told, Running
<1>13. cadence = "paced" => Running /\ round # NoRound
  <2> HAVE cadence = "paced"
  <2>1. Running
    BY <1>1 DEF CutShort
  <2> QED  BY <1>1, <1>3, <2>1 DEF Latched
<1>14. cadence = "paced" /\ LastRegister => (todo' = <<>> <=> disc)
  BY <1>1, <1>3, <1>4 DEF Latched
<1>15. Latched'
  BY <1>1, <1>3, <1>4, <1>13, <1>14 DEF Latched, LastRegister, Running
<1>16. \A i \in DOMAIN s : /\ s[i].kind = "PLAN_COMMITTED" => i = 1 /\ plan
                           /\ s[i].kind = "CARDS_DISCARDED" => i = 1 /\ disc
  BY <1>7, <1>8 DEF plan, disc
<1>17. /\ plan => s = <<Row("PLAN_COMMITTED")>>
       /\ disc => s = Discards /\ todo' = <<>>
  <2>1. plan \/ disc => r = <<>>
    BY <1>6 DEF plan, disc
  <2>2. plan \/ disc => s = <<e>>
    BY <1>7, <2>1
  <2> QED  BY <1>4, <1>5, <2>2 DEF Discards
<1>18. disc => round = NoRound \/ (cadence = "paced" /\ LastRegister)
  <2> HAVE disc
  <2>1. Holds(todo, "CARDS_DISCARDED")
    BY <1>4
  <2> QED  BY <1>3, <2>1 DEF Latched
<1>19. RowsWait'
  <2>1. \A i \in DOMAIN todo' : todo'[i].kind # "PLAN_COMMITTED"
    BY <1>4 DEF Holds
  <2>2. LastRegister' = LastRegister
    BY <1>1 DEF LastRegister
  <2>3. cadence = "paced" /\ LastRegister /\ todo' = <<>> => s = Discards
    BY <1>14, <1>17
  <2> QED  BY <1>1, <1>4, <1>16, <1>17, <1>18, <2>1, <2>2, <2>3 DEF s, RowsWait, Kind, IsDisc
<1>20. (Holds(s, "PLAN_COMMITTED") <=> plan) /\ (Holds(s, "CARDS_DISCARDED") <=> disc)
  BY <1>7, <1>16 DEF Holds, plan, disc
<1>21. /\ Owed <=> disc \/ Owed'
       /\ ~(disc /\ Owed')
       /\ Committing' <=> Committing
  <2>0. LastRegister' = LastRegister
    BY <1>1 DEF LastRegister
  <2>1. CASE cadence = "paced"
    <3>1. Owed
      BY <1>1, <1>13, <2>1 DEF Owed
    <3>2. Owed' <=> ~(LastRegister /\ todo' = <<>>)
      BY <1>1, <1>13, <2>0, <2>1 DEF Owed
    <3>3. disc => LastRegister
      BY <1>13, <1>18, <2>1
    <3> QED  BY <1>1, <1>14, <2>0, <2>1, <3>1, <3>2, <3>3 DEF Committing
  <2>2. CASE cadence # "paced"
    <3>1. (Owed <=> Holds(todo, "CARDS_DISCARDED")) /\ (Owed' <=> Holds(todo', "CARDS_DISCARDED"))
      BY <1>1, <2>2 DEF Owed
    <3> QED  BY <1>1, <1>4, <2>0, <2>2, <3>1 DEF Committing
  <2> QED  BY <2>1, <2>2
<1>22. PICK o \in BOOLEAN : o <=> Owed'
  BY DEF Owed, Holds
<1>23. /\ said.opened + One(plan) + One(FALSE) = said.closed + One(disc) + One(o)
       /\ Committing => committed + 1 <= said.closed + One(disc) + One(o)
       /\ committed <= said.closed /\ said.closed <= said.opened
  <2> DEFINE p == One(Holds(todo, "PLAN_COMMITTED"))
             b == One(Owed)
             z == One(FALSE)
             x == One(plan)
             c == One(disc)
             a == One(o)
  <2>1. /\ said.opened + p = said.closed + b /\ committed <= said.closed /\ said.closed <= said.opened
        /\ Committing => committed + 1 <= said.closed + b
        /\ said.opened \in Nat /\ said.closed \in Nat /\ committed \in Nat
    BY <1>1, Idling
  <2>2. p = x /\ z = 0 /\ b = c + a /\ x \in Nat /\ c \in Nat /\ a \in Nat
    BY <1>4, <1>21, <1>22 DEF One
  <2> HIDE DEF p, z, b, c, a, x
  <2>3. said.opened + x + z = said.closed + c + a
          /\ (Committing => committed + 1 <= said.closed + c + a)
    BY <2>1, <2>2
  <2> QED  BY <2>1, <2>3 DEF z, c, a, x
<1>24. Ledger'
  <2>1. plan \in BOOLEAN /\ disc \in BOOLEAN
    BY DEF plan, disc
  <2>2. /\ Holds(agenda', "PLAN_COMMITTED") <=> plan
        /\ Holds(agenda', "CARDS_DISCARDED") <=> disc
    BY <1>20 DEF s
  <2>3. Committing' => committed' + 1 <= said.closed + One(disc) + One(o)
    BY <1>1, <1>21, <1>23
  <2> QED  BY <1>1, <1>4, <1>22, <1>23, <2>1, <2>2, <2>3, Balance
<1>25. Shape'
  <2>1. agenda' \in Seq(Events)
    BY <1>7 DEF s
  <2> QED  BY <1>1, <1>3, <1>4, <2>1 DEF Shape
<1> QED  BY <1>1, <1>9, <1>10, <1>11, <1>12, <1>15, <1>19, <1>24, <1>25 DEF IInv, Flow, Plane

(* The pulse: damage for each mech of an order, then the deaths of those    *)
(* left without hit points.                                                 *)
Pulsed(s) ==
    /\ s \in Seq(Events)
    /\ \A i \in DOMAIN s : s[i].kind \in {"DAMAGE_APPLIED", "MECH_DESTROYED"}
    /\ \A i, j \in DOMAIN s : s[i].kind = "MECH_DESTROYED" /\ j > i =>
         /\ s[j].kind = "MECH_DESTROYED" /\ s[j].mech # s[i].mech
         /\ s[j].mech \in Living(match.mechs) /\ Doomed(match.mechs, s, s[j].mech)
    /\ \A i \in DOMAIN s : s[i].kind = "MECH_DESTROYED" =>
         /\ s[i].mech \in Living(match.mechs)
         /\ \A j \in DOMAIN s : s[j].kind = "MECH_DESTROYED" /\ s[j].mech = s[i].mech => i = j
    /\ \A i \in DOMAIN s : s[i].kind = "DAMAGE_APPLIED" /\ s[i].after = 0 =>
         \E j \in DOMAIN s : j > i /\ s[j].kind = "MECH_DESTROYED" /\ s[j].mech = s[i].mech

LEMMA Joins ==
    ASSUME NEW S, NEW u \in Seq(S), NEW v \in Seq(S), NEW k, k = Len(u), NEW b, b = Len(v), NEW s, s = u \o v
    PROVE  /\ s \in Seq(S) /\ DOMAIN s = 1 .. k + b
           /\ \A i \in 1 .. k : s[i] = u[i]
           /\ \A i \in 1 .. b : s[k + i] = v[i]
<1>1. s \in Seq(S) /\ DOMAIN s = 1 .. k + b
  OBVIOUS
<1>2. \A i \in 1 .. k : s[i] = u[i]
  OBVIOUS
<1>3. \A i \in 1 .. b : s[k + i] = v[i]
  OBVIOUS
<1> QED  BY <1>1, <1>2, <1>3

LEMMA PulseIs ==
    ASSUME match \in Match, NEW order \in Orders, NEW damage \in Nat
    PROVE  Pulsed(Pulse(order, damage))
<1> DEFINE n == Len(order)
           after(m) == High(0, match.mechs[m].hp - damage)
           death(i) == IF i \in DOMAIN order /\ after(order[i]) = 0
                       THEN <<About("MECH_DESTROYED", order[i], "runner")>> ELSE <<>>
           hits == [i \in DOMAIN order |-> Damage(order[i], after(order[i]), "runner")]
           s == Pulse(order, damage)
<1>1. /\ order \in Seq(Mechs) /\ n \in {0, 1, 2} /\ DOMAIN order = 1 .. n
      /\ \A i \in DOMAIN order : order[i] \in Living(match.mechs) /\ order[i] \in Mechs
      /\ \A i, j \in DOMAIN order : order[i] = order[j] => i = j
  <2>1. /\ order \in Seq(Mechs) /\ n \in {0, 1, 2} /\ DOMAIN order = 1 .. n
        /\ \A i \in DOMAIN order : order[i] \in Living(match.mechs)
        /\ \A i, j \in DOMAIN order : order[i] = order[j] => i = j
    BY OrdersAre
  <2> QED  BY <2>1 DEF Living
<1>2. s = hits \o death(1) \o death(2)
  BY DEF Pulse
<1>3. \A m \in Mechs : after(m) \in Nat
  <2>1. ASSUME NEW m \in Mechs
        PROVE  after(m) \in Nat
    <3> DEFINE x == match.mechs[m].hp - damage
    <3>1. match.mechs[m].hp \in Nat
      <4>1. match.mechs[m] \in Mech
        BY DEF Match
      <4> QED  BY <4>1 DEF Mech
    <3>2. x \in Int /\ after(m) = High(0, x)
      BY <3>1
    <3> HIDE DEF x, after
    <3> QED  BY <3>2, LowHigh
  <2> QED  BY <2>1
<1> HIDE DEF after
<1>4. \A i \in DOMAIN order :
        /\ hits[i] \in Events /\ hits[i].kind = "DAMAGE_APPLIED" /\ hits[i].mech = order[i]
        /\ hits[i].after = after(order[i])
  <2>1. ASSUME NEW i \in DOMAIN order
        PROVE  LET d == Damage(order[i], after(order[i]), "runner")
               IN  d \in Events /\ d.kind = "DAMAGE_APPLIED" /\ d.mech = order[i] /\ d.after = after(order[i])
    <3>1. Damage(order[i], after(order[i]), "runner") \in Damages
      BY <1>1, <1>3 DEF Damage, Damages, Publishers
    <3> QED  BY <3>1 DEF Events, Damage
  <2> QED  BY <2>1
<1>5. hits \in Seq(Events) /\ Len(hits) = n /\ DOMAIN hits = 1 .. n
  <2> HIDE DEF Events
  <2>1. DOMAIN hits = 1 .. n
    BY <1>1
  <2> QED  BY <1>1, <1>4, <2>1
<1>6. ASSUME NEW k \in {1, 2}
      PROVE  /\ death(k) \in Seq(Events) /\ Len(death(k)) \in {0, 1} /\ DOMAIN death(k) = 1 .. Len(death(k))
             /\ \A i \in DOMAIN death(k) :
                  /\ death(k)[i].kind = "MECH_DESTROYED" /\ death(k)[i].mech = order[k]
                  /\ k \in DOMAIN order /\ after(order[k]) = 0
             /\ k \in DOMAIN order /\ after(order[k]) = 0 => Len(death(k)) = 1
  <2>1. CASE k \in DOMAIN order /\ after(order[k]) = 0
    <3> DEFINE e == About("MECH_DESTROYED", order[k], "runner")
    <3>1. e \in Events /\ e.kind = "MECH_DESTROYED" /\ e.mech = order[k]
      <4>1. e \in Deaths /\ e.kind = "MECH_DESTROYED" /\ e.mech = order[k]
        BY <1>1, <2>1 DEF About, Deaths, Publishers
      <4> QED  BY <4>1 DEF Events
    <3>2. death(k) = <<e>>
      BY <2>1
    <3> HIDE DEF e, death, Events
    <3> QED  BY <2>1, <3>1, <3>2
  <2>2. CASE ~(k \in DOMAIN order /\ after(order[k]) = 0)
    <3>1. death(k) = <<>>
      BY <2>2
    <3> HIDE DEF death
    <3> QED  BY <2>2, <3>1
  <2> QED  BY <2>1, <2>2
<1> DEFINE d1 == death(1)
           d2 == death(2)
           a == Len(d1)
           b == Len(d2)
<1>7. /\ d1 \in Seq(Events) /\ a \in {0, 1} /\ DOMAIN d1 = 1 .. a
      /\ \A i \in DOMAIN d1 : d1[i].kind = "MECH_DESTROYED" /\ d1[i].mech = order[1] /\ 1 \in DOMAIN order
      /\ d2 \in Seq(Events) /\ b \in {0, 1} /\ DOMAIN d2 = 1 .. b
      /\ \A i \in DOMAIN d2 : d2[i].kind = "MECH_DESTROYED" /\ d2[i].mech = order[2] /\ 2 \in DOMAIN order
                                /\ after(order[2]) = 0
      /\ 1 \in DOMAIN order /\ after(order[1]) = 0 => a = 1
      /\ 2 \in DOMAIN order /\ after(order[2]) = 0 => b = 1
  BY <1>6
<1>8. s = hits \o d1 \o d2
  BY <1>2
<1> HIDE DEF s, hits, d1, d2, death
<1>9. /\ s \in Seq(Events) /\ DOMAIN s = 1 .. n + a + b
      /\ \A i \in DOMAIN s : i \in Nat /\ i >= 1
      /\ \A i \in 1 .. n : s[i] = hits[i]
      /\ \A i \in 1 .. a : s[n + i] = d1[i]
      /\ \A i \in 1 .. b : s[n + a + i] = d2[i]
  <2> HIDE DEF n, Events
  <2>1. n \in Nat /\ a \in Nat /\ b \in Nat /\ Len(hits) = n
    BY <1>1, <1>5, <1>7
  <2>2. hits \in Seq(Events) /\ d1 \in Seq(Events) /\ d2 \in Seq(Events)
    BY <1>5, <1>7
  <2> DEFINE u == hits \o d1
  <2>3. /\ u \in Seq(Events) /\ Len(u) = n + a
        /\ \A i \in 1 .. n : u[i] = hits[i]
        /\ \A i \in 1 .. a : u[n + i] = d1[i]
    BY <2>1, <2>2
  <2>4. s = u \o d2
    BY <1>8
  <2> HIDE DEF u
  <2>5. /\ s \in Seq(Events) /\ DOMAIN s = 1 .. (n + a) + b
        /\ \A i \in 1 .. n + a : s[i] = u[i]
        /\ \A i \in 1 .. b : s[(n + a) + i] = d2[i]
    <3> DEFINE k == n + a
    <3>1. Len(d2) = b /\ Len(u) = k /\ k \in Nat
      BY <2>1, <2>3
    <3> HIDE DEF a, b, k
    <3>2. u \in Seq(Events) /\ d2 \in Seq(Events)
      BY <2>2, <2>3
    <3> HIDE DEF Events
    <3>3. /\ s \in Seq(Events) /\ DOMAIN s = 1 .. k + b
          /\ \A i \in 1 .. k : s[i] = u[i]
          /\ \A i \in 1 .. b : s[k + i] = d2[i]
      BY <2>4, <3>1, <3>2, Joins
    <3> QED  BY <3>3 DEF k
  <2>6. \A i \in 1 .. n : s[i] = hits[i]
    BY <2>1, <2>3, <2>5
  <2>7. \A i \in 1 .. a : s[n + i] = d1[i]
    BY <2>1, <2>3, <2>5
  <2>8. \A i \in DOMAIN s : i \in Nat /\ i >= 1
    BY <2>1, <2>5
  <2> QED  BY <2>1, <2>5, <2>6, <2>7, <2>8
<1> HIDE DEF n, a, b
<1>10. ASSUME NEW i \in DOMAIN s
       PROVE  \/ /\ i \in 1 .. n /\ i \in DOMAIN order
                 /\ s[i].kind = "DAMAGE_APPLIED" /\ s[i].mech = order[i] /\ s[i].after = after(order[i])
              \/ i > n /\ a = 1 /\ i = n + 1 /\ s[i].kind = "MECH_DESTROYED" /\ s[i].mech = order[1] /\ 1 \in DOMAIN order
              \/ /\ i > n /\ b = 1 /\ i = n + a + 1 /\ s[i].kind = "MECH_DESTROYED" /\ s[i].mech = order[2]
                 /\ 2 \in DOMAIN order /\ after(order[2]) = 0
  <2>1. CASE i <= n
    <3>1. i \in 1 .. n /\ i \in DOMAIN order /\ s[i] = hits[i]
      BY <1>1, <1>9, <2>1
    <3> QED  BY <1>4, <3>1
  <2>2. CASE i > n /\ i <= n + a
    <3>1. a = 1 /\ i = n + 1 /\ 1 \in 1 .. a /\ 1 \in DOMAIN d1
      BY <1>1, <1>7, <1>9, <2>2
    <3>2. s[i] = d1[1]
      BY <1>9, <3>1
    <3> QED  BY <1>7, <2>2, <3>1, <3>2
  <2>3. CASE i > n + a
    <3>1. b = 1 /\ i = n + a + 1 /\ 1 \in 1 .. b /\ 1 \in DOMAIN d2 /\ i > n
      BY <1>1, <1>7, <1>9, <2>3
    <3>2. s[i] = d2[1]
      BY <1>9, <3>1
    <3> QED  BY <1>7, <3>1, <3>2
  <2> QED  BY <1>1, <1>7, <1>9, <2>1, <2>2, <2>3
<1>11. ASSUME NEW i \in DOMAIN s, NEW j \in DOMAIN s, s[i].kind = "MECH_DESTROYED", j > i
       PROVE  /\ s[j].kind = "MECH_DESTROYED" /\ s[j].mech # s[i].mech
              /\ s[j].mech \in Living(match.mechs) /\ Doomed(match.mechs, s, s[j].mech)
  <2>1. i > n /\ s[i].kind # "DAMAGE_APPLIED"
    BY <1>10, <1>11
  <2>2. j > n /\ i \in Nat /\ j \in Nat
    BY <1>1, <1>9, <1>11, <2>1
  <2>3. /\ a = 1 /\ i = n + 1 /\ s[i].mech = order[1] /\ 1 \in DOMAIN order
        /\ b = 1 /\ j = n + 2 /\ s[j].mech = order[2] /\ 2 \in DOMAIN order /\ after(order[2]) = 0
        /\ s[j].kind = "MECH_DESTROYED"
    <3>1. \/ i = n + 1 /\ a = 1 /\ s[i].mech = order[1] /\ 1 \in DOMAIN order
          \/ i = n + a + 1 /\ b = 1
      BY <1>10, <1>11, <2>1
    <3>2. \/ j = n + 1 /\ a = 1
          \/ j = n + a + 1 /\ b = 1 /\ s[j].kind = "MECH_DESTROYED" /\ s[j].mech = order[2]
             /\ 2 \in DOMAIN order /\ after(order[2]) = 0
      BY <1>1, <1>10, <2>2
    <3> QED  BY <1>1, <1>7, <1>11, <2>2, <3>1, <3>2
  <2>4. order[1] # order[2] /\ order[2] \in Living(match.mechs) /\ n = 2
    BY <1>1, <2>3
  <2>5. \A k \in DOMAIN s : s[k].kind = "DAMAGE_APPLIED" /\ s[k].mech = order[2] => s[k].after = 0
    <3>1. ASSUME NEW k \in DOMAIN s, s[k].kind = "DAMAGE_APPLIED", s[k].mech = order[2]
          PROVE  s[k].after = 0
      <4>1. k \in DOMAIN order /\ s[k].mech = order[k] /\ s[k].after = after(order[k])
        BY <1>10, <3>1
      <4> QED  BY <2>3, <3>1, <4>1
    <3> QED  BY <3>1
  <2>6. 2 \in DOMAIN s /\ s[2].kind = "DAMAGE_APPLIED" /\ s[2].mech = order[2]
    <3>1. 2 \in DOMAIN s /\ 2 \in 1 .. n
      BY <1>9, <2>3, <2>4
    <3> QED  BY <1>4, <1>9, <2>3, <3>1
  <2>7. Doomed(match.mechs, s, order[2])
    BY <2>5, <2>6 DEF Doomed
  <2> QED  BY <2>3, <2>4, <2>7
<1>12. ASSUME NEW i \in DOMAIN s, s[i].kind = "MECH_DESTROYED"
       PROVE  /\ s[i].mech \in Living(match.mechs)
              /\ \A j \in DOMAIN s : s[j].kind = "MECH_DESTROYED" /\ s[j].mech = s[i].mech => i = j
  <2>1. s[i].mech \in Living(match.mechs)
    BY <1>1, <1>10, <1>12
  <2>2. ASSUME NEW j \in DOMAIN s, s[j].kind = "MECH_DESTROYED", s[j].mech = s[i].mech
        PROVE  i = j
    <3>1. i \in Nat /\ j \in Nat
      BY <1>9
    <3>2. ~(i < j) /\ ~(j < i)
      BY <1>11, <1>12, <2>2, <3>1
    <3> QED  BY <3>1, <3>2
  <2> QED  BY <2>1, <2>2
<1>13. ASSUME NEW i \in DOMAIN s, s[i].kind = "DAMAGE_APPLIED", s[i].after = 0
       PROVE  \E j \in DOMAIN s : j > i /\ s[j].kind = "MECH_DESTROYED" /\ s[j].mech = s[i].mech
  <2>1. i \in 1 .. n /\ i \in DOMAIN order /\ s[i].mech = order[i] /\ after(order[i]) = 0
    BY <1>10, <1>13
  <2>2. i = 1 \/ i = 2
    BY <1>1, <2>1
  <2>3. CASE i = 1
    <3>1. a = 1 /\ 1 \in 1 .. a /\ 1 \in DOMAIN d1
      BY <1>7, <2>1, <2>3
    <3>2. n + 1 \in DOMAIN s /\ s[n + 1] = d1[1] /\ n + 1 > i
      BY <1>1, <1>7, <1>9, <2>1, <3>1
    <3>3. s[n + 1].kind = "MECH_DESTROYED" /\ s[n + 1].mech = order[1]
      BY <1>7, <3>1, <3>2
    <3> QED  BY <2>1, <2>3, <3>2, <3>3
  <2>4. CASE i = 2
    <3>1. b = 1 /\ 1 \in 1 .. b /\ 1 \in DOMAIN d2
      BY <1>7, <2>1, <2>4
    <3>2. n + a + 1 \in DOMAIN s /\ s[n + a + 1] = d2[1] /\ n + a + 1 > i
      BY <1>1, <1>7, <1>9, <2>1, <3>1
    <3>3. s[n + a + 1].kind = "MECH_DESTROYED" /\ s[n + a + 1].mech = order[2]
      BY <1>7, <3>1, <3>2
    <3> QED  BY <2>1, <2>4, <3>2, <3>3
  <2> QED  BY <2>2, <2>3, <2>4
<1>14. Pulsed(s)
  <2>1. \A i \in DOMAIN s : s[i].kind \in {"DAMAGE_APPLIED", "MECH_DESTROYED"}
    BY <1>10
  <2> QED  BY <1>9, <1>11, <1>12, <1>13, <2>1 DEF Pulsed
<1> QED  BY <1>14 DEF s

LEMMA SuddenDeathIs ==
    ASSUME match \in Match, NEW s \in SuddenDeath
    PROVE  Pulsed(s)
<1>1. CASE s = <<>>
  BY <1>1 DEF Pulsed
<1>2. CASE s # <<>>
  <2> DEFINE n == Rules.suddenBase * (match.tick - Rules.suddenStart + 1)
  <2>1. ~(match.tick < Rules.suddenStart) /\ s \in {Pulse(order, n) : order \in Orders}
    BY <1>2 DEF SuddenDeath
  <2>2. match.tick \in Nat /\ Rules.suddenStart \in Nat /\ Rules.suddenBase \in Nat
    BY Numbers DEF Match
  <2>3. n \in Nat
    <3>1. match.tick - Rules.suddenStart + 1 \in Nat
      BY <2>1, <2>2
    <3> QED  BY <2>2, <3>1
  <2> HIDE DEF n
  <2> QED  BY <2>1, <2>3, PulseIs
<1> QED  BY <1>1, <1>2

LEMMA AfterTickKeeps ==
    ASSUME IInv, AfterTick
    PROVE  IInv'
<1>1. /\ Idle /\ stage = "after" /\ Running /\ agenda' \in SuddenDeath /\ stage' = "top"
      /\ UNCHANGED <<match, todo, cadence, round, committed, said>>
  BY DEF AfterTick
<1>2. Shape /\ Latched /\ RowsWait /\ Verdict /\ Told /\ todo = <<>> /\ match \in Match
  <2>1. Shape /\ Latched /\ RowsWait /\ Verdict /\ Told /\ todo = <<>>
    BY <1>1, Idling DEF Latched
  <2> QED  BY <2>1 DEF Shape
<1> DEFINE s == agenda'
<1>3. Pulsed(s)
  BY <1>1, <1>2, SuddenDeathIs
<1> HIDE DEF s
<1>4. \A i \in DOMAIN s : s[i].kind \in {"DAMAGE_APPLIED", "MECH_DESTROYED"}
  BY <1>3 DEF Pulsed
<1>5. TicksWait' /\ IntentsWait' /\ EndsWait'
  BY <1>4 DEF s, TicksWait, IntentsWait, EndsWait, Kind, IsEnd, Terminals
<1>6. DeathsWait'
  <2>1. \A i, j \in DOMAIN s : s[i].kind = "MECH_DESTROYED" /\ j > i =>
         /\ s[j].kind = "MECH_DESTROYED" /\ s[j].mech # s[i].mech
         /\ s[j].mech \in Living(match.mechs) /\ Doomed(match.mechs, s, s[j].mech)
    BY <1>3 DEF Pulsed
  <2>2. ASSUME NEW i \in DOMAIN agenda', agenda'[i].kind \in {"MECH_DESTROYED", "PILOT_KILLED"}
        PROVE  /\ \A j \in DOMAIN agenda' : j > i =>
                    /\ agenda'[j].kind \in {"MECH_DESTROYED", "PILOT_KILLED"} /\ agenda'[j].mech # agenda'[i].mech
                    /\ agenda'[j].mech \in Living(match'.mechs) /\ Doomed(match'.mechs, agenda', agenda'[j].mech)
               /\ \A j \in DOMAIN agenda' : agenda'[j].kind \notin Terminals
    <3>1. i \in DOMAIN s /\ s[i].kind = "MECH_DESTROYED"
      BY <1>4, <2>2 DEF s
    <3>2. \A j \in DOMAIN s : j > i =>
                    /\ s[j].kind \in {"MECH_DESTROYED", "PILOT_KILLED"} /\ s[j].mech # s[i].mech
                    /\ s[j].mech \in Living(match.mechs) /\ Doomed(match.mechs, s, s[j].mech)
      BY <2>1, <3>1
    <3>3. \A j \in DOMAIN s : s[j].kind \notin Terminals
      BY <1>4 DEF Terminals
    <3>4. match'.mechs = match.mechs
      BY <1>1
    <3> QED  BY <3>2, <3>3, <3>4 DEF s
  <2> QED  BY <1>1, <2>2 DEF DeathsWait, IsDeath, IsEnd, Kind
<1>7. Verdict' /\ Told'
  BY <1>1, <1>2 DEF Verdict, Told, Running
<1>8. DOMAIN todo' = {} /\ ~Holds(todo, "PLAN_COMMITTED") /\ ~Holds(todo', "PLAN_COMMITTED")
        /\ ~Holds(todo, "CARDS_DISCARDED") /\ ~Holds(todo', "CARDS_DISCARDED")
  BY <1>1, <1>2 DEF Holds
<1>9. Latched'
  BY <1>1, <1>2, <1>8 DEF Latched, Running
<1>10. RowsWait'
  BY <1>1, <1>4, <1>8 DEF s, RowsWait, Kind, IsDisc
<1>11. ~Holds(agenda', "PLAN_COMMITTED") /\ ~Holds(agenda', "CARDS_DISCARDED")
  BY <1>4 DEF s, Holds
<1>12. (Owed' <=> Owed) /\ ~Committing'
  BY <1>1, <1>8 DEF Owed, Committing
<1>13. PICK o \in BOOLEAN : o <=> Owed'
  BY DEF Owed, Holds
<1>14. /\ said.opened + One(FALSE) + One(FALSE) = said.closed + One(FALSE) + One(o)
       /\ committed <= said.closed /\ said.closed <= said.opened
  <2> DEFINE p == One(Holds(todo, "PLAN_COMMITTED"))
             b == One(Owed)
             z == One(FALSE)
             a == One(o)
  <2>1. /\ said.opened + p = said.closed + b /\ committed <= said.closed /\ said.closed <= said.opened
        /\ said.opened \in Nat /\ said.closed \in Nat
    BY <1>1, Idling
  <2>2. p = 0 /\ z = 0 /\ b = a /\ a \in Nat
    BY <1>8, <1>12, <1>13 DEF One
  <2> HIDE DEF p, z, b, a
  <2>3. said.opened + z + z = said.closed + z + a
    BY <2>1, <2>2
  <2> QED  BY <2>1, <2>3 DEF z, a
<1>15. Ledger'
  BY <1>1, <1>8, <1>11, <1>12, <1>13, <1>14, Balance
<1>16. Shape'
  <2>1. agenda' \in Seq(Events)
    BY <1>3 DEF s, Pulsed
  <2> QED  BY <1>1, <1>2, <2>1 DEF Shape, Stages
<1> QED  BY <1>1, <1>5, <1>6, <1>7, <1>9, <1>10, <1>15, <1>16 DEF IInv, Flow, Plane

-----------------------------------------------------------------------------
(* The theorems.                                                            *)

LEMMA InitKeeps ==
    ASSUME Init
    PROVE  IInv
<1>1. /\ cadence \in Cadences /\ agenda = <<>> /\ stage = "top" /\ todo = <<>>
      /\ round = NoRound /\ committed = 0 /\ said = Silence
  BY DEF Init
<1>2. PICK max \in TickCaps, lucky \in Lucks, cells \in Starts : match = NewMatch(max, lucky, cells)
  BY DEF Init
<1>3. max \in Nat /\ lucky \in SUBSET Mechs /\ cells \in [Mechs -> Cells]
        /\ cadence \in {"plain", "atomic", "paced"}
  BY <1>1, RunnerAssumption DEF RunnerAssumption
<1>4. \A m \in Mechs : NewMech(cells[m]) \in Mech
  <2>1. Rules.hp \in Nat /\ Rules.armor \in Nat /\ Rules.pressure \in Nat /\ "recon" \in Modes
    BY Numbers, FoldAssumption DEF FoldAssumption
  <2> QED  BY <1>3, <2>1 DEF NewMech, Mech
<1>5. match \in Match /\ match.status = "running" /\ match.reason = None
  <2>1. [m \in Mechs |-> NewMech(cells[m])] \in [Mechs -> Mech]
    BY <1>4
  <2> HIDE DEF Mech
  <2> QED  BY <1>2, <1>3, <2>1 DEF NewMatch, Match
<1>6. said.ends = 0 /\ said.past = {} /\ said.opened = 0 /\ said.closed = 0
  BY <1>1 DEF Silence
<1>7. DOMAIN agenda = {} /\ DOMAIN todo = {}
  BY <1>1
<1>8. Shape
  <2>1. agenda \in Seq(Events) /\ todo \in Seq(RowEvents)
    BY <1>1
  <2> QED  BY <1>1, <1>3, <1>5, <1>6, <2>1 DEF Shape, Stages
<1>9. Flow /\ Told
  BY <1>1, <1>5, <1>6, <1>7 DEF Flow, TicksWait, IntentsWait, DeathsWait, EndsWait, Verdict, Told, Running
<1>10. Plane
  BY <1>1, <1>7 DEF Plane, Latched, RowsWait, LastRegister, Holds
<1>11. Ledger
  <2>1. Holds(agenda, "PLAN_COMMITTED") = FALSE /\ Holds(agenda, "CARDS_DISCARDED") = FALSE
          /\ Holds(todo, "PLAN_COMMITTED") = FALSE /\ Holds(todo, "CARDS_DISCARDED") = FALSE
    BY <1>7 DEF Holds
  <2>2. Owed = FALSE /\ Committing = FALSE
    BY <1>1, <2>1 DEF Owed, Committing
  <2>3. One(FALSE) = 0
    BY DEF One
  <2>4. /\ said.opened + One(FALSE) + One(FALSE) = said.closed + One(FALSE) + One(FALSE)
        /\ committed <= said.closed /\ said.closed <= said.opened
    <3> DEFINE z == One(FALSE)
    <3>1. z = 0 /\ said.opened = 0 /\ said.closed = 0 /\ committed = 0
      BY <1>1, <1>6, <2>3
    <3> HIDE DEF z
    <3>2. said.opened + z + z = said.closed + z + z
      BY <3>1
    <3> QED  BY <3>1, <3>2 DEF z
  <2>5. /\ One(Holds(agenda, "PLAN_COMMITTED")) = One(FALSE) /\ One(Holds(todo, "PLAN_COMMITTED")) = One(FALSE)
        /\ One(Holds(agenda, "CARDS_DISCARDED")) = One(FALSE) /\ One(Owed) = One(FALSE) /\ ~Committing
    BY <2>1, <2>2
  <2> QED  BY <2>4, <2>5 DEF Ledger
<1> QED  BY <1>1, <1>8, <1>9, <1>10, <1>11 DEF IInv

LEMMA StutterKeeps ==
    ASSUME IInv, UNCHANGED <<match, agenda, stage, todo, cadence, round, committed, said>>
    PROVE  IInv'
<1>1. Shape'
  BY DEF IInv, Shape
<1>2. TicksWait' = TicksWait /\ IntentsWait' = IntentsWait /\ DeathsWait' = DeathsWait
  BY DEF TicksWait, IntentsWait, DeathsWait, Kind, IsDisc, IsDeath, IsEnd, Known, Doomed, Running
<1>3. EndsWait' = EndsWait /\ Verdict' = Verdict /\ Told' = Told
  BY DEF EndsWait, Verdict, Told, Kind, IsDisc, IsEnd, Running
<1>4. Latched' = Latched /\ RowsWait' = RowsWait
  BY DEF Latched, RowsWait, Kind, IsDisc, IsEnd, Running, Holds, LastRegister
<1>5. Ledger' = Ledger
  BY DEF Ledger, Holds, Owed, Committing, LastRegister
<1> QED  BY <1>1, <1>2, <1>3, <1>4, <1>5 DEF IInv, Flow, Plane

(* What waits on the agenda, what was told and the ledger of the rounds are *)
(* as IInv says in every state of a run.                                    *)
THEOREM RunnerInvariance == Spec => []IInv
<1>1. Init => IInv
  BY InitKeeps
<1>2. IInv /\ [Next]_vars => IInv'
  <2> SUFFICES ASSUME IInv, [Next]_vars
               PROVE  IInv'
    OBVIOUS
  <2>1. CASE Publish
    BY <2>1, Publishing
  <2>2. CASE CloseRoundFirst
    BY <2>2, CloseRoundFirstKeeps
  <2>3. CASE Runaway
    BY <2>3, RunawayKeeps
  <2>4. CASE BeginTick
    BY <2>4, BeginTickKeeps
  <2>5. CASE TickWasLast
    BY <2>5, TickWasLastKeeps
  <2>6. CASE PilotsDecide
    BY <2>6, PilotsDecideKeeps
  <2>7. CASE DealAtomicRound
    BY <2>7, DealAtomicRoundKeeps
  <2>8. CASE SuppressRound
    BY <2>8, SuppressRoundKeeps
  <2>9. CASE PaceRegister
    BY <2>9, PaceRegisterKeeps
  <2>10. CASE Act
    BY <2>10, ActKeeps
  <2>11. CASE CutTick
    BY <2>11, CutTickKeeps
  <2>12. CASE RowsPublished
    BY <2>12, RowsPublishedKeeps
  <2>13. CASE AfterTick
    BY <2>13, AfterTickKeeps
  <2>14. CASE LeaveLoop
    BY <2>14, LeaveLoopKeeps
  <2>15. CASE Close
    BY <2>15, CloseKeeps
  <2>16. CASE Raise
    BY <2>16, RaiseKeeps
  <2>17. CASE Stopped
    BY <2>17, StoppedKeeps
  <2>18. CASE PilotGivesUp
    BY <2>18, PilotGivesUpKeeps
  <2>19. CASE UNCHANGED vars
    <3>1. UNCHANGED <<match, agenda, stage, todo, cadence, round, committed, said>>
      BY <2>19 DEF vars
    <3> QED  BY <3>1, StutterKeeps
  <2> QED  BY <2>1, <2>2, <2>3, <2>4, <2>5, <2>6, <2>7, <2>8, <2>9, <2>10, <2>11, <2>12, <2>13, <2>14,
              <2>15, <2>16, <2>17, <2>18, <2>19 DEF Next, Progress
<1> QED  BY <1>1, <1>2, PTL DEF Spec

LEMMA Accepts ==
    ASSUME IInv
    PROVE  FoldAccepts
<1> SUFFICES ASSUME agenda # <<>>
             PROVE  ~Delta(match, Head(agenda)).refused
  BY DEF FoldAccepts
<1> DEFINE e == Head(agenda)
           f == Delta(match, e)
<1>1. Shape /\ stage # "raised" /\ Flow /\ match \in Match
  <2>1. Shape /\ stage # "raised" /\ Flow
    BY DEF IInv
  <2> QED  BY <2>1 DEF Shape
<1>2. e = agenda[1] /\ 1 \in DOMAIN agenda /\ e \in Events
  BY <1>1, Tails DEF Shape
<1>3. CASE e \in Ticks
  <2>1. e.kind = "MATCH_TICK"
    BY <1>2, <1>3, Kinds
  <2>2. match.status = "running" /\ e.tick = match.tick + 1
    BY <1>1, <1>2, <2>1 DEF Flow, TicksWait, Kind, Running
  <2> HIDE DEF e
  <2> QED  BY <1>1, <1>3, <2>2, FoldsTick DEF e
<1>4. CASE e \in Ends
  <2>1. IsEnd(1)
    BY <1>2, <1>4, Kinds DEF IsEnd, Kind
  <2>2. match.status # "running" => match.winner = e.winner /\ match.reason = e.reason
    BY <1>1, <1>2, <2>1 DEF Flow, EndsWait, Running
  <2> HIDE DEF e
  <2> QED  BY <1>1, <1>4, <2>2, FoldsEnd DEF e
<1>5. CASE e \in Moves
  <2>1. e.kind = "MOVEMENT_RESOLVED"
    BY <1>2, <1>5, Kinds
  <2>2. /\ e.from = match.mechs[e.mech].cell
        /\ Distance(e.from, e.to) <= match.mechs[e.mech].pressure /\ Distance(e.from, e.to) <= Rules.speed
    BY <1>1, <1>2, <2>1 DEF Flow, IntentsWait, Kind
  <2>3. Calm(match, e, f)
    <3> HIDE DEF e
    <3> QED  BY <1>1, <1>5, <2>2, FoldsMove
  <2> QED  BY <2>3 DEF Calm
<1>6. CASE e \in Switches
  <2>1. e.kind = "MODE_TRANSITION_STARTED"
    BY <1>2, <1>6, Kinds
  <2>2. e.from = match.mechs[e.mech].mode
    BY <1>1, <1>2, <2>1 DEF Flow, IntentsWait, Kind
  <2>3. Calm(match, e, f)
    <3> HIDE DEF e
    <3> QED  BY <1>1, <1>6, <2>2, FoldsSwitch
  <2> QED  BY <2>3 DEF Calm
<1>7. CASE e \in Deaths
  <2> HIDE DEF e
  <2> QED  BY <1>1, <1>7, FoldsDeath DEF e
<1>8. CASE e \in Damages
  <2>1. Calm(match, e, f)
    <3> HIDE DEF e
    <3> QED  BY <1>1, <1>8, FoldsDamage
  <2> QED  BY <2>1 DEF Calm
<1>9. CASE e \in Notices \cup Plans \cup Discs
  <2>1. Calm(match, e, f)
    <3> HIDE DEF e
    <3> QED  BY <1>1, <1>9, FoldsNotice
  <2> QED  BY <2>1 DEF Calm
<1>10. e \in Notices \/ e \in Damages \/ e \in Deaths \/ e \in Plans \/ e \in Discs
         \/ e \in Ticks \/ e \in Moves \/ e \in Switches \/ e \in Ends
  BY <1>2 DEF Events
<1> HIDE DEF e
<1> QED  BY <1>3, <1>4, <1>5, <1>6, <1>7, <1>8, <1>9, <1>10 DEF e

LEMMA EndsOnce ==
    ASSUME IInv
    PROVE  EndedOnce
<1>1. said.ends \in {0, 1} /\ said.past \subseteq {"CARDS_DISCARDED"}
        /\ (said.past # {} => match.reason = "aborted")
  BY DEF IInv, Told
<1>2. Idle /\ stage = "done" => said.ends = 1
  BY Idling
<1> QED  BY <1>1, <1>2 DEF EndedOnce

LEMMA RoundsClose ==
    ASSUME IInv
    PROVE  RoundsAreClosed
<1>1. said.closed <= said.opened /\ committed <= said.closed
  BY DEF IInv, Ledger
<1>2. Idle /\ stage = "done" => said.closed = said.opened
  <2> HAVE Idle /\ stage = "done"
  <2>1. /\ Shape /\ Latched /\ round = NoRound /\ todo = <<>>
        /\ said.opened + One(Holds(todo, "PLAN_COMMITTED")) = said.closed + One(Owed)
        /\ said.opened \in Nat /\ said.closed \in Nat
    BY Idling DEF Latched
  <2>2. Holds(todo, "PLAN_COMMITTED") = FALSE /\ Owed = FALSE
    <3>1. DOMAIN todo = {}
      BY <2>1
    <3> QED  BY <2>1, <3>1 DEF Holds, Owed
  <2> QED  BY <2>1, <2>2 DEF One
<1> QED  BY <1>1, <1>2 DEF RoundsAreClosed

(* Whatever the rules, the pilots and the failures, the fold refuses nothing *)
(* that the runner or the fold itself published, and one MATCH_ENDED is told *)
(* with nothing behind it but the discards of a stopped round.              *)
THEOREM OneTerminalHolds == Spec => []OneTerminal
<1>1. IInv => OneTerminal
  BY Accepts, EndsOnce DEF OneTerminal
<1> QED  BY <1>1, RunnerInvariance, PTL

(* Whatever the rules, the pilots and the failures, a card round dealt is   *)
(* closed by one row of discards before the run ends, and decks are         *)
(* committed only for a round that was played out.                          *)
THEOREM RoundsAreClosedHolds == Spec => []RoundsAreClosed
<1>1. IInv => RoundsAreClosed
  BY RoundsClose
<1> QED  BY <1>1, RunnerInvariance, PTL

Destroys(e, m) == e.kind = "MECH_DESTROYED" /\ e.mech = m
Hits(e, m) == e.kind = "DAMAGE_APPLIED" /\ e.mech = m

(* The destruction of m is still to be told.                                *)
Perishes(events, m) == \E i \in DOMAIN events : Destroys(events[i], m)

-----------------------------------------------------------------------------
(* The reports of a tick, read one after the other, lead from the mechs it  *)
(* found to the mechs it left.                                              *)

NoneSpent(old, new) ==
    \A m \in Mechs : new[m].alive /\ new[m].hp = 0 => old[m].alive /\ old[m].hp = 0
Fatal(new, s) ==
    \A i \in DOMAIN s : s[i].kind = "DAMAGE_APPLIED" /\ s[i].after = 0 => ~new[s[i].mech].alive
Unhit(old, new, s) ==
    \A m \in Mechs : (\A i \in DOMAIN s : ~Hits(s[i], m)) => new[m].hp = old[m].hp
LastHits(new, s) ==
    \A m \in Mechs : \A i \in DOMAIN s :
        Hits(s[i], m) /\ (\A j \in DOMAIN s : j > i => ~Hits(s[j], m)) => s[i].after = new[m].hp
ToldOnce(s) ==
    \A m \in Mechs : \A i, j \in DOMAIN s : Destroys(s[i], m) /\ Destroys(s[j], m) => i = j
Casualties(old, new, s) ==
    \A m \in Mechs : Perishes(s, m) <=> old[m].alive /\ ~new[m].alive

Account(old, new, s) ==
    /\ Fewer(old, new) /\ NoneSpent(old, new) /\ Fatal(new, s)
    /\ Unhit(old, new, s) /\ LastHits(new, s)
    /\ ToldOnce(s) /\ Casualties(old, new, s)

LEMMA AccountsJoin ==
    ASSUME NEW S, NEW s \in Seq(S), NEW t \in Seq(S),
           \A i \in DOMAIN s : s[i].mech \in Mechs,
           NEW a, NEW b, NEW c, Account(a, b, s), Account(b, c, t)
    PROVE  Account(a, c, s \o t)
<1> DEFINE u == s \o t
           n == Len(s)
<1>0. /\ n \in Nat /\ DOMAIN s = 1 .. n /\ DOMAIN t \subseteq Nat /\ DOMAIN u \subseteq Nat
      /\ \A i \in DOMAIN t : i >= 1
      /\ \A i \in DOMAIN s : i \in DOMAIN u /\ u[i] = s[i]
      /\ \A i \in DOMAIN t : i + n \in DOMAIN u /\ u[i + n] = t[i]
      /\ \A i \in DOMAIN u : IF i <= n THEN i \in DOMAIN s /\ u[i] = s[i]
                ELSE i - n \in DOMAIN t /\ u[i] = t[i - n]
  BY Joined
<1> HIDE DEF u, n
<1>1. Fewer(a, c) /\ Fewer(a, b) /\ Fewer(b, c)
  BY FewerChains DEF Account
<1>2. NoneSpent(a, c)
  BY DEF Account, NoneSpent
<1>3. Fatal(c, u)
  <2>1. ASSUME NEW i \in DOMAIN u, u[i].kind = "DAMAGE_APPLIED", u[i].after = 0
        PROVE  ~c[u[i].mech].alive
    <3>1. CASE i <= n
      <4>1. i \in DOMAIN s /\ u[i] = s[i] /\ u[i].mech \in Mechs
        BY <1>0, <3>1
      <4>2. ~b[u[i].mech].alive
        BY <2>1, <4>1 DEF Account, Fatal
      <4> QED  BY <1>1, <4>1, <4>2 DEF Fewer
    <3>2. CASE ~(i <= n)
      <4>1. i - n \in DOMAIN t /\ u[i] = t[i - n]
        BY <1>0, <3>2
      <4> QED  BY <2>1, <4>1 DEF Account, Fatal
    <3> QED  BY <3>1, <3>2
  <2> QED  BY <2>1 DEF Fatal
<1>4. Unhit(a, c, u)
  <2>1. ASSUME NEW m \in Mechs, \A i \in DOMAIN u : ~Hits(u[i], m)
        PROVE  c[m].hp = a[m].hp
    <3>1. \A i \in DOMAIN s : ~Hits(s[i], m)
      BY <1>0, <2>1
    <3>2. \A i \in DOMAIN t : ~Hits(t[i], m)
      <4>1. ASSUME NEW i \in DOMAIN t PROVE ~Hits(t[i], m)
        <5>1. i + n \in DOMAIN u /\ u[i + n] = t[i]
          BY <1>0
        <5>2. ~Hits(u[i + n], m)
          BY <2>1, <5>1
        <5> QED  BY <5>1, <5>2
      <4> QED  BY <4>1
    <3> QED  BY <3>1, <3>2 DEF Account, Unhit
  <2> QED  BY <2>1 DEF Unhit
<1>5. LastHits(c, u)
  <2>1. ASSUME NEW m \in Mechs, NEW i \in DOMAIN u, Hits(u[i], m),
               \A j \in DOMAIN u : j > i => ~Hits(u[j], m)
        PROVE  u[i].after = c[m].hp
    <3>1. CASE i <= n
      <4>1. i \in DOMAIN s /\ u[i] = s[i]
        BY <1>0, <3>1
      <4>2. \A j \in DOMAIN s : j > i => ~Hits(s[j], m)
        BY <1>0, <2>1
      <4>3. \A j \in DOMAIN t : ~Hits(t[j], m)
        <5>1. ASSUME NEW j \in DOMAIN t PROVE ~Hits(t[j], m)
          <6>1. j + n \in DOMAIN u /\ u[j + n] = t[j] /\ j + n > i
            BY <1>0, <3>1
          <6>2. ~Hits(u[j + n], m)
            BY <2>1, <6>1
          <6> QED  BY <6>1, <6>2
        <5> QED  BY <5>1
      <4>4. u[i].after = b[m].hp
        BY <2>1, <4>1, <4>2 DEF Account, LastHits
      <4>5. c[m].hp = b[m].hp
        BY <4>3 DEF Account, Unhit
      <4> QED  BY <4>4, <4>5
    <3>2. CASE ~(i <= n)
      <4>1. i - n \in DOMAIN t /\ u[i] = t[i - n]
        BY <1>0, <3>2
      <4>2. \A j \in DOMAIN t : j > i - n => ~Hits(t[j], m)
        <5>1. ASSUME NEW j \in DOMAIN t, j > i - n PROVE ~Hits(t[j], m)
          <6>1. j + n \in DOMAIN u /\ u[j + n] = t[j] /\ j + n > i
            BY <1>0, <5>1
          <6>2. ~Hits(u[j + n], m)
            BY <2>1, <6>1
          <6> QED  BY <6>1, <6>2
        <5> QED  BY <5>1
      <4>3. Hits(t[i - n], m)
        BY <2>1, <4>1
      <4>4. t[i - n].after = c[m].hp
        BY <4>1, <4>2, <4>3 DEF Account, LastHits
      <4> QED  BY <4>1, <4>4
    <3> QED  BY <3>1, <3>2
  <2> QED  BY <2>1 DEF LastHits
<1>6. \A m \in Mechs : Perishes(u, m) <=> Perishes(s, m) \/ Perishes(t, m)
  <2>1. ASSUME NEW m \in Mechs, Perishes(u, m)
        PROVE  Perishes(s, m) \/ Perishes(t, m)
    <3>1. PICK i \in DOMAIN u : Destroys(u[i], m)
      BY <2>1 DEF Perishes
    <3>2. CASE i <= n
      BY <1>0, <3>1, <3>2 DEF Perishes
    <3>3. CASE ~(i <= n)
      <4>1. i - n \in DOMAIN t /\ u[i] = t[i - n]
        BY <1>0, <3>3
      <4> QED  BY <3>1, <4>1 DEF Perishes
    <3> QED  BY <3>2, <3>3
  <2>2. ASSUME NEW m \in Mechs, Perishes(s, m)
        PROVE  Perishes(u, m)
    BY <1>0, <2>2 DEF Perishes
  <2>3. ASSUME NEW m \in Mechs, Perishes(t, m)
        PROVE  Perishes(u, m)
    <3>1. PICK i \in DOMAIN t : Destroys(t[i], m)
      BY <2>3 DEF Perishes
    <3>2. i + n \in DOMAIN u /\ u[i + n] = t[i]
      BY <1>0
    <3>3. Destroys(u[i + n], m)
      BY <3>1, <3>2
    <3> QED  BY <3>2, <3>3 DEF Perishes
  <2> QED  BY <2>1, <2>2, <2>3
<1>7. Casualties(a, c, u)
  <2>1. ASSUME NEW m \in Mechs
        PROVE  /\ Perishes(s, m) <=> a[m].alive /\ ~b[m].alive
               /\ Perishes(t, m) <=> b[m].alive /\ ~c[m].alive
               /\ (c[m].alive => b[m].alive) /\ (b[m].alive => a[m].alive)
    BY <1>1 DEF Account, Casualties, Fewer
  <2> QED  BY <1>6, <2>1 DEF Casualties
<1>8. ToldOnce(u)
  <2>1. ASSUME NEW m \in Mechs
        PROVE  ~(Perishes(s, m) /\ Perishes(t, m))
    BY DEF Account, Casualties
  <2>2. ASSUME NEW m \in Mechs, NEW i \in DOMAIN u, NEW j \in DOMAIN u,
               Destroys(u[i], m), Destroys(u[j], m)
        PROVE  i = j
    <3>1. /\ i <= n => i \in DOMAIN s /\ Destroys(s[i], m) /\ Perishes(s, m)
          /\ j <= n => j \in DOMAIN s /\ Destroys(s[j], m) /\ Perishes(s, m)
      BY <1>0, <2>2 DEF Perishes
    <3>2. /\ ~(i <= n) => i - n \in DOMAIN t /\ Destroys(t[i - n], m) /\ Perishes(t, m)
          /\ ~(j <= n) => j - n \in DOMAIN t /\ Destroys(t[j - n], m) /\ Perishes(t, m)
      BY <1>0, <2>2 DEF Perishes
    <3>3. CASE i <= n /\ j <= n
      BY <3>1, <3>3 DEF Account, ToldOnce
    <3>4. CASE ~(i <= n) /\ ~(j <= n)
      <4>1. i - n = j - n
        BY <3>2, <3>4 DEF Account, ToldOnce
      <4> QED  BY <1>0, <4>1
    <3> QED  BY <2>1, <3>1, <3>2, <3>3, <3>4
  <2> QED  BY <2>2 DEF ToldOnce
<1> QED  BY <1>1, <1>2, <1>3, <1>4, <1>5, <1>7, <1>8 DEF Account, u

LEMMA NothingTold ==
    ASSUME NEW a, NEW b, \A m \in Mechs : SameLife(a[m], b[m]) /\ b[m].hp = a[m].hp
    PROVE  Account(a, b, <<>>)
<1>1. Fewer(a, b) /\ NoneSpent(a, b) /\ Unhit(a, b, <<>>)
  BY DEF Fewer, NoneSpent, Unhit, SameLife
<1>2. Fatal(b, <<>>) /\ LastHits(b, <<>>) /\ ToldOnce(<<>>)
  BY DEF Fatal, LastHits, ToldOnce
<1>3. Casualties(a, b, <<>>)
  BY DEF Casualties, Perishes, SameLife
<1> QED  BY <1>1, <1>2, <1>3 DEF Account

(* One hit, and the destruction it causes.                                  *)
LEMMA OneHit ==
    ASSUME NEW a \in [Mechs -> Mech], NEW b \in [Mechs -> Mech], NEW m \in Mechs, a[m].alive,
           NEW hurt \in Nat, b[m].hp = hurt, b[m].alive => hurt # 0,
           b[m].pilot => a[m].pilot,
           \A o \in Mechs \ {m} : b[o] = a[o],
           NEW s,
           \E k \in DOMAIN s : Hits(s[k], m) /\ s[k].after = hurt,
           \A i \in DOMAIN s : s[i].kind = "DAMAGE_APPLIED" => s[i].mech = m /\ s[i].after = hurt,
           \A i \in DOMAIN s : s[i].kind = "MECH_DESTROYED" => s[i].mech = m /\ ~b[m].alive,
           ~b[m].alive => \E k \in DOMAIN s : Destroys(s[k], m),
           \A i, j \in DOMAIN s : s[i].kind = "MECH_DESTROYED" /\ s[j].kind = "MECH_DESTROYED" => i = j,
           hurt = 0 => ~b[m].alive
    PROVE  Account(a, b, s)
<1>1. Fewer(a, b)
  <2>1. ASSUME NEW o \in Mechs
        PROVE  (b[o].alive => a[o].alive) /\ (b[o].pilot => a[o].pilot)
    <3>1. CASE o = m
      BY <3>1
    <3>2. CASE o # m
      BY <3>2
    <3> QED  BY <3>1, <3>2
  <2> QED  BY <2>1 DEF Fewer
<1>2. NoneSpent(a, b)
  BY DEF NoneSpent
<1>3. Fatal(b, s)
  BY DEF Fatal
<1>4. Unhit(a, b, s)
  BY DEF Unhit
<1>5. LastHits(b, s)
  BY DEF LastHits, Hits
<1>6. ToldOnce(s)
  BY DEF ToldOnce, Destroys
<1>7. Casualties(a, b, s)
  <2>1. ASSUME NEW o \in Mechs
        PROVE  Perishes(s, o) <=> a[o].alive /\ ~b[o].alive
    <3>1. CASE o = m
      BY <3>1 DEF Perishes, Destroys
    <3>2. CASE o # m
      BY <3>2 DEF Perishes, Destroys
    <3> QED  BY <3>1, <3>2
  <2> QED  BY <2>1 DEF Casualties
<1> QED  BY <1>1, <1>2, <1>3, <1>4, <1>5, <1>6, <1>7 DEF Account

Other(m) == IF m = Roster[1] THEN Roster[2] ELSE Roster[1]

LEMMA TheOther ==
    ASSUME NEW m \in Mechs
    PROVE  Other(m) \in Mechs /\ Other(m) # m /\ \A o \in Mechs : o = m \/ o = Other(m)
BY TwoMechs DEF Other

(* The blast of a rupture tells what it does to the other mech.             *)
LEMMA BlastAccount ==
    ASSUME NEW mechs \in [Mechs -> Mech], NEW m \in Mechs
    PROVE  Account(mechs, Blasted(mechs, m), BlastReports(mechs, m))
<1> DEFINE after == Blasted(mechs, m)
           o == Other(m)
           x == AfterBlast(mechs[o])
           hit == <<Damage(o, x, "fold")>>
           gone == IF x # 0 THEN <<>> ELSE <<About("MECH_DESTROYED", o, "fold")>>
           report(p) == IF p \notin InBlast(mechs, m) THEN <<>>
              ELSE <<Damage(p, AfterBlast(mechs[p]), "fold")>>
                   \o (IF AfterBlast(mechs[p]) # 0 THEN <<>>
                       ELSE <<About("MECH_DESTROYED", p, "fold")>>)
           s == BlastReports(mechs, m)
<1>1. o \in Mechs /\ o # m /\ \A p \in Mechs : p = m \/ p = o
  BY TheOther
<1>2. m \notin InBlast(mechs, m)
  BY DEF InBlast
<1>3. s = report(o)
  <2>1. report(m) = <<>>
    BY <1>2
  <2>2. s = report(Roster[1]) \o report(Roster[2])
    BY DEF BlastReports
  <2> DEFINE S == {Damage(o, x, "fold"), About("MECH_DESTROYED", o, "fold")}
  <2>3. report(o) \in Seq(S)
    <3>1. hit \in Seq(S) /\ gone \in Seq(S)
      <4> HIDE DEF x, o
      <4> QED  OBVIOUS
    <3>2. report(o) = <<>> \/ report(o) = hit \o gone
      OBVIOUS
    <3> DEFINE r == report(o)
    <3>3. r = <<>> \/ r = hit \o gone
      BY <3>2
    <3> HIDE DEF r, S, hit, gone
    <3>4. hit \o gone \in Seq(S) /\ <<>> \in Seq(S)
      BY <3>1, Joined
    <3>5. r \in Seq(S)
      BY <3>3, <3>4
    <3> QED  BY <3>5 DEF r
  <2>4. (m = Roster[1] /\ o = Roster[2]) \/ (m = Roster[2] /\ o = Roster[1])
    BY TwoMechs DEF Other
  <2> HIDE DEF report, s, o, S
  <2>5. report(o) \o <<>> = report(o) /\ <<>> \o report(o) = report(o)
    BY <2>3
  <2> QED  BY <2>1, <2>2, <2>4, <2>5
<1>4. after \in [Mechs -> Mech]
  BY Blasting
<1>5. \A p \in Mechs : p \notin InBlast(mechs, m) => after[p] = mechs[p]
  BY DEF Blasted
<1>6. CASE o \notin InBlast(mechs, m)
  <2>1. s = <<>>
    BY <1>3, <1>6
  <2>2. \A p \in Mechs : after[p] = mechs[p]
    <3> HIDE DEF after, o
    <3> QED  BY <1>1, <1>2, <1>5, <1>6
  <2>3. \A p \in Mechs : SameLife(mechs[p], after[p]) /\ after[p].hp = mechs[p].hp
    <3> HIDE DEF after
    <3> QED  BY <2>2 DEF SameLife
  <2>4. Account(mechs, after, <<>>)
    <3> HIDE DEF after
    <3> QED  BY <2>3, NothingTold
  <2> QED  BY <2>1, <2>4
<1>7. CASE o \in InBlast(mechs, m)
  <2>1. s = hit \o gone
    BY <1>3, <1>7
  <2>2. mechs[o].alive
    BY <1>7 DEF InBlast
  <2>3. x \in Nat
    <3>1. mechs[o] \in Mech
      BY <1>1
    <3>2. mechs[o].hp \in Nat
      BY <3>1 DEF Mech
    <3> QED  BY <3>2, Numbers DEF AfterBlast, High
  <2>4. after[o].hp = x /\ after[o].alive = (x # 0) /\ after[o].pilot = mechs[o].pilot
    <3>1. after[o] = [mechs[o] EXCEPT !.hp = x, !.alive = x # 0]
      BY <1>1, <1>7 DEF Blasted
    <3>2. mechs[o] \in Mech
      BY <1>1
    <3> DEFINE mech == mechs[o]
    <3>3. [mech EXCEPT !.hp = x, !.alive = x # 0].hp = x /\ [mech EXCEPT !.hp = x, !.alive = x # 0].alive = (x # 0)
            /\ [mech EXCEPT !.hp = x, !.alive = x # 0].pilot = mech.pilot
      <4>1. mech \in Mech
        BY <3>2
      <4> HIDE DEF mech, x
      <4> QED  BY <4>1 DEF Mech
    <3> HIDE DEF after, x, o
    <3> QED  BY <3>1, <3>3 DEF mech
  <2>5. \A p \in Mechs \ {o} : after[p] = mechs[p]
    <3> HIDE DEF after, o
    <3> QED  BY <1>1, <1>2, <1>5
  <2>6. /\ DOMAIN s \subseteq {1, 2} /\ 1 \in DOMAIN s /\ s[1] = Damage(o, x, "fold")
        /\ 2 \in DOMAIN s => s[2] = About("MECH_DESTROYED", o, "fold") /\ x = 0
        /\ x = 0 => 2 \in DOMAIN s
        /\ s \in Seq({Damage(o, x, "fold"), About("MECH_DESTROYED", o, "fold")})
    <3>1. CASE x = 0
      <4>1. s = <<Damage(o, x, "fold"), About("MECH_DESTROYED", o, "fold")>>
        <5> DEFINE d == Damage(o, x, "fold")
                   k == About("MECH_DESTROYED", o, "fold")
        <5>1. s = <<d>> \o <<k>>
          BY <2>1, <3>1
        <5> HIDE DEF s, d, k
        <5>2. s = <<d, k>>
          BY <5>1, PairOf
        <5> QED  BY <5>2 DEF d, k
      <4> HIDE DEF s, x, o
      <4> QED  BY <3>1, <4>1
    <3>2. CASE x # 0
      <4>1. s = <<Damage(o, x, "fold")>>
        <5> HIDE DEF s, x, o
        <5> QED  BY <2>1, <3>2
      <4> HIDE DEF s, x, o
      <4> QED  BY <3>2, <4>1
    <3> QED  BY <3>1, <3>2
  <2>7. /\ s[1].kind = "DAMAGE_APPLIED" /\ s[1].mech = o /\ s[1].after = x
        /\ 2 \in DOMAIN s => s[2].kind = "MECH_DESTROYED" /\ s[2].mech = o
    <3> HIDE DEF s, x, o
    <3> QED  BY <2>6 DEF Damage, About
  <2>8. \E k \in DOMAIN s : Hits(s[k], o) /\ s[k].after = x
    <3> HIDE DEF s, x, o
    <3> QED  BY <2>6, <2>7 DEF Hits
  <2>9. \A i \in DOMAIN s : s[i].kind = "DAMAGE_APPLIED" => s[i].mech = o /\ s[i].after = x
    <3> HIDE DEF s, x, o
    <3> QED  BY <2>6, <2>7
  <2>10. \A i \in DOMAIN s : s[i].kind = "MECH_DESTROYED" => s[i].mech = o /\ ~after[o].alive
    <3> HIDE DEF s, x, o, after
    <3> QED  BY <2>4, <2>6, <2>7
  <2>11. ~after[o].alive => \E k \in DOMAIN s : Destroys(s[k], o)
    <3> HIDE DEF s, x, o, after
    <3> QED  BY <2>4, <2>6, <2>7 DEF Destroys
  <2>12. \A i, j \in DOMAIN s : s[i].kind = "MECH_DESTROYED" /\ s[j].kind = "MECH_DESTROYED" => i = j
    <3> HIDE DEF s, x, o, after
    <3> QED  BY <2>6, <2>7
  <2>13. after[o].alive => x # 0
    BY <2>4
  <2>14. (x = 0 => ~after[o].alive) /\ (after[o].pilot => mechs[o].pilot)
    BY <2>4
  <2>15. after[o].hp = x
    BY <2>4
  <2> HIDE DEF s, x, o, after
  <2>16. Account(mechs, after, s)
    BY <1>1, <1>4, <2>2, <2>3, <2>5, <2>6, <2>8, <2>9, <2>10, <2>11, <2>12, <2>13, <2>14, <2>15, OneHit
  <2> QED  BY <2>16 DEF s, after
<1> QED  BY <1>6, <1>7

LEMMA Fourth ==
    ASSUME NEW r, NEW d, NEW p, NEW k
    PROVE  /\ <<r, d>> \o <<>> \o <<k>> = <<r, d, k>>
           /\ <<r, d>> \o <<p>> \o <<k>> = <<r, d, p, k>>
<1> DEFINE S == {r, d, p, k}
<1>1. <<r, d>> \o <<>> \o <<k>> = <<r, d, k>>
  <2> DEFINE u == <<r, d>> \o <<>> \o <<k>>
             w == <<r, d, k>>
  <2>1. u \in Seq(S) /\ Len(u) = 3 /\ u[1] = r /\ u[2] = d /\ u[3] = k
    OBVIOUS
  <2>2. w \in Seq(S) /\ Len(w) = 3 /\ w[1] = r /\ w[2] = d /\ w[3] = k
    OBVIOUS
  <2> HIDE DEF u, w, S
  <2>3. Len(u) = Len(w) /\ \A i \in 1 .. Len(u) : u[i] = w[i]
    BY <2>1, <2>2
  <2>4. u = w
    BY <2>1, <2>2, <2>3, SeqEqual
  <2> QED  BY <2>4 DEF u, w
<1>2. <<r, d>> \o <<p>> \o <<k>> = <<r, d, p, k>>
  <2> DEFINE u == <<r, d>> \o <<p>> \o <<k>>
             w == <<r, d, p, k>>
  <2>1. u \in Seq(S) /\ Len(u) = 4 /\ u[1] = r /\ u[2] = d /\ u[3] = p /\ u[4] = k
    OBVIOUS
  <2>2. w \in Seq(S) /\ Len(w) = 4 /\ w[1] = r /\ w[2] = d /\ w[3] = p /\ w[4] = k
    OBVIOUS
  <2> HIDE DEF u, w, S
  <2>3. Len(u) = Len(w) /\ \A i \in 1 .. Len(u) : u[i] = w[i]
    BY <2>1, <2>2
  <2>4. u = w
    BY <2>1, <2>2, <2>3, SeqEqual
  <2> QED  BY <2>4 DEF u, w
<1> QED  BY <1>1, <1>2

(* The accumulator of the cascade accounts for what became of the mechs.    *)
Accounts(base, acc) == Sound(acc) /\ Account(base, acc.mechs, acc.out)

LEMMA TidingsTyped ==
    ASSUME NEW mechs, NEW s \in Seq(Tidings(mechs))
    PROVE  \A i \in DOMAIN s : s[i].mech \in Mechs
<1>1. \A e \in Tidings(mechs) : e.mech \in Mechs
  BY DEF Tidings
<1> HIDE DEF Tidings
<1> QED  BY <1>1

LEMMA RuptureAccount ==
    ASSUME NEW base, NEW acc, Accounts(base, acc), NEW m \in Mechs, acc.mechs[m].alive, NEW lucky
    PROVE  Accounts(base, Rupture(acc, m, lucky))
<1> DEFINE new == Rupture(acc, m, lucky)
           hurt == High(0, acc.mechs[m].hp - Rules.direct)
           wreck == [acc.mechs[m] EXCEPT !.hp = hurt, !.alive = FALSE,
                                         !.pilot = acc.mechs[m].pilot /\ m \in lucky]
           gone == [acc.mechs EXCEPT ![m] = wreck]
           r == About("BOILER_RUPTURED", m, "fold")
           d == Damage(m, hurt, "fold")
           p == About("PILOT_KILLED", m, "fold")
           k == About("MECH_DESTROYED", m, "fold")
           killed == IF m \in lucky THEN <<>> ELSE <<p>>
           own == <<r, d>> \o killed \o <<k>>
           after == Blasted(gone, m)
           reports == BlastReports(gone, m)
<1>1. new = [mechs |-> after, out |-> acc.out \o own \o reports]
  BY DEF Rupture
<1>2. Sound(new) /\ Sound(acc)
  <2> HIDE DEF new
  <2>1. Sound(acc)
    BY DEF Accounts
  <2> QED  BY <2>1, Rupturing DEF new
<1>3. acc.mechs \in [Mechs -> Mech] /\ acc.mechs[m] \in Mech /\ acc.out \in Seq(Tidings(acc.mechs))
  BY <1>2 DEF Sound
<1>4. hurt \in Nat
  <2>1. acc.mechs[m].hp \in Nat
    BY <1>3 DEF Mech
  <2>2. acc.mechs[m].hp - Rules.direct \in Int
    BY <2>1, Numbers
  <2> QED  BY <2>2 DEF High
<1>5. wreck \in Mech /\ wreck.hp = hurt /\ ~wreck.alive /\ (wreck.pilot => acc.mechs[m].pilot)
  <2> DEFINE mech == acc.mechs[m]
             q == acc.mechs[m].pilot /\ m \in lucky
             made == [mech EXCEPT !.hp = hurt, !.alive = FALSE, !.pilot = q]
  <2>1. made \in Mech /\ made.hp = hurt /\ ~made.alive /\ made.pilot = q
    <3>1. mech \in Mech /\ q \in BOOLEAN
      BY <1>3 DEF Mech
    <3> HIDE DEF mech, q, hurt
    <3> QED  BY <1>4, <3>1 DEF Mech
  <2>2. wreck = made
    OBVIOUS
  <2> HIDE DEF wreck, made
  <2> QED  BY <2>1, <2>2
<1>6. gone \in [Mechs -> Mech] /\ gone[m] = wreck /\ \A o \in Mechs \ {m} : gone[o] = acc.mechs[o]
  <2> HIDE DEF wreck
  <2> QED  BY <1>3, <1>5
<1>7. own = <<r, d, k>> \/ own = <<r, d, p, k>>
  <2>1. CASE m \in lucky
    <3>1. own = <<r, d>> \o <<>> \o <<k>>
      BY <2>1
    <3> HIDE DEF own, r, d, p, k
    <3> QED  BY <3>1, Fourth
  <2>2. CASE m \notin lucky
    <3>1. own = <<r, d>> \o <<p>> \o <<k>>
      BY <2>2
    <3> HIDE DEF own, r, d, p, k
    <3> QED  BY <3>1, Fourth
  <2> QED  BY <2>1, <2>2
<1>8. /\ r.kind = "BOILER_RUPTURED" /\ d.kind = "DAMAGE_APPLIED" /\ p.kind = "PILOT_KILLED"
      /\ k.kind = "MECH_DESTROYED" /\ r.mech = m /\ d.mech = m /\ p.mech = m /\ k.mech = m
      /\ d.after = hurt
  <2> HIDE DEF hurt
  <2> QED  BY DEF About, Damage
<1>9. Account(acc.mechs, gone, own)
  <2> DEFINE S == {r, d, p, k}
  <2>1. /\ own \in Seq(S) /\ 2 \in DOMAIN own /\ own[2] = d
        /\ \A i \in DOMAIN own : own[i] \in S
        /\ \E i \in DOMAIN own : own[i] = k
        /\ \A i \in DOMAIN own : own[i].kind = "MECH_DESTROYED" => i = Len(own)
    <3> HIDE DEF own, r, d, p, k
    <3>1. CASE own = <<r, d, k>>
      <4>1. DOMAIN own = {1, 2, 3} /\ Len(own) = 3 /\ own[1] = r /\ own[2] = d /\ own[3] = k /\ own \in Seq(S)
        BY <3>1
      <4> QED  BY <1>8, <4>1
    <3>2. CASE own = <<r, d, p, k>>
      <4>1. /\ DOMAIN own = {1, 2, 3, 4} /\ Len(own) = 4 /\ own[1] = r /\ own[2] = d
            /\ own[3] = p /\ own[4] = k /\ own \in Seq(S)
        BY <3>2
      <4> QED  BY <1>8, <4>1
    <3> QED  BY <1>7, <3>1, <3>2
  <2>2. \E i \in DOMAIN own : Hits(own[i], m) /\ own[i].after = hurt
    <3> HIDE DEF own, r, d, p, k, hurt
    <3> QED  BY <1>8, <2>1 DEF Hits
  <2>3. \A i \in DOMAIN own : own[i].kind = "DAMAGE_APPLIED" => own[i].mech = m /\ own[i].after = hurt
    <3> HIDE DEF own, r, d, p, k, hurt
    <3> QED  BY <1>8, <2>1
  <2>4. \A i \in DOMAIN own : own[i].kind = "MECH_DESTROYED" => own[i].mech = m /\ ~gone[m].alive
    <3> HIDE DEF own, r, d, p, k, hurt, gone, wreck
    <3> QED  BY <1>5, <1>6, <1>8, <2>1
  <2>5. \E i \in DOMAIN own : Destroys(own[i], m)
    <3> HIDE DEF own, r, d, p, k, hurt
    <3> QED  BY <1>8, <2>1 DEF Destroys
  <2>6. \A i, j \in DOMAIN own : own[i].kind = "MECH_DESTROYED" /\ own[j].kind = "MECH_DESTROYED" => i = j
    <3> HIDE DEF own, r, d, p, k, hurt
    <3> QED  BY <2>1
  <2>7. gone[m].hp = hurt /\ ~gone[m].alive /\ (gone[m].pilot => acc.mechs[m].pilot)
    <3> HIDE DEF gone, wreck, hurt
    <3> QED  BY <1>5, <1>6
  <2> DEFINE a == acc.mechs
  <2>8. /\ a \in [Mechs -> Mech] /\ gone \in [Mechs -> Mech] /\ a[m].alive
        /\ \A o \in Mechs \ {m} : gone[o] = a[o]
        /\ gone[m].pilot => a[m].pilot
    <3> HIDE DEF gone, wreck
    <3> QED  BY <1>3, <1>6, <2>7
  <2>9. gone[m].hp = hurt /\ (gone[m].alive => hurt # 0) /\ (hurt = 0 => ~gone[m].alive)
          /\ (~gone[m].alive => \E i \in DOMAIN own : Destroys(own[i], m))
    <3> HIDE DEF own, gone, hurt, wreck
    <3> QED  BY <2>5, <2>7
  <2> HIDE DEF own, gone, hurt, wreck, S, a
  <2>10. Account(a, gone, own)
    BY <1>4, <2>2, <2>3, <2>4, <2>6, <2>8, <2>9, OneHit
  <2> QED  BY <2>10 DEF a
<1>10. Account(gone, after, reports)
  <2> HIDE DEF gone
  <2> QED  BY <1>6, BlastAccount
<1>11. acc.out \in Seq(Tidings(acc.mechs)) /\ \A i \in DOMAIN acc.out : acc.out[i].mech \in Mechs
  <2> HIDE DEF Tidings
  <2> QED  BY <1>3, TidingsTyped
<1> DEFINE U == {acc.out[i] : i \in DOMAIN acc.out} \cup {r, d, p, k}
           V == U \cup Tidings(after)
<1>12. \A i \in DOMAIN own : own[i].mech \in Mechs
  <2> HIDE DEF own, r, d, p, k
  <2> QED  BY <1>7, <1>8
<1>13. acc.out \in Seq(V) /\ own \in Seq(V) /\ reports \in Seq(V)
  <2>1. acc.out \in Seq(V)
    <3>1. acc.out \in Seq({acc.out[i] : i \in DOMAIN acc.out})
      <4> HIDE DEF Tidings
      <4> DEFINE T == Tidings(acc.mechs)
      <4>1. acc.out \in Seq(T)
        BY <1>3
      <4> HIDE DEF T
      <4> QED  BY <4>1
    <3> HIDE DEF r, d, p, k
    <3> QED  BY <3>1
  <2>2. own \in Seq(V)
    <3> HIDE DEF own, r, d, p, k, after
    <3>1. {r, d, p, k} \subseteq V
      OBVIOUS
    <3> HIDE DEF V
    <3>2. <<r, d, k>> \in Seq(V) /\ <<r, d, p, k>> \in Seq(V)
      BY <3>1
    <3> QED  BY <1>7, <3>2
  <2>3. reports \in Seq(V)
    <3>1. reports \in Seq(Tidings(after))
      <4> HIDE DEF gone
      <4> QED  BY <1>6, Blasting
    <3> HIDE DEF reports, after, U, Tidings
    <3> QED  BY <3>1
  <2> QED  BY <2>1, <2>2, <2>3
<1>14. Account(base, gone, acc.out \o own)
  <2> HIDE DEF own, gone, V
  <2>1. Account(base, acc.mechs, acc.out)
    BY DEF Accounts
  <2> QED  BY <1>9, <1>11, <1>13, <2>1, AccountsJoin
<1>15. Account(base, after, acc.out \o own \o reports)
  <2> DEFINE s == acc.out \o own
  <2>1. s \in Seq(V) /\ Account(base, gone, s)
    <3> HIDE DEF own, gone, V
    <3> QED  BY <1>13, <1>14
  <2>2. \A i \in DOMAIN s : s[i].mech \in Mechs
    <3> HIDE DEF own, V
    <3>1. \A i \in DOMAIN s : IF i <= Len(acc.out) THEN i \in DOMAIN acc.out /\ s[i] = acc.out[i]
                    ELSE i - Len(acc.out) \in DOMAIN own /\ s[i] = own[i - Len(acc.out)]
      BY <1>13, Joined
    <3> HIDE DEF s
    <3> QED  BY <1>11, <1>12, <3>1
  <2> HIDE DEF s, gone, after, reports, V
  <2>3. Account(base, after, s \o reports)
    BY <1>10, <1>13, <2>1, <2>2, AccountsJoin
  <2> QED  BY <2>3 DEF s
<1>16. new.mechs = after /\ new.out = acc.out \o own \o reports
  <2> HIDE DEF gone, after, own, new, reports
  <2> QED  BY <1>1
<1>17. Accounts(base, new)
  <2> HIDE DEF gone, after, own, new, reports
  <2> QED  BY <1>2, <1>15, <1>16 DEF Accounts
<1> QED  BY <1>17

(* The sub-steps of a tick leave the hull alone.                            *)
LEMMA HullsLast ==
    ASSUME NEW mech \in Mech, NEW tick \in Nat
    PROVE  /\ BoilerTick(mech).hp = mech.hp /\ CountersDecremented(mech).hp = mech.hp
           /\ ArmorRegenerated(mech).hp = mech.hp /\ ModeAdvanced(mech, tick).hp = mech.hp
           /\ Ladder(mech, tick).hp = mech.hp
<1>1. BoilerTick(mech).hp = mech.hp
  <2> DEFINE x == Low(mech.pressure + Rules.regen, Rules.pressure)
             y == High(mech.heat - Rules.vent, 0)
  <2>1. BoilerTick(mech) = [mech EXCEPT !.pressure = x, !.heat = y]
    BY DEF BoilerTick
  <2> HIDE DEF x, y
  <2> QED  BY <2>1 DEF Mech
<1>2. CountersDecremented(mech).hp = mech.hp
  BY DEF CountersDecremented, Mech
<1>3. ArmorRegenerated(mech).hp = mech.hp
  BY DEF ArmorRegenerated, Mech
<1>4. ModeAdvanced(mech, tick).hp = mech.hp
  <2> DEFINE x == mech.left - 1
             y == mech.to
             z == tick + Rules.switchLock
  <2>1. ModeAdvanced(mech, tick) \in
          {mech, [mech EXCEPT !.left = x],
           [mech EXCEPT !.mode = y, !.to = None, !.left = 0, !.lock = z]}
    BY DEF ModeAdvanced
  <2> HIDE DEF x, y, z
  <2> QED  BY <2>1 DEF Mech
<1>5. Ladder(mech, tick).hp = mech.hp
  <2> DEFINE x == mech.redline + 1
             y == mech.over + 1
             z == tick + Rules.switchDisabled
  <2>1. Ladder(mech, tick) \in
          {[mech EXCEPT !.redline = 0, !.over = 0], [mech EXCEPT !.redline = x, !.over = y],
           [mech EXCEPT !.redline = x, !.over = 1, !.disabled = z], [mech EXCEPT !.redline = x]}
    BY DEF Ladder
  <2> HIDE DEF x, y, z
  <2> QED  BY <2>1 DEF Mech
<1> QED  BY <1>1, <1>2, <1>3, <1>4, <1>5

LEMMA FreshAccount ==
    ASSUME NEW m0 \in Match, NEW tick \in Nat
    PROVE  Account(m0.mechs, [m \in Mechs |-> ModeAdvanced(
                ArmorRegenerated(CountersDecremented(BoilerTick(m0.mechs[m]))), tick)], <<>>)
<1> DEFINE fresh == [m \in Mechs |-> ModeAdvanced(
                ArmorRegenerated(CountersDecremented(BoilerTick(m0.mechs[m]))), tick)]
<1>1. ASSUME NEW m \in Mechs
      PROVE  SameLife(m0.mechs[m], fresh[m]) /\ fresh[m].hp = m0.mechs[m].hp
  <2> DEFINE a == m0.mechs[m]
             b == BoilerTick(a)
             c == CountersDecremented(b)
             d == ArmorRegenerated(c)
             e == ModeAdvanced(d, tick)
  <2>1. a \in Mech
    BY DEF Match
  <2>2. b \in Mech /\ SameLife(a, b) /\ b.hp = a.hp
    BY <2>1, Boilers, HullsLast
  <2>3. c \in Mech /\ SameLife(b, c) /\ c.hp = b.hp
    <3> HIDE DEF b
    <3> QED  BY <2>2, Counters, HullsLast
  <2>4. d \in Mech /\ SameLife(c, d) /\ d.hp = c.hp
    <3> HIDE DEF c
    <3> QED  BY <2>3, Armours, HullsLast
  <2>5. SameLife(d, e) /\ e.hp = d.hp
    <3> HIDE DEF d
    <3> QED  BY <2>4, ModesAdvance, HullsLast
  <2>6. fresh[m] = e
    OBVIOUS
  <2> HIDE DEF a, b, c, d, e, fresh
  <2>7. SameLife(a, e) /\ e.hp = a.hp
    BY <2>2, <2>3, <2>4, <2>5 DEF SameLife
  <2> QED  BY <2>6, <2>7 DEF a
<1> HIDE DEF fresh
<1>2. Account(m0.mechs, fresh, <<>>)
  BY <1>1, NothingTold
<1> QED  BY <1>2 DEF fresh

LEMMA CascadeStepAccount ==
    ASSUME NEW base, NEW acc, Accounts(base, acc), NEW m \in Mechs, NEW tick \in Nat, NEW lucky
    PROVE  Accounts(base, CascadeMech(acc, m, tick, lucky))
<1> DEFINE climbed == [acc.mechs EXCEPT ![m] = Ladder(acc.mechs[m], tick)]
           rung == [acc EXCEPT !.mechs = climbed]
<1>1. /\ acc = [mechs |-> acc.mechs, out |-> acc.out] /\ acc.mechs \in [Mechs -> Mech]
      /\ acc.mechs[m] \in Mech /\ acc.out \in Seq(Tidings(acc.mechs))
      /\ Account(base, acc.mechs, acc.out) /\ \A i \in DOMAIN acc.out : acc.out[i].mech \in Mechs
  <2>1. Sound(acc) /\ Account(base, acc.mechs, acc.out)
    BY DEF Accounts
  <2>2. acc.out \in Seq(Tidings(acc.mechs))
    BY <2>1 DEF Sound
  <2> QED  BY <2>1, <2>2, TidingsTyped DEF Sound
<1>2. CASE ~acc.mechs[m].alive
  BY <1>2 DEF CascadeMech
<1>3. CASE acc.mechs[m].alive
  <2>1. CascadeMech(acc, m, tick, lucky) =
          IF Ruptures(rung.mechs[m]) THEN Rupture(rung, m, lucky) ELSE rung
    BY <1>3 DEF CascadeMech
  <2>2. rung = [mechs |-> climbed, out |-> acc.out] /\ rung.mechs = climbed /\ rung.out = acc.out
    <3> HIDE DEF climbed
    <3>1. [acc EXCEPT !.mechs = climbed] = [mechs |-> climbed, out |-> acc.out]
      BY <1>1
    <3> QED  BY <3>1
  <2>3. /\ Ladder(acc.mechs[m], tick) \in Mech /\ SameLife(acc.mechs[m], Ladder(acc.mechs[m], tick))
        /\ Ladder(acc.mechs[m], tick).hp = acc.mechs[m].hp
    BY <1>1, Ladders, HullsLast
  <2>4. /\ climbed \in [Mechs -> Mech] /\ climbed[m].alive /\ Fewer(acc.mechs, climbed)
        /\ \A o \in Mechs : SameLife(acc.mechs[o], climbed[o]) /\ climbed[o].hp = acc.mechs[o].hp
    BY <1>1, <1>3, <2>3 DEF Fewer, SameLife
  <2>5. Account(base, climbed, acc.out)
    <3>1. Account(acc.mechs, climbed, <<>>)
      <4> HIDE DEF climbed
      <4> QED  BY <2>4, NothingTold
    <3> DEFINE T == Tidings(acc.mechs)
    <3>2. acc.out \in Seq(T) /\ <<>> \in Seq(T)
      <4> HIDE DEF Tidings
      <4> QED  BY <1>1
    <3> HIDE DEF climbed, T
    <3>3. Account(base, climbed, acc.out \o <<>>)
      BY <1>1, <3>1, <3>2, AccountsJoin
    <3>4. acc.out \o <<>> = acc.out
      BY <3>2
    <3> QED  BY <3>3, <3>4
  <2>6. Sound(rung)
    <3>1. acc.out \in Seq(Tidings(climbed))
      <4> HIDE DEF climbed
      <4> QED  BY <1>1, <2>4, TidingsStay
    <3> HIDE DEF climbed, rung
    <3> QED  BY <2>2, <2>4, <3>1 DEF Sound
  <2>7. Accounts(base, rung)
    <3> HIDE DEF climbed, rung
    <3> QED  BY <2>2, <2>5, <2>6 DEF Accounts
  <2>8. rung.mechs[m].alive
    <3> HIDE DEF climbed, rung
    <3> QED  BY <2>2, <2>4
  <2>9. Accounts(base, Rupture(rung, m, lucky))
    <3> HIDE DEF climbed, rung
    <3> QED  BY <2>7, <2>8, RuptureAccount
  <2> HIDE DEF climbed, rung
  <2> QED  BY <2>1, <2>7, <2>9
<1> QED  BY <1>2, <1>3

LEMMA CascadeAccount ==
    ASSUME NEW base, NEW mechs \in [Mechs -> Mech], Account(base, mechs, <<>>), NEW tick \in Nat, NEW lucky
    PROVE  Accounts(base, CascadeDone(mechs, tick, lucky))
<1> DEFINE none == [mechs |-> mechs, out |-> <<>>]
           first == CascadeMech(none, Roster[1], tick, lucky)
           done == CascadeMech(first, Roster[2], tick, lucky)
<1>1. Accounts(base, none)
  <2>1. none.mechs = mechs /\ none.out = <<>> /\ Sound(none)
    BY DEF Sound
  <2> HIDE DEF none
  <2> QED  BY <2>1 DEF Accounts
<1>2. Accounts(base, first)
  <2> HIDE DEF none
  <2> QED  BY <1>1, TwoMechs, CascadeStepAccount
<1>3. Accounts(base, done)
  <2> HIDE DEF first
  <2> QED  BY <1>2, TwoMechs, CascadeStepAccount
<1>4. done = CascadeDone(mechs, tick, lucky)
  BY DEF CascadeDone
<1> HIDE DEF first, done, none
<1> QED  BY <1>3, <1>4

-----------------------------------------------------------------------------
(* Results.                                                                 *)

(* The result is true of the match.                                         *)
Truth(m0, winner, reason) ==
    /\ reason = "last_mech_standing" => Living(m0.mechs) = {winner}
    /\ reason = "draw_mutual_destruction" => Living(m0.mechs) = {}
    /\ reason = "vp_threshold" =>
         /\ Living(m0.mechs) = Mechs /\ winner \in Mechs
         /\ m0.vp[winner] >= Rules.vpLine
         /\ m0.vp[winner] > m0.vp[Opponent(winner)]

LEMMA HowMany ==
    ASSUME NEW L, L \subseteq Mechs
    PROVE  /\ L = {} \/ L = Mechs \/ \E m \in Mechs : L = {m}
           /\ Cardinality(Mechs) = 2
           /\ \A m : Cardinality({m}) = 1
           /\ Cardinality({}) = 0
<1>1. L = {} \/ L = Mechs \/ \E m \in Mechs : L = {m}
  BY TwoMechs
<1>2. \A m : IsFiniteSet({m}) /\ Cardinality({m}) = 1
  BY FS_Singleton
<1>3. Cardinality(Mechs) = 2
  <2>1. Roster[2] \notin {Roster[1]} /\ Mechs = {Roster[1]} \cup {Roster[2]}
    BY TwoMechs
  <2>2. Cardinality({Roster[1]} \cup {Roster[2]}) = Cardinality({Roster[1]}) + 1
    BY <1>2, <2>1, FS_AddElement
  <2> QED  BY <1>2, <2>1, <2>2
<1> QED  BY <1>1, <1>2, <1>3, FS_EmptySet

LEMMA OneOf ==
    ASSUME NEW L, L \subseteq Mechs, Cardinality(L) = 1
    PROVE  \E m \in Mechs : L = {m}
<1>1. L = {} \/ L = Mechs \/ \E m \in Mechs : L = {m}
  BY HowMany
<1>2. Cardinality(Mechs) = 2 /\ Cardinality({}) = 0
  BY HowMany
<1>3. L # {} /\ L # Mechs
  BY <1>2
<1> QED  BY <1>1, <1>3

LEMMA CascadeTruth ==
    ASSUME NEW mechs
    PROVE  LET term == CascadeTerminal(Mechs, Living(mechs))
           IN  /\ term = <<>> => Living(mechs) = Mechs
               /\ \A v : term = <<v>> =>
                    \/ v.reason = "last_mech_standing" /\ Living(mechs) = {v.winner}
                    \/ v.reason = "draw_mutual_destruction" /\ Living(mechs) = {}
<1> DEFINE after == Living(mechs)
           term == CascadeTerminal(Mechs, after)
           m == CHOOSE m \in after : TRUE
           win == Victory(m, "last_mech_standing", "fold")
           draw == Ended(None, "draw_mutual_destruction", "fold")
<1>1. after \subseteq Mechs
  BY Counting
<1>2. Mechs # {}
  BY TwoMechs
<1>3. term = IF after = {} THEN <<draw>>
             ELSE IF Cardinality(Mechs) > 1 /\ Cardinality(after) = 1 THEN <<win>> ELSE <<>>
  BY <1>2 DEF CascadeTerminal
<1>4. win.reason = "last_mech_standing" /\ win.winner = m /\ draw.reason = "draw_mutual_destruction"
  <2> HIDE DEF m
  <2> QED  BY DEF Victory, Ended
<1>5. Cardinality(after) = 1 => after = {m}
  <2> HAVE Cardinality(after) = 1
  <2>1. PICK x \in Mechs : after = {x}
    <3> HIDE DEF after
    <3> QED  BY <1>1, OneOf
  <2>2. m \in after
    <3> HIDE DEF after
    <3> QED  BY <2>1
  <2> HIDE DEF after, m
  <2> QED  BY <2>1, <2>2
<1>6. after # {} /\ Cardinality(after) # 1 => after = Mechs
  <2> HIDE DEF after
  <2> QED  BY <1>1, HowMany
<1>7. Cardinality(Mechs) = 2
  BY <1>1, HowMany
<1> HIDE DEF after, term, m, win, draw
<1>8. CASE after = {}
  <2>1. term = <<draw>>
    BY <1>3, <1>8
  <2>2. \A v : term = <<v>> => v = draw
    BY <2>1
  <2> QED  BY <1>4, <1>8, <2>1, <2>2 DEF after, term
<1>9. CASE after # {} /\ Cardinality(after) = 1
  <2>1. term = <<win>>
    BY <1>3, <1>7, <1>9
  <2>2. \A v : term = <<v>> => v = win
    BY <2>1
  <2> QED  BY <1>4, <1>5, <1>9, <2>1, <2>2 DEF after, term
<1>10. CASE after # {} /\ Cardinality(after) # 1
  <2>1. term = <<>>
    BY <1>3, <1>10
  <2> QED  BY <1>6, <1>10, <2>1 DEF after, term
<1> QED  BY <1>8, <1>9, <1>10

LEMMA TheOpponent ==
    ASSUME NEW m \in Mechs
    PROVE  Opponent(m) = Other(m)
<1>1. Other(m) \in Mechs /\ Other(m) # m /\ \A o \in Mechs : o = m \/ o = Other(m)
  BY TheOther
<1>2. Opponent(m) \in Mechs /\ Opponent(m) # m
  BY <1>1 DEF Opponent
<1> QED  BY <1>1, <1>2

LEMMA ScoreTruth ==
    ASSUME NEW m0 \in Match
    PROVE  LET scored == Score(m0)
           IN  \A v : scored.out = <<v>> => v.reason = "vp_threshold" /\ Truth(scored.match, v.winner, v.reason)
<1> DEFINE scorer == Controllers(m0.mechs)
           vp == [m \in Mechs |-> m0.vp[m] + (IF scorer = {m} THEN Rules.vpRound ELSE 0)]
           leaders == {m \in Mechs : vp[m] >= Rules.vpLine /\ \A o \in Mechs : vp[o] <= vp[m]}
           cond == \/ Rules.vpLine = 0 \/ Cardinality(Living(m0.mechs)) < 2
                   \/ Cardinality(scorer) # 1 /\ ~m0.bountyDue
           new == [m0 EXCEPT !.vp = vp, !.bountyDue = FALSE]
           m == CHOOSE m \in leaders : TRUE
           win == Victory(m, "vp_threshold", "fold")
           out == IF Cardinality(leaders) = 1 THEN <<win>> ELSE <<>>
           scored == Score(m0)
<1>1. scored = IF cond THEN [match |-> m0, out |-> <<>>] ELSE [match |-> new, out |-> out]
  BY DEF Score
<1>2. \A o \in Mechs : vp[o] \in Nat
  <2>1. \A o \in Mechs : m0.vp[o] \in Nat
    BY DEF Match
  <2> HIDE DEF scorer
  <2> QED  BY <2>1, Numbers
<1>3. CASE cond \/ Cardinality(leaders) # 1
  <2>1. scored.out = <<>>
    <3> HIDE DEF cond, leaders, new, win
    <3> QED  BY <1>1, <1>3
  <2> HIDE DEF scored
  <2>2. \A v : scored.out # <<v>>
    BY <2>1
  <2>3. \A v : scored.out = <<v>> => v.reason = "vp_threshold" /\ Truth(scored.match, v.winner, v.reason)
    BY <2>2
  <2> QED  BY <2>3 DEF scored
<1>4. CASE ~cond /\ Cardinality(leaders) = 1
  <2>1. scored.match = new /\ scored.out = <<win>>
    <3> HIDE DEF cond, leaders, new, win
    <3> QED  BY <1>1, <1>4
  <2>2. leaders = {m} /\ m \in Mechs
    <3>1. leaders \subseteq Mechs
      OBVIOUS
    <3> HIDE DEF leaders
    <3>2. PICK x \in Mechs : leaders = {x}
      BY <1>4, <3>1, OneOf
    <3>3. m \in leaders
      BY <3>2
    <3> HIDE DEF m
    <3> QED  BY <3>2, <3>3
  <2>3. Living(m0.mechs) = Mechs
    <3>1. /\ ~(Cardinality(Living(m0.mechs)) < 2)
          /\ Living(m0.mechs) \subseteq Mechs
      BY <1>4, Counting
    <3> DEFINE L == Living(m0.mechs)
    <3>2. L = {} \/ L = Mechs \/ \E x \in Mechs : L = {x}
      <4> HIDE DEF L
      <4> QED  BY <3>1, HowMany DEF L
    <3>3. Cardinality({}) = 0 /\ \A x \in Mechs : Cardinality({x}) = 1
      BY <3>1, HowMany
    <3> HIDE DEF L
    <3> QED  BY <3>1, <3>2, <3>3 DEF L
  <2>4. vp[m] >= Rules.vpLine /\ vp[m] > vp[Opponent(m)]
    <3> DEFINE o == Opponent(m)
    <3>1. o \in Mechs /\ o # m
      <4> HIDE DEF m
      <4> QED  BY <2>2, TheOther, TheOpponent
    <3>2. o \notin leaders /\ m \in leaders
      <4> HIDE DEF leaders, m, o
      <4> QED  BY <2>2, <3>1
    <3>3. vp[m] >= Rules.vpLine /\ \A p \in Mechs : vp[p] <= vp[m]
      <4> HIDE DEF m, o, vp
      <4> QED  BY <3>2
    <3>4. ~(vp[o] >= Rules.vpLine /\ \A p \in Mechs : vp[p] <= vp[o])
      <4> HIDE DEF m, o, vp
      <4> QED  BY <3>1, <3>2
    <3>5. \A p \in Mechs : p = m \/ p = o
      <4> HIDE DEF m
      <4> QED  BY <2>2, TheOther, TheOpponent
    <3>6. vp[m] \in Nat /\ vp[o] \in Nat /\ Rules.vpLine \in Nat
      <4>1. Rules.vpLine \in Nat
        BY FoldAssumption DEF FoldAssumption, RuleNames
      <4> HIDE DEF vp, m, o
      <4> QED  BY <1>2, <2>2, <3>1, <4>1
    <3>7. vp[o] # vp[m]
      <4> HIDE DEF vp, m, o
      <4> QED  BY <3>3, <3>4, <3>5, <3>6
    <3>8. vp[o] <= vp[m]
      <4> HIDE DEF vp, m, o
      <4> QED  BY <3>1, <3>3
    <3>9. vp[m] > vp[o]
      <4> HIDE DEF vp, m, o
      <4> QED  BY <3>6, <3>7, <3>8
    <3> HIDE DEF vp, m
    <3> QED  BY <3>3, <3>9 DEF o
  <2>5. new.vp = vp /\ new.mechs = m0.mechs
    <3> HIDE DEF vp
    <3> QED  BY DEF Match
  <2>6. win.winner = m /\ win.reason = "vp_threshold"
    <3> HIDE DEF m
    <3> QED  BY DEF Victory
  <2> HIDE DEF vp, m, new, win, leaders, cond, scored
  <2>7. Truth(new, m, "vp_threshold")
    BY <2>2, <2>3, <2>4, <2>5 DEF Truth
  <2>8. \A v : scored.out = <<v>> => v = win
    BY <2>1
  <2> QED  BY <2>1, <2>6, <2>7, <2>8 DEF scored
<1> QED  BY <1>3, <1>4

(* What the tick of a contested match derives.                              *)
Reported(m0, f) ==
    \E body \in Seq(Tidings(f.match.mechs)) :
        /\ Account(m0.mechs, f.match.mechs, body)
        /\ \/ f.out = body /\ Living(f.match.mechs) = Mechs
           \/ \E v \in Verdicts : f.out = Append(body, v) /\ Truth(f.match, v.winner, v.reason)

LEMMA SameLiving ==
    ASSUME NEW a, NEW b, \A m \in Mechs : SameLife(a[m], b[m])
    PROVE  Living(b) = Living(a)
BY DEF Living, SameLife

LEMMA TickReported ==
    ASSUME NEW m0 \in Match, NEW tick \in Nat, Living(m0.mechs) = Mechs
    PROVE  Reported(m0, TickEffects(m0, tick))
<1> DEFINE fresh == [m \in Mechs |-> ModeAdvanced(
                ArmorRegenerated(CountersDecremented(BoilerTick(m0.mechs[m]))), tick)]
           done == CascadeDone(fresh, tick, m0.lucky)
           term == CascadeTerminal(Living(fresh), Living(done.mechs))
           cascade == Cascade(fresh, tick, m0.lucky)
           mid == [m0 EXCEPT !.mechs = cascade.mechs]
           scored == Score(mid)
           f == TickEffects(m0, tick)
<1>1. f = Folded(scored.match, cascade.out \o scored.out)
  BY DEF TickEffects
<1>2. fresh \in [Mechs -> Mech]
  BY FreshMechs
<1>3. Accounts(m0.mechs, done)
  <2>1. Account(m0.mechs, fresh, <<>>)
    BY FreshAccount
  <2> HIDE DEF fresh
  <2> QED  BY <1>2, <2>1, CascadeAccount
<1>4. cascade = [done EXCEPT !.out = done.out \o term]
  BY DEF Cascade, CascadeDone
<1>5. /\ done = [mechs |-> done.mechs, out |-> done.out] /\ done.mechs \in [Mechs -> Mech]
      /\ done.out \in Seq(Tidings(done.mechs)) /\ Account(m0.mechs, done.mechs, done.out)
  <2> HIDE DEF done
  <2> QED  BY <1>3 DEF Accounts, Sound
<1>6. cascade.mechs = done.mechs /\ cascade.out = done.out \o term
  <2> HIDE DEF done, term, cascade
  <2> QED  BY <1>4, <1>5
<1>7. mid \in Match /\ mid.mechs = done.mechs
  <2>1. mid = [m0 EXCEPT !.mechs = done.mechs]
    BY <1>6
  <2> HIDE DEF done, mid
  <2> QED  BY <1>5, <2>1 DEF Match
<1>8. /\ Quiet(mid, scored.match) /\ scored.match.mechs = mid.mechs
      /\ scored.out = <<>> \/ (Cardinality(Living(mid.mechs)) >= 2 /\ \E e \in Verdicts : scored.out = <<e>>)
      /\ \A v : scored.out = <<v>> => v.reason = "vp_threshold" /\ Truth(scored.match, v.winner, v.reason)
  <2> HIDE DEF mid
  <2> QED  BY <1>7, Scoring, ScoreTruth
<1>9. term = <<>> \/ (Cardinality(Living(done.mechs)) < 2 /\ \E e \in Verdicts : term = <<e>>)
  <2> HIDE DEF fresh, done
  <2> QED  BY CascadeVerdict
<1>10. Living(fresh) = Mechs
  <2>1. Account(m0.mechs, fresh, <<>>)
    BY FreshAccount
  <2>2. ASSUME NEW m \in Mechs
        PROVE  fresh[m].alive /\ fresh[m].pilot
    <3> DEFINE a == m0.mechs[m]
               b == BoilerTick(a)
               c == CountersDecremented(b)
               d == ArmorRegenerated(c)
               e == ModeAdvanced(d, tick)
    <3>1. a \in Mech /\ a.alive /\ a.pilot
      BY DEF Match, Living
    <3>2. b \in Mech /\ SameLife(a, b)
      BY <3>1, Boilers
    <3>3. c \in Mech /\ SameLife(b, c)
      <4> HIDE DEF b
      <4> QED  BY <3>2, Counters
    <3>4. d \in Mech /\ SameLife(c, d)
      <4> HIDE DEF c
      <4> QED  BY <3>3, Armours
    <3>5. SameLife(d, e)
      <4> HIDE DEF d
      <4> QED  BY <3>4, ModesAdvance
    <3>6. fresh[m] = e
      OBVIOUS
    <3> HIDE DEF a, b, c, d, e, fresh
    <3> QED  BY <3>1, <3>2, <3>3, <3>4, <3>5, <3>6 DEF SameLife
  <2> HIDE DEF fresh
  <2> QED  BY <2>2 DEF Living
<1>11. /\ term = <<>> => Living(done.mechs) = Mechs
       /\ \A v : term = <<v>> =>
                    \/ v.reason = "last_mech_standing" /\ Living(done.mechs) = {v.winner}
                    \/ v.reason = "draw_mutual_destruction" /\ Living(done.mechs) = {}
  <2>1. term = CascadeTerminal(Mechs, Living(done.mechs))
    BY <1>10
  <2> HIDE DEF done, term, fresh
  <2> QED  BY <2>1, CascadeTruth
<1>12. f.match = scored.match /\ f.out = cascade.out \o scored.out
  <2> HIDE DEF scored, cascade, f
  <2> QED  BY <1>1 DEF Folded
<1>13. f.match.mechs = done.mechs
  <2> HIDE DEF scored, mid, done, f
  <2> QED  BY <1>7, <1>8, <1>12
<1>14. Cardinality(Living(done.mechs)) \in Nat
  BY Counting
<1>15. f.out = (done.out \o term) \o scored.out
  BY <1>6, <1>12
<1>16. \/ f.out = done.out /\ Living(done.mechs) = Mechs
       \/ \E v \in Verdicts : f.out = Append(done.out, v) /\ Truth(f.match, v.winner, v.reason)
  <2> HIDE DEF done, term, scored, f, mid
  <2>1. CASE term = <<>> /\ scored.out = <<>>
    BY <1>5, <1>11, <1>15, <2>1
  <2>2. CASE term # <<>>
    <3>1. PICK v \in Verdicts : term = <<v>>
      BY <1>9, <2>2
    <3>2. scored.out = <<>>
      BY <1>7, <1>8, <1>9, <1>14, <2>2
    <3>3. f.out = Append(done.out, v)
      BY <1>5, <1>15, <3>1, <3>2
    <3>4. Truth(f.match, v.winner, v.reason)
      BY <1>11, <1>13, <3>1 DEF Truth
    <3> QED  BY <3>3, <3>4
  <2>3. CASE term = <<>> /\ scored.out # <<>>
    <3>1. PICK v \in Verdicts : scored.out = <<v>>
      BY <1>8, <2>3
    <3>2. f.out = Append(done.out, v)
      BY <1>5, <1>15, <2>3, <3>1
    <3>3. Truth(f.match, v.winner, v.reason)
      BY <1>8, <1>12, <3>1
    <3> QED  BY <3>2, <3>3
  <2> QED  BY <2>1, <2>2, <2>3
<1> HIDE DEF f, done
<1>17. Reported(m0, f)
  BY <1>5, <1>13, <1>16 DEF Reported
<1> QED  BY <1>17 DEF f

LEMMA FoldsTickReported ==
    ASSUME NEW m0 \in Match, m0.status = "running", Living(m0.mechs) = Mechs,
           NEW e \in Ticks, e.tick = m0.tick + 1
    PROVE  LET f == Delta(m0, e)
           IN  \/ /\ f.match.status = "ended" /\ f.out = <<>> /\ f.match.mechs = m0.mechs
                  /\ f.match.reason = "draw_max_ticks"
                  /\ \E v \in Ends : f.nested = <<v>> /\ v.reason = "draw_max_ticks"
               \/ f.match.status = "running" /\ f.nested = <<>> /\ Reported(m0, f)
<1> DEFINE f == Delta(m0, e)
<1>1. e.kind = "MATCH_TICK" /\ e.tick \in Nat
  BY DEF Ticks
<1>2. f = FoldTick(m0, e)
  BY <1>1 DEF Delta, Terminals
<1>3. CASE m0.max # 0 /\ e.tick >= m0.max
  <2> DEFINE new == Over(m0, e.tick, None, "draw_max_ticks")
             v == Ended(None, "draw_max_ticks", "lifecycle")
  <2>1. f = ClockEnds(m0, e.tick)
    BY <1>2, <1>3 DEF FoldTick
  <2>2. Cardinality(Living(m0.mechs)) # 1
    <3>1. Mechs \subseteq Mechs
      OBVIOUS
    <3>2. Cardinality(Mechs) = 2
      BY <3>1, HowMany
    <3> QED  BY <3>2
  <2>3. f = [Unchanged(new) EXCEPT !.nested = <<v>>]
    BY <2>1, <2>2 DEF ClockEnds
  <2>4. new.status = "ended" /\ new.mechs = m0.mechs /\ new.reason = "draw_max_ticks"
    BY DEF Over, Match
  <2>5. v \in Ends /\ v.reason = "draw_max_ticks"
    BY DEF Ended, Ends, Terminals, Reasons, Publishers
  <2>6. f.match = new /\ f.out = <<>> /\ f.nested = <<v>>
    <3> HIDE DEF new, v, f
    <3> QED  BY <2>3 DEF Unchanged, Folded
  <2> HIDE DEF new, v, f
  <2> QED  BY <2>4, <2>5, <2>6 DEF f
<1>4. CASE ~(m0.max # 0 /\ e.tick >= m0.max)
  <2> DEFINE mid == [m0 EXCEPT !.tick = e.tick]
  <2>1. f = TickEffects(mid, e.tick)
    BY <1>2, <1>4 DEF FoldTick
  <2>2. mid \in Match /\ mid.status = "running" /\ mid.mechs = m0.mechs
    BY <1>1 DEF Match
  <2> HIDE DEF mid
  <2>3. Quiet(mid, f.match) /\ f.nested = <<>>
    BY <1>1, <2>1, <2>2, TickTells
  <2>4. f.match.status = "running"
    BY <2>2, <2>3 DEF Quiet
  <2>5. Reported(mid, f)
    BY <1>1, <2>1, <2>2, TickReported
  <2>6. Reported(m0, f)
    <3> HIDE DEF f
    <3> QED  BY <2>2, <2>5 DEF Reported
  <2> HIDE DEF f
  <2> QED  BY <2>3, <2>4, <2>6 DEF f
<1> QED  BY <1>3, <1>4

-----------------------------------------------------------------------------
(* What is true of the result, of the deaths told and of a tick's reports.  *)

(* Of a mech that is dead one destruction was told, or one waits.           *)
Toll ==
    /\ said.deaths \in [Mechs -> Nat] /\ ToldOnce(agenda)
    /\ \A m \in Mechs :
         said.deaths[m] = IF match.mechs[m].alive \/ Perishes(agenda, m) THEN 0 ELSE 1

(* A living mech that has or will have no hit points perishes.              *)
Hulls ==
    /\ \A m \in Mechs : match.mechs[m].alive /\ match.mechs[m].hp = 0 => Perishes(agenda, m)
    /\ \A m \in Mechs : \A i \in DOMAIN agenda :
         Hits(agenda[i], m) /\ agenda[i].after = 0 /\ match.mechs[m].alive
           => \E j \in DOMAIN agenda : j > i /\ Destroys(agenda[j], m)

(* A match nobody is about to end is between two, or those left perish.     *)
Contested ==
    Running /\ (\A i \in DOMAIN agenda : ~IsEnd(i)) =>
        \/ Living(match.mechs) = Mechs
        \/ Living(match.mechs) # {} /\ \A m \in Living(match.mechs) : Perishes(agenda, m)

(* Results recorded or about to be are true.                                *)
Results ==
    /\ ~Running => Truth(match, match.winner, match.reason)
    /\ \A i \in DOMAIN agenda : IsEnd(i) => Truth(match, agenda[i].winner, agenda[i].reason)

(* Nothing waits that could make a result untrue.                           *)
Settled ==
    /\ \A i \in DOMAIN agenda : IsDeath(i) /\ ~Known(agenda[i]) => Running
    /\ \A i \in DOMAIN agenda : Kind(i) = "UTILITY_DEPLOYED" =>
         /\ Running /\ i = Len(agenda)
         /\ \A j \in DOMAIN agenda : ~IsEnd(j) /\ ~IsDeath(j) /\ Kind(j) # "MATCH_TICK"

(* The mechs differ in hit points at most.                                  *)
SameBut(a, b) == [a EXCEPT !.hp = b.hp] = b

TickKinds == Terminals \cup {"MATCH_TICK", "CARDS_DISCARDED", "DAMAGE_APPLIED",
                             "BOILER_RUPTURED", "MECH_DESTROYED", "PILOT_KILLED"}

(* What waits of a tick leads to the mechs the tick left.                   *)
Restating ==
    stage = "ticked" =>
      /\ \A i \in DOMAIN agenda : Kind(i) \in TickKinds
      /\ ~Holds(agenda, "MATCH_TICK") =>
           /\ said.owed \in [Mechs -> Mech]
           /\ \A m \in Mechs : SameBut(match.mechs[m], said.owed[m])
           /\ Unhit(match.mechs, said.owed, agenda) /\ LastHits(said.owed, agenda)

RInv == stage # "raised" => Toll /\ Hulls /\ Contested /\ Results /\ Settled /\ Restating

-----------------------------------------------------------------------------
(* The head of the agenda is published; an end at most follows from it.     *)
Follows(out) ==
    /\ agenda # <<>> /\ out \in Seq(Ends) /\ agenda' = out \o Tail(agenda)
    /\ stage' = stage /\ said' = Heard(Head(agenda)) /\ Head(agenda).kind # "MATCH_TICK"

Suffers(e) ==
    /\ match' \in Match
    /\ \A m \in Mechs : match'.mechs[m].alive <=> match.mechs[m].alive /\ ~Destroys(e, m)
    /\ \A m \in Mechs : match'.mechs[m].hp = IF Hits(e, m) THEN e.after ELSE match.mechs[m].hp
    /\ stage = "ticked" => \A m \in Mechs : SameBut(match'.mechs[m], match.mechs[m])

LEMMA FollowList ==
    ASSUME NEW out, Follows(out), agenda \in Seq(Events)
    PROVE  /\ Len(out) \in Nat /\ 1 \in DOMAIN agenda /\ Head(agenda) = agenda[1] /\ Head(agenda) \in Events
           /\ Len(agenda') = Len(out) + Len(agenda) - 1
           /\ Len(agenda) \in Nat /\ DOMAIN agenda = 1 .. Len(agenda) /\ DOMAIN agenda' \subseteq Nat
           /\ \A i \in DOMAIN agenda' :
                IF i <= Len(out) THEN i \in DOMAIN out /\ agenda'[i] = out[i] /\ agenda'[i] \in Ends
                ELSE /\ i - Len(out) + 1 \in DOMAIN agenda /\ i - Len(out) + 1 > 1
                     /\ agenda'[i] = agenda[i - Len(out) + 1]
           /\ \A i \in DOMAIN agenda : i # 1 =>
                i - 1 + Len(out) \in DOMAIN agenda' /\ agenda'[i - 1 + Len(out)] = agenda[i]
<1> DEFINE t == Tail(agenda)
           n == Len(out)
<1>1. agenda # <<>> /\ out \in Seq(Ends) /\ agenda' = out \o t
  BY DEF Follows
<1>2. /\ Len(agenda) \in Nat /\ DOMAIN agenda = 1 .. Len(agenda) /\ 1 \in DOMAIN agenda
      /\ Head(agenda) = agenda[1] /\ Head(agenda) \in Events /\ t \in Seq(Events) /\ Len(t) = Len(agenda) - 1
      /\ \A i \in DOMAIN t : i \in Nat /\ i >= 1 /\ i + 1 \in DOMAIN agenda /\ t[i] = agenda[i + 1]
      /\ \A i \in DOMAIN agenda : i # 1 => i - 1 \in DOMAIN t /\ t[i - 1] = agenda[i]
  BY <1>1, Tails
<1>3. out \in Seq(Events)
  <2>1. Ends \subseteq Events
    BY DEF Events
  <2> HIDE DEF Ends, Events
  <2> QED  BY <1>1, <2>1
<1> HIDE DEF t
<1>4. /\ n \in Nat /\ DOMAIN out = 1 .. n /\ DOMAIN agenda' = 1 .. n + Len(t)
      /\ \A i \in DOMAIN t : i + n \in DOMAIN agenda' /\ agenda'[i + n] = t[i]
      /\ \A i \in DOMAIN agenda' : IF i <= n THEN i \in DOMAIN out /\ agenda'[i] = out[i]
                ELSE i - n \in DOMAIN t /\ agenda'[i] = t[i - n]
  BY <1>1, <1>2, <1>3, Joined
<1>5. Len(agenda') = n + Len(agenda) - 1
  BY <1>1, <1>2, <1>3, <1>4
<1> HIDE DEF n
<1>6. \A i \in DOMAIN agenda' :
                IF i <= n THEN i \in DOMAIN out /\ agenda'[i] = out[i] /\ agenda'[i] \in Ends
                ELSE /\ i - n + 1 \in DOMAIN agenda /\ i - n + 1 > 1
                     /\ agenda'[i] = agenda[i - n + 1]
  <2>1. ASSUME NEW i \in DOMAIN agenda', i <= n
        PROVE  i \in DOMAIN out /\ agenda'[i] = out[i] /\ agenda'[i] \in Ends
    <3>1. i \in DOMAIN out /\ agenda'[i] = out[i]
      BY <1>4, <2>1
    <3>2. out[i] \in Ends
      BY <1>1, <3>1
    <3> QED  BY <3>1, <3>2
  <2>2. ASSUME NEW i \in DOMAIN agenda', ~(i <= n)
        PROVE  i - n + 1 \in DOMAIN agenda /\ i - n + 1 > 1 /\ agenda'[i] = agenda[i - n + 1]
    <3>1. i - n \in DOMAIN t /\ agenda'[i] = t[i - n]
      BY <1>4, <2>2
    <3>2. i - n \in Nat /\ i - n >= 1 /\ (i - n) + 1 \in DOMAIN agenda /\ t[i - n] = agenda[(i - n) + 1]
      BY <1>2, <3>1
    <3> QED  BY <3>1, <3>2
  <2> QED  BY <2>1, <2>2
<1>7. \A i \in DOMAIN agenda : i # 1 => i - 1 + n \in DOMAIN agenda' /\ agenda'[i - 1 + n] = agenda[i]
  <2>1. ASSUME NEW i \in DOMAIN agenda, i # 1
        PROVE  i - 1 + n \in DOMAIN agenda' /\ agenda'[i - 1 + n] = agenda[i]
    <3>1. i - 1 \in DOMAIN t /\ t[i - 1] = agenda[i]
      BY <1>2, <2>1
    <3>2. (i - 1) + n \in DOMAIN agenda' /\ agenda'[(i - 1) + n] = t[i - 1]
      BY <1>4, <3>1
    <3> QED  BY <3>1, <3>2
  <2> QED  BY <2>1
<1>8. DOMAIN agenda' \subseteq Nat
  BY <1>2, <1>4
<1> QED  BY <1>2, <1>4, <1>5, <1>6, <1>7, <1>8 DEF n

(* Destructions and hits shift, an end is neither.                          *)
LEMMA FollowPerishes ==
    ASSUME NEW out, Follows(out), agenda \in Seq(Events), NEW m
    PROVE  /\ Perishes(agenda, m) <=> Destroys(Head(agenda), m) \/ Perishes(agenda', m)
           /\ (\A i \in DOMAIN agenda : ~Hits(agenda[i], m)) <=>
                ~Hits(Head(agenda), m) /\ \A i \in DOMAIN agenda' : ~Hits(agenda'[i], m)
<1> DEFINE n == Len(out)
<1>1. /\ n \in Nat /\ 1 \in DOMAIN agenda /\ Head(agenda) = agenda[1]
      /\ \A i \in DOMAIN agenda' :
            IF i <= n THEN agenda'[i] \in Ends
            ELSE i - n + 1 \in DOMAIN agenda /\ agenda'[i] = agenda[i - n + 1]
      /\ \A i \in DOMAIN agenda : i # 1 => i - 1 + n \in DOMAIN agenda' /\ agenda'[i - 1 + n] = agenda[i]
  BY FollowList
<1>2. \A e \in Ends : ~Destroys(e, m) /\ ~Hits(e, m)
  BY DEF Ends, Destroys, Hits, Terminals
<1> HIDE DEF n
<1>3. ASSUME NEW i \in DOMAIN agenda, Destroys(agenda[i], m)
      PROVE  Destroys(Head(agenda), m) \/ Perishes(agenda', m)
  <2>1. i # 1 => Destroys(agenda'[i - 1 + n], m) /\ i - 1 + n \in DOMAIN agenda'
    BY <1>1, <1>3
  <2> QED  BY <1>1, <1>3, <2>1 DEF Perishes
<1>4. ASSUME NEW i \in DOMAIN agenda', Destroys(agenda'[i], m)
      PROVE  Perishes(agenda, m)
  <2>1. i - n + 1 \in DOMAIN agenda /\ agenda'[i] = agenda[i - n + 1]
    BY <1>1, <1>2, <1>4
  <2>2. Destroys(agenda[i - n + 1], m)
    BY <1>4, <2>1
  <2> QED  BY <2>1, <2>2 DEF Perishes
<1>5. Destroys(Head(agenda), m) => Perishes(agenda, m)
  BY <1>1 DEF Perishes
<1>6. Perishes(agenda, m) <=> Destroys(Head(agenda), m) \/ Perishes(agenda', m)
  BY <1>3, <1>4, <1>5 DEF Perishes
<1>7. ASSUME NEW i \in DOMAIN agenda, Hits(agenda[i], m), ~Hits(Head(agenda), m)
      PROVE  \E j \in DOMAIN agenda' : Hits(agenda'[j], m)
  <2>1. i - 1 + n \in DOMAIN agenda' /\ agenda'[i - 1 + n] = agenda[i]
    BY <1>1, <1>7
  <2>2. Hits(agenda'[i - 1 + n], m)
    BY <1>7, <2>1
  <2> QED  BY <2>1, <2>2
<1>8. ASSUME NEW i \in DOMAIN agenda', Hits(agenda'[i], m)
      PROVE  \E j \in DOMAIN agenda : Hits(agenda[j], m)
  <2>1. i - n + 1 \in DOMAIN agenda /\ agenda'[i] = agenda[i - n + 1]
    BY <1>1, <1>2, <1>8
  <2>2. Hits(agenda[i - n + 1], m)
    BY <1>8, <2>1
  <2> QED  BY <2>1, <2>2
<1> QED  BY <1>1, <1>6, <1>7, <1>8

LEMMA FollowToll ==
    ASSUME NEW out, Follows(out), agenda \in Seq(Events), Suffers(Head(agenda)), Toll
    PROVE  Toll'
<1> DEFINE e == Head(agenda)
           n == Len(out)
<1>1. /\ n \in Nat /\ 1 \in DOMAIN agenda /\ e = agenda[1] /\ e \in Events /\ DOMAIN agenda' \subseteq Nat
      /\ \A i \in DOMAIN agenda' :
            IF i <= n THEN agenda'[i] \in Ends
            ELSE i - n + 1 \in DOMAIN agenda /\ i - n + 1 > 1 /\ agenda'[i] = agenda[i - n + 1]
      /\ \A i \in DOMAIN agenda : i # 1 => i - 1 + n \in DOMAIN agenda' /\ agenda'[i - 1 + n] = agenda[i]
  BY FollowList
<1>2. \A x \in Ends : \A m : ~Destroys(x, m)
  BY DEF Ends, Destroys, Terminals
<1>3. said'.deaths = IF e.kind = "MECH_DESTROYED"
                     THEN [said.deaths EXCEPT ![e.mech] = said.deaths[e.mech] + 1] ELSE said.deaths
  BY DEF Follows, Heard
<1>4. e.kind = "MECH_DESTROYED" => e.mech \in Mechs
  <2> HIDE DEF e
  <2> QED  BY <1>1, Kinds DEF Deaths
<1> HIDE DEF e, n
<1>5. ToldOnce(agenda')
  <2>1. ASSUME NEW m \in Mechs, NEW i \in DOMAIN agenda', NEW j \in DOMAIN agenda',
               Destroys(agenda'[i], m), Destroys(agenda'[j], m)
        PROVE  i = j
    <3>1. /\ i - n + 1 \in DOMAIN agenda /\ Destroys(agenda[i - n + 1], m)
          /\ j - n + 1 \in DOMAIN agenda /\ Destroys(agenda[j - n + 1], m)
      BY <1>1, <1>2, <2>1
    <3>2. i - n + 1 = j - n + 1
      BY <3>1 DEF Toll, ToldOnce
    <3>3. i \in Nat /\ j \in Nat
      BY <1>1
    <3> QED  BY <1>1, <3>2, <3>3
  <2> QED  BY <2>1 DEF ToldOnce
<1>6. said'.deaths \in [Mechs -> Nat]
  BY <1>3, <1>4 DEF Toll
<1>7. ASSUME NEW m \in Mechs
      PROVE  said'.deaths[m] = IF match'.mechs[m].alive \/ Perishes(agenda', m) THEN 0 ELSE 1
  <2>1. Perishes(agenda, m) <=> Destroys(e, m) \/ Perishes(agenda', m)
    BY FollowPerishes DEF e
  <2>2. match'.mechs[m].alive <=> match.mechs[m].alive /\ ~Destroys(e, m)
    BY DEF Suffers, e
  <2>3. said.deaths[m] = IF match.mechs[m].alive \/ Perishes(agenda, m) THEN 0 ELSE 1
    BY DEF Toll
  <2>4. CASE Destroys(e, m)
    <3>1. ~Perishes(agenda', m)
      <4>1. ASSUME NEW i \in DOMAIN agenda', Destroys(agenda'[i], m)
            PROVE  FALSE
        <5>1. i - n + 1 \in DOMAIN agenda /\ i - n + 1 > 1 /\ Destroys(agenda[i - n + 1], m)
          BY <1>1, <1>2, <4>1
        <5>2. i - n + 1 = 1
          BY <1>1, <2>4, <5>1 DEF Toll, ToldOnce
        <5> QED  BY <5>1, <5>2
      <4> QED  BY <4>1 DEF Perishes
    <3>2. said'.deaths[m] = said.deaths[m] + 1
      BY <1>3, <2>4 DEF Destroys, Toll
    <3> QED  BY <2>1, <2>2, <2>3, <2>4, <3>1, <3>2
  <2>5. CASE ~Destroys(e, m)
    <3>1. said'.deaths[m] = said.deaths[m]
      BY <1>3, <2>5 DEF Destroys, Toll
    <3> QED  BY <2>1, <2>2, <2>3, <2>5, <3>1
  <2> QED  BY <2>4, <2>5
<1> QED  BY <1>5, <1>6, <1>7 DEF Toll

LEMMA FollowHulls ==
    ASSUME NEW out, Follows(out), agenda \in Seq(Events), Suffers(Head(agenda)), Hulls
    PROVE  Hulls'
<1> DEFINE e == Head(agenda)
           n == Len(out)
<1>1. /\ n \in Nat /\ 1 \in DOMAIN agenda /\ e = agenda[1] /\ DOMAIN agenda' \subseteq Nat
      /\ DOMAIN agenda \subseteq Nat
      /\ \A i \in DOMAIN agenda' :
            IF i <= n THEN agenda'[i] \in Ends
            ELSE i - n + 1 \in DOMAIN agenda /\ i - n + 1 > 1 /\ agenda'[i] = agenda[i - n + 1]
      /\ \A i \in DOMAIN agenda : i # 1 => i - 1 + n \in DOMAIN agenda' /\ agenda'[i - 1 + n] = agenda[i]
  BY FollowList
<1>2. \A x \in Ends : \A m : ~Hits(x, m)
  BY DEF Ends, Hits, Terminals
<1>3. \A m \in Mechs : /\ match'.mechs[m].alive <=> match.mechs[m].alive /\ ~Destroys(e, m)
                       /\ match'.mechs[m].hp = IF Hits(e, m) THEN e.after ELSE match.mechs[m].hp
  BY DEF Suffers
<1>4. \A m \in Mechs : Perishes(agenda, m) <=> Destroys(e, m) \/ Perishes(agenda', m)
  BY FollowPerishes
<1> HIDE DEF e, n
<1>5. ASSUME NEW m \in Mechs, match'.mechs[m].alive, match'.mechs[m].hp = 0
      PROVE  Perishes(agenda', m)
  <2>1. match.mechs[m].alive /\ ~Destroys(e, m)
    BY <1>3, <1>5
  <2>2. CASE Hits(e, m)
    <3>1. e.after = 0
      BY <1>3, <1>5, <2>2
    <3>2. Perishes(agenda, m)
      BY <1>1, <2>1, <2>2, <3>1 DEF Hulls, Perishes
    <3> QED  BY <1>4, <2>1, <3>2
  <2>3. CASE ~Hits(e, m)
    <3>1. match.mechs[m].hp = 0
      BY <1>3, <1>5, <2>3
    <3>2. Perishes(agenda, m)
      BY <2>1, <3>1 DEF Hulls
    <3> QED  BY <1>4, <2>1, <3>2
  <2> QED  BY <2>2, <2>3
<1>6. ASSUME NEW m \in Mechs, NEW i \in DOMAIN agenda',
             Hits(agenda'[i], m), agenda'[i].after = 0, match'.mechs[m].alive
      PROVE  \E j \in DOMAIN agenda' : j > i /\ Destroys(agenda'[j], m)
  <2>1. i - n + 1 \in DOMAIN agenda /\ i - n + 1 > 1 /\ agenda'[i] = agenda[i - n + 1]
    BY <1>1, <1>2, <1>6
  <2>2. match.mechs[m].alive
    BY <1>3, <1>6
  <2>3. Hits(agenda[i - n + 1], m) /\ agenda[i - n + 1].after = 0
    BY <1>6, <2>1
  <2>4. PICK j \in DOMAIN agenda : j > i - n + 1 /\ Destroys(agenda[j], m)
    BY <2>1, <2>2, <2>3 DEF Hulls
  <2>5. i \in Nat /\ j \in Nat
    BY <1>1
  <2>6. j # 1
    BY <2>1, <2>4, <2>5, <1>1
  <2>7. j - 1 + n \in DOMAIN agenda' /\ agenda'[j - 1 + n] = agenda[j]
    BY <1>1, <2>6
  <2>8. j - 1 + n > i /\ Destroys(agenda'[j - 1 + n], m)
    BY <1>1, <2>4, <2>5, <2>7
  <2> QED  BY <2>7, <2>8
<1> QED  BY <1>5, <1>6 DEF Hulls

LEMMA ButTwice ==
    ASSUME NEW a \in Mech, NEW b \in Mech, NEW c \in Mech, SameBut(a, b), SameBut(b, c)
    PROVE  SameBut(a, c)
BY DEF SameBut, Mech

LEMMA FollowRestating ==
    ASSUME NEW out, Follows(out), agenda \in Seq(Events), match \in Match, Suffers(Head(agenda)), Restating
    PROVE  Restating'
<1> DEFINE e == Head(agenda)
           n == Len(out)
<1>1. /\ n \in Nat /\ 1 \in DOMAIN agenda /\ e = agenda[1] /\ DOMAIN agenda' \subseteq Nat
      /\ DOMAIN agenda \subseteq Nat
      /\ \A i \in DOMAIN agenda' :
            IF i <= n THEN agenda'[i] \in Ends
            ELSE i - n + 1 \in DOMAIN agenda /\ i - n + 1 > 1 /\ agenda'[i] = agenda[i - n + 1]
      /\ \A i \in DOMAIN agenda : i # 1 => i - 1 + n \in DOMAIN agenda' /\ agenda'[i - 1 + n] = agenda[i]
      /\ \A i \in DOMAIN agenda : i >= 1
  BY FollowList
<1>2. \A x \in Ends : x.kind \in Terminals /\ \A m : ~Hits(x, m)
  BY DEF Ends, Hits, Terminals
<1>3. stage' = stage /\ said'.owed = said.owed /\ e.kind # "MATCH_TICK"
  BY DEF Follows, Heard
<1>4. \A m \in Mechs : (\A i \in DOMAIN agenda : ~Hits(agenda[i], m)) <=>
                ~Hits(e, m) /\ \A i \in DOMAIN agenda' : ~Hits(agenda'[i], m)
  BY FollowPerishes
<1>5. /\ match' \in Match
      /\ \A m \in Mechs : match'.mechs[m].hp = IF Hits(e, m) THEN e.after ELSE match.mechs[m].hp
      /\ stage = "ticked" => \A m \in Mechs : SameBut(match'.mechs[m], match.mechs[m])
  BY DEF Suffers
<1> HIDE DEF e, n
<1> SUFFICES ASSUME stage = "ticked" PROVE Restating'
  BY <1>3 DEF Restating
<1>6. \A i \in DOMAIN agenda' : agenda'[i].kind \in TickKinds
  BY <1>1, <1>2 DEF Restating, TickKinds, Kind
<1>7. Holds(agenda, "MATCH_TICK") => Holds(agenda', "MATCH_TICK")
  BY <1>1, <1>3 DEF Holds
<1>8. ASSUME ~Holds(agenda, "MATCH_TICK")
      PROVE  /\ said'.owed \in [Mechs -> Mech]
             /\ \A m \in Mechs : SameBut(match'.mechs[m], said'.owed[m])
             /\ Unhit(match'.mechs, said'.owed, agenda') /\ LastHits(said'.owed, agenda')
  <2>1. /\ said.owed \in [Mechs -> Mech]
        /\ \A m \in Mechs : SameBut(match.mechs[m], said.owed[m])
        /\ Unhit(match.mechs, said.owed, agenda) /\ LastHits(said.owed, agenda)
    BY <1>8 DEF Restating
  <2>2. ASSUME NEW m \in Mechs
        PROVE  SameBut(match'.mechs[m], said'.owed[m])
    <3>1. match.mechs[m] \in Mech /\ match'.mechs[m] \in Mech /\ said.owed[m] \in Mech
      BY <1>5, <2>1 DEF Match
    <3>2. SameBut(match'.mechs[m], match.mechs[m]) /\ SameBut(match.mechs[m], said.owed[m])
      BY <1>5, <2>1
    <3> QED  BY <1>3, <3>1, <3>2, ButTwice
  <2>3. ASSUME NEW m \in Mechs, \A i \in DOMAIN agenda' : ~Hits(agenda'[i], m)
        PROVE  said'.owed[m].hp = match'.mechs[m].hp
    <3>1. CASE Hits(e, m)
      <4>1. \A j \in DOMAIN agenda : j > 1 => ~Hits(agenda[j], m)
        <5>1. ASSUME NEW j \in DOMAIN agenda, j > 1 PROVE ~Hits(agenda[j], m)
          <6>1. j # 1 /\ j - 1 + n \in DOMAIN agenda' /\ agenda'[j - 1 + n] = agenda[j]
            BY <1>1, <5>1
          <6>2. ~Hits(agenda'[j - 1 + n], m)
            BY <2>3, <6>1
          <6> QED  BY <6>1, <6>2
        <5> QED  BY <5>1
      <4>2. e.after = said.owed[m].hp
        BY <1>1, <2>1, <3>1, <4>1 DEF LastHits
      <4> QED  BY <1>3, <1>5, <3>1, <4>2
    <3>2. CASE ~Hits(e, m)
      <4>1. \A i \in DOMAIN agenda : ~Hits(agenda[i], m)
        BY <1>4, <2>3, <3>2
      <4>2. said.owed[m].hp = match.mechs[m].hp
        BY <2>1, <4>1 DEF Unhit
      <4> QED  BY <1>3, <1>5, <3>2, <4>2
    <3> QED  BY <3>1, <3>2
  <2>4. ASSUME NEW m \in Mechs, NEW i \in DOMAIN agenda', Hits(agenda'[i], m),
               \A j \in DOMAIN agenda' : j > i => ~Hits(agenda'[j], m)
        PROVE  agenda'[i].after = said'.owed[m].hp
    <3>1. i - n + 1 \in DOMAIN agenda /\ i - n + 1 > 1 /\ agenda'[i] = agenda[i - n + 1] /\ i \in Nat
      BY <1>1, <1>2, <2>4
    <3>2. Hits(agenda[i - n + 1], m)
      BY <2>4, <3>1
    <3>3. ASSUME NEW j \in DOMAIN agenda, j > i - n + 1
          PROVE  ~Hits(agenda[j], m)
      <4>1. j \in Nat /\ j # 1
        BY <1>1, <3>1, <3>3
      <4>2. j - 1 + n \in DOMAIN agenda' /\ agenda'[j - 1 + n] = agenda[j]
        BY <1>1, <4>1
      <4>3. j - 1 + n > i
        BY <1>1, <3>1, <3>3, <4>1
      <4>4. ~Hits(agenda'[j - 1 + n], m)
        BY <2>4, <4>2, <4>3
      <4> QED  BY <4>2, <4>4
    <3>4. agenda[i - n + 1].after = said.owed[m].hp
      BY <2>1, <3>1, <3>2, <3>3 DEF LastHits
    <3> QED  BY <1>3, <3>1, <3>4
  <2>5. Unhit(match'.mechs, said'.owed, agenda')
    BY <2>3 DEF Unhit
  <2>6. LastHits(said'.owed, agenda')
    BY <2>4 DEF LastHits
  <2> QED  BY <1>3, <2>1, <2>2, <2>5, <2>6
<1> QED  BY <1>3, <1>6, <1>7, <1>8 DEF Restating, Kind

-----------------------------------------------------------------------------
(* What the fold of an event keeps.                                         *)

LEMMA Foldings ==
    ASSUME NEW x, NEW out
    PROVE  Folded(x, out).match = x /\ Folded(x, out).out = out
           /\ Unchanged(x).match = x /\ Refused(x).match = x
BY DEF Refused, Unchanged, Folded

LEMMA WithPoints ==
    ASSUME NEW m0 \in Match, NEW m, NEW mech
    PROVE  With(m0, m, mech).vp = m0.vp
<1> DEFINE all == [m0.mechs EXCEPT ![m] = mech]
<1>1. With(m0, m, mech) = [m0 EXCEPT !.mechs = all]
  BY DEF With
<1> HIDE DEF all
<1> QED  BY <1>1 DEF Match

LEMMA OverKeeps ==
    ASSUME NEW m0 \in Match, NEW tick, NEW winner, NEW reason
    PROVE  LET new == Over(m0, tick, winner, reason)
           IN  new.vp = m0.vp /\ new.mechs = m0.mechs
BY DEF Over, Match

(* Points are scored by ticks and utilities only.                           *)
LEMMA PointsKept ==
    ASSUME NEW m0 \in Match, NEW e, e.kind \notin {"MATCH_TICK", "UTILITY_DEPLOYED"}
    PROVE  Delta(m0, e).match.vp = m0.vp
<1>1. CASE e.kind \in Terminals
  <2>1. Delta(m0, e) = FoldTerminal(m0, e)
    BY <1>1 DEF Delta, Terminals
  <2>2. Over(m0, m0.tick, e.winner, e.reason).vp = m0.vp
    BY OverKeeps
  <2>3. \/ Delta(m0, e) = Unchanged(Over(m0, m0.tick, e.winner, e.reason))
        \/ Delta(m0, e) = Unchanged(m0) \/ Delta(m0, e) = Refused(m0)
    BY <2>1 DEF FoldTerminal
  <2> QED  BY <2>2, <2>3, Foldings
<1>2. CASE e.kind = "MOVEMENT_RESOLVED"
  <2>1. Delta(m0, e) = FoldMovement(m0, e)
    BY <1>2 DEF Delta, Terminals
  <2>2. Delta(m0, e) = Refused(m0) \/ \E mech : Delta(m0, e) = Unchanged(With(m0, e.mech, mech))
    BY <2>1 DEF FoldMovement
  <2> QED  BY <2>2, Foldings, WithPoints
<1>3. CASE e.kind = "WEAPON_FIRED"
  <2>1. Delta(m0, e) = FoldFired(m0, e)
    BY <1>3 DEF Delta, Terminals
  <2>2. \E mech : Delta(m0, e) = Unchanged(With(m0, e.mech, mech))
    BY <2>1 DEF FoldFired
  <2> QED  BY <2>2, Foldings, WithPoints
<1>4. CASE e.kind = "MODE_TRANSITION_STARTED"
  <2>1. Delta(m0, e) = FoldSwitch(m0, e)
    BY <1>4 DEF Delta, Terminals
  <2>2. Delta(m0, e) = Refused(m0) \/ \E mech : Delta(m0, e) = Unchanged(With(m0, e.mech, mech))
    BY <2>1 DEF FoldSwitch
  <2> QED  BY <2>2, Foldings, WithPoints
<1>5. CASE e.kind = "DAMAGE_APPLIED"
  <2>1. Delta(m0, e) = FoldDamage(m0, e)
    BY <1>5 DEF Delta, Terminals
  <2>2. \E mech : Delta(m0, e) = Unchanged(With(m0, e.mech, mech))
    BY <2>1 DEF FoldDamage
  <2> QED  BY <2>2, Foldings, WithPoints
<1>6. CASE e.kind = "ARMOR_ABSORBED"
  <2>1. Delta(m0, e) = FoldArmor(m0, e)
    BY <1>6 DEF Delta, Terminals
  <2>2. \E mech : Delta(m0, e) = Unchanged(With(m0, e.mech, mech))
    BY <2>1 DEF FoldArmor
  <2> QED  BY <2>2, Foldings, WithPoints
<1>7. CASE e.kind \in {"MECH_DESTROYED", "PILOT_KILLED"}
  <2>1. Delta(m0, e) = FoldDeath(m0, e)
    BY <1>7 DEF Delta, Terminals
  <2>2. Delta(m0, e) = Unchanged(m0) \/ \E mech, out : Delta(m0, e) = Folded(With(m0, e.mech, mech), out)
    BY <2>1 DEF FoldDeath
  <2> QED  BY <2>2, Foldings, WithPoints
<1>8. CASE /\ e.kind \notin Terminals
           /\ e.kind \notin {"MOVEMENT_RESOLVED", "WEAPON_FIRED", "MODE_TRANSITION_STARTED",
                             "DAMAGE_APPLIED", "ARMOR_ABSORBED", "MECH_DESTROYED", "PILOT_KILLED"}
  <2>1. Delta(m0, e) = Unchanged(m0)
    BY <1>8 DEF Delta
  <2> QED  BY <2>1, Foldings
<1> QED  BY <1>1, <1>2, <1>3, <1>4, <1>5, <1>6, <1>7, <1>8

LEMMA SameAs ==
    ASSUME NEW a \in Mech
    PROVE  SameBut(a, a) /\ \A x \in Nat : SameBut([a EXCEPT !.hp = x], a)
BY DEF SameBut, Mech

(* Damage changes hit points only, a notice of a rupture nothing.           *)
LEMMA HullsOnly ==
    ASSUME NEW m0 \in Match, NEW e \in Events,
           e.kind \in {"DAMAGE_APPLIED", "BOILER_RUPTURED", "CARDS_DISCARDED"}
    PROVE  \A m \in Mechs : SameBut(Delta(m0, e).match.mechs[m], m0.mechs[m])
<1>0. m0.mechs \in [Mechs -> Mech]
  BY DEF Match
<1>1. CASE e.kind = "DAMAGE_APPLIED"
  <2> DEFINE hit == [m0.mechs[e.mech] EXCEPT !.hp = e.after]
             new == With(m0, e.mech, hit)
  <2>1. e.mech \in Mechs /\ e.after \in Nat
    <3>1. e \in Damages
      BY <1>1, Kinds
    <3> QED  BY <3>1 DEF Damages
  <2>2. Delta(m0, e) = FoldDamage(m0, e)
    BY <1>1 DEF Delta, Terminals
  <2>3. Delta(m0, e) = Unchanged(new)
    BY <2>2 DEF FoldDamage
  <2>4. hit \in Mech
    <3>1. m0.mechs[e.mech] \in Mech
      BY <1>0, <2>1
    <3> QED  BY <2>1, <3>1 DEF Mech
  <2>5. SameBut(hit, m0.mechs[e.mech])
    BY <1>0, <2>1, SameAs
  <2>6. new.mechs[e.mech] = hit /\ \A o \in Mechs \ {e.mech} : new.mechs[o] = m0.mechs[o]
    <3> HIDE DEF hit
    <3> QED  BY <2>1, <2>4, WithMech
  <2>7. Delta(m0, e).match = new
    <3> HIDE DEF new
    <3> QED  BY <2>3, Foldings
  <2> HIDE DEF hit, new
  <2>8. \A m \in Mechs : SameBut(m0.mechs[m], m0.mechs[m])
    BY <1>0, SameAs
  <2>9. \A m \in Mechs : SameBut(new.mechs[m], m0.mechs[m])
    BY <2>5, <2>6, <2>8
  <2> QED  BY <2>7, <2>9
<1>2. CASE e.kind # "DAMAGE_APPLIED"
  <2>1. Delta(m0, e) = Unchanged(m0)
    BY <1>2 DEF Delta, Terminals
  <2>2. Delta(m0, e).match = m0
    BY <2>1, Foldings
  <2> QED  BY <1>0, <2>2, SameAs
<1> QED  BY <1>1, <1>2

(* What the death of a mech decides: a victory has one mech left, a draw    *)
(* none, and an undecided match two or a last one without hit points.       *)
LEMMA DeathTruth ==
    ASSUME NEW m0 \in Match, NEW before, before \subseteq Mechs, before # {}, m0.status = "running", NEW new \in Match
    PROVE  LET out == DeathTerminal(m0, before, new.mechs)
               after == Living(new.mechs)
           IN  /\ \A v : out = <<v>> => Truth(new, v.winner, v.reason)
               /\ out = <<>> => /\ after # {}
                                /\ \/ after = Mechs \/ before # Mechs
                                   \/ \A m \in after : new.mechs[m].hp = 0
<1> DEFINE after == Living(new.mechs)
           out == DeathTerminal(m0, before, new.mechs)
           spent == \A m \in after : new.mechs[m].hp = 0
           quiet == Cardinality(before) <= 1 \/ Cardinality(after) > 1 \/ spent
           m == CHOOSE m \in after : TRUE
           win == Victory(m, "last_mech_standing", "fold")
           draw == Ended(None, "draw_mutual_destruction", "fold")
<1>1. out = IF after = {} THEN <<draw>> ELSE IF quiet THEN <<>> ELSE <<win>>
  BY DEF DeathTerminal
<1>2. draw.reason = "draw_mutual_destruction" /\ win.reason = "last_mech_standing" /\ win.winner = m
  BY DEF Ended, Victory
<1>3. after \subseteq Mechs
  BY Counting
<1>4. quiet => after = Mechs \/ before # Mechs \/ spent
  <2> SUFFICES ASSUME quiet PROVE after = Mechs \/ before # Mechs \/ spent
    OBVIOUS
  <2> HIDE DEF after, spent
  <2>1. \/ after = {} \/ after = Mechs \/ \E x \in Mechs : after = {x}
    BY <1>3, HowMany
  <2>2. Cardinality(Mechs) = 2 /\ Cardinality({}) = 0 /\ \A x : Cardinality({x}) = 1
    BY <1>3, HowMany
  <2>3. CASE Cardinality(before) <= 1
    <3>1. before # Mechs
      BY <2>2, <2>3
    <3> QED  BY <3>1
  <2>4. CASE Cardinality(after) > 1
    <3>1. after # {}
      BY <2>2, <2>4
    <3>2. ASSUME NEW x, after = {x}
          PROVE  FALSE
      <4>1. Cardinality(after) = 1
        BY <2>2, <3>2
      <4> QED  BY <2>4, <4>1
    <3> QED  BY <2>1, <3>1, <3>2
  <2> QED  BY <2>3, <2>4 DEF quiet
<1>5. ~quiet /\ after # {} => after = {m}
  <2> SUFFICES ASSUME ~quiet, after # {} PROVE after = {m}
    OBVIOUS
  <2>1. m \in after
    BY <1>3
  <2> HIDE DEF after, spent, m
  <2>2. \/ after = {} \/ after = Mechs \/ \E x \in Mechs : after = {x}
    BY <1>3, HowMany
  <2>3. Cardinality(Mechs) = 2
    BY <1>3, HowMany
  <2>4. after # Mechs
    BY <2>3 DEF quiet
  <2> QED  BY <2>1, <2>2, <2>4
<1> HIDE DEF out, quiet, spent, win, draw, m, after
<1>6. ASSUME NEW v, out = <<v>> PROVE Truth(new, v.winner, v.reason)
  <2>1. CASE after = {}
    <3>1. v = draw
      BY <1>1, <1>6, <2>1
    <3> QED  BY <1>2, <2>1, <3>1 DEF Truth, after
  <2>2. CASE after # {}
    <3>1. v = win /\ ~quiet
      BY <1>1, <1>6, <2>2
    <3> QED  BY <1>2, <1>5, <2>2, <3>1 DEF Truth, after
  <2> QED  BY <2>1, <2>2
<1>7. out = <<>> => after # {} /\ (after = Mechs \/ before # Mechs \/ spent)
  BY <1>1, <1>4
<1> QED  BY <1>6, <1>7 DEF out, after, spent

(* A death the match did not know of.                                       *)
LEMMA FoldsDeathTruly ==
    ASSUME NEW m0 \in Match, NEW e \in Deaths
    PROVE  LET f == Delta(m0, e)
           IN  /\ \A m \in Mechs : f.match.mechs[m].alive <=> m0.mechs[m].alive /\ ~Destroys(e, m)
               /\ Living(f.match.mechs) \subseteq Living(m0.mechs)
               /\ ~Dead(m0.mechs, e) /\ m0.status = "running" /\ Living(m0.mechs) # {} =>
                    /\ \A v : f.out = <<v>> => Truth(f.match, v.winner, v.reason)
                    /\ f.out = <<>> =>
                         /\ Living(f.match.mechs) # {}
                         /\ \/ Living(f.match.mechs) = Mechs \/ Living(m0.mechs) # Mechs
                            \/ \A m \in Living(f.match.mechs) : f.match.mechs[m].hp = 0
<1> DEFINE f == Delta(m0, e)
           mech == m0.mechs[e.mech]
           lost == IF e.kind = "PILOT_KILLED" THEN [mech EXCEPT !.pilot = FALSE]
                   ELSE [mech EXCEPT !.alive = FALSE]
           after == With(m0, e.mech, lost)
           out == DeathTerminal(m0, Living(m0.mechs), after.mechs)
<1>1. e.kind \in {"MECH_DESTROYED", "PILOT_KILLED"} /\ e.mech \in Mechs
  BY DEF Deaths
<1>2. f = FoldDeath(m0, e)
  BY <1>1 DEF Delta, Terminals
<1>3. mech \in Mech
  BY <1>1 DEF Match
<1>4. /\ lost \in Mech
      /\ lost.alive <=> mech.alive /\ e.kind = "PILOT_KILLED"
      /\ lost.pilot => mech.pilot
  <2> HIDE DEF mech
  <2>1. CASE e.kind = "PILOT_KILLED"
    <3>1. lost = [mech EXCEPT !.pilot = FALSE]
      BY <2>1
    <3> HIDE DEF lost
    <3> QED  BY <1>3, <2>1, <3>1 DEF Mech
  <2>2. CASE e.kind # "PILOT_KILLED"
    <3>1. lost = [mech EXCEPT !.alive = FALSE]
      BY <2>2
    <3> HIDE DEF lost
    <3> QED  BY <1>3, <2>2, <3>1 DEF Mech
  <2> QED  BY <2>1, <2>2
<1>5. CASE Dead(m0.mechs, e)
  <2>1. f.match = m0
    <3>1. f = Unchanged(m0)
      BY <1>2, <1>5 DEF FoldDeath, Dead
    <3> HIDE DEF f
    <3> QED  BY <3>1, Foldings
  <2> HIDE DEF f
  <2>2. \A m \in Mechs : m0.mechs[m].alive <=> m0.mechs[m].alive /\ ~Destroys(e, m)
    BY <1>5 DEF Dead, Destroys
  <2> QED  BY <1>5, <2>1, <2>2 DEF f
<1>6. CASE ~Dead(m0.mechs, e)
  <2>1. f = Folded(after, out)
    BY <1>2, <1>6 DEF FoldDeath, Dead
  <2>2. f.match = after /\ f.out = out
    <3> HIDE DEF f, out, after
    <3> QED  BY <2>1, Foldings
  <2>3. /\ Quiet(m0, after) /\ after.mechs \in [Mechs -> Mech] /\ after.mechs[e.mech] = lost
        /\ \A o \in Mechs \ {e.mech} : after.mechs[o] = m0.mechs[o]
    <3> HIDE DEF lost
    <3> QED  BY <1>1, <1>4, WithMech
  <2>4. after \in Match
    BY <2>3 DEF Quiet
  <2>5. m0.status = "running" /\ Living(m0.mechs) # {} =>
          /\ \A v : out = <<v>> => Truth(after, v.winner, v.reason)
          /\ out = <<>> => /\ Living(after.mechs) # {}
                           /\ \/ Living(after.mechs) = Mechs \/ Living(m0.mechs) # Mechs
                              \/ \A m \in Living(after.mechs) : after.mechs[m].hp = 0
    <3> DEFINE before == Living(m0.mechs)
    <3>1. before \subseteq Mechs
      BY Counting
    <3> HIDE DEF after, before
    <3>2. ASSUME before # {}, m0.status = "running"
          PROVE  LET t == DeathTerminal(m0, before, after.mechs)
                 IN  /\ \A v : t = <<v>> => Truth(after, v.winner, v.reason)
                     /\ t = <<>> => /\ Living(after.mechs) # {}
                           /\ \/ Living(after.mechs) = Mechs \/ before # Mechs
                              \/ \A m \in Living(after.mechs) : after.mechs[m].hp = 0
      BY <2>4, <3>1, <3>2, DeathTruth
    <3> QED  BY <3>2 DEF before
  <2> HIDE DEF f, out, after, lost
  <2>6. ASSUME NEW m \in Mechs
        PROVE  /\ after.mechs[m].alive <=> m0.mechs[m].alive /\ ~Destroys(e, m)
               /\ after.mechs[m].pilot => m0.mechs[m].pilot
    <3>1. CASE m = e.mech
      BY <1>1, <1>4, <2>3, <3>1 DEF Destroys
    <3>2. CASE m # e.mech
      BY <2>3, <3>2 DEF Destroys
    <3> QED  BY <3>1, <3>2
  <2>7. Living(after.mechs) \subseteq Living(m0.mechs)
    BY <2>6 DEF Living
  <2> QED  BY <2>2, <2>5, <2>6, <2>7 DEF f
<1> QED  BY <1>5, <1>6

-----------------------------------------------------------------------------
(* The steps of the bus keep the results true.                              *)

LEMMA TruthLasts ==
    ASSUME NEW a, NEW b, Living(b.mechs) = Living(a.mechs), b.vp = a.vp,
           NEW winner, NEW reason, Truth(a, winner, reason)
    PROVE  Truth(b, winner, reason)
BY DEF Truth

LEMMA DropFollows ==
    ASSUME agenda \in Seq(Events), Dropped, Head(agenda).kind # "MATCH_TICK"
    PROVE  Follows(<<>>)
<1>1. Tail(agenda) \in Seq(Events)
  BY Tails DEF Dropped
<1>2. <<>> \o Tail(agenda) = Tail(agenda)
  <2> DEFINE t == Tail(agenda)
  <2> HIDE DEF t
  <2> QED  BY <1>1 DEF t
<1>3. <<>> \in Seq(Ends)
  OBVIOUS
<1> QED  BY <1>2, <1>3 DEF Follows, Dropped

(* An event that keeps the living and the points.                           *)
LEMMA DropTrue ==
    ASSUME agenda \in Seq(Events), Dropped, Contested, Results, Settled,
           Living(match'.mechs) = Living(match.mechs), match'.status = match.status,
           match'.winner = match.winner, match'.reason = match.reason,
           Head(agenda).kind \notin Terminals,
           \A m \in Living(match.mechs) : ~Destroys(Head(agenda), m),
           match'.vp = match.vp \/ Head(agenda).kind = "UTILITY_DEPLOYED",
           \A x \in Deaths : Dead(match'.mechs, x) <=> Dead(match.mechs, x)
    PROVE  Contested' /\ Results' /\ Settled'
<1>1. /\ Head(agenda) = agenda[1] /\ 1 \in DOMAIN agenda /\ agenda \in Seq(Events) /\ agenda' \in Seq(Events)
      /\ Len(agenda') = Len(agenda) - 1 /\ Len(agenda) \in Nat
      /\ \A i \in DOMAIN agenda' : i \in Nat /\ i >= 1 /\ i + 1 \in DOMAIN agenda /\ agenda'[i] = agenda[i + 1]
      /\ \A i \in DOMAIN agenda : i # 1 => i - 1 \in DOMAIN agenda' /\ agenda'[i - 1] = agenda[i]
  BY Shifting
<1>2. Running' <=> Running
  BY DEF Running
<1>3. Contested'
  <2> SUFFICES ASSUME Running', \A i \in DOMAIN agenda' : agenda'[i].kind \notin Terminals
               PROVE  \/ Living(match'.mechs) = Mechs
                      \/ Living(match'.mechs) # {} /\ \A m \in Living(match'.mechs) : Perishes(agenda', m)
    BY DEF Contested, IsEnd, Kind
  <2>1. \A i \in DOMAIN agenda : ~IsEnd(i)
    BY <1>1 DEF IsEnd, Kind
  <2>2. \/ Living(match.mechs) = Mechs
        \/ Living(match.mechs) # {} /\ \A m \in Living(match.mechs) : Perishes(agenda, m)
    BY <1>2, <2>1 DEF Contested
  <2>3. ASSUME NEW m \in Living(match.mechs), Perishes(agenda, m)
        PROVE  Perishes(agenda', m)
    <3>1. PICK i \in DOMAIN agenda : Destroys(agenda[i], m)
      BY <2>3 DEF Perishes
    <3>2. i # 1
      BY <1>1, <3>1
    <3> QED  BY <1>1, <3>1, <3>2 DEF Perishes
  <2> QED  BY <2>2, <2>3
<1>4. \A i \in DOMAIN agenda : IsEnd(i) => match'.vp = match.vp
  BY <1>1 DEF Settled, Kind
<1>5. Results'
  <2>1. ~Running => Truth(match', match'.winner, match'.reason)
    <3> HAVE ~Running
    <3>1. match'.vp = match.vp
      BY <1>1 DEF Settled, Kind
    <3>2. Truth(match, match.winner, match.reason)
      BY DEF Results
    <3> QED  BY <3>1, <3>2, TruthLasts
  <2>2. ASSUME NEW i \in DOMAIN agenda', agenda'[i].kind \in Terminals
        PROVE  Truth(match', agenda'[i].winner, agenda'[i].reason)
    <3>1. i + 1 \in DOMAIN agenda /\ agenda'[i] = agenda[i + 1] /\ IsEnd(i + 1)
      BY <1>1, <2>2 DEF IsEnd, Kind
    <3>2. Truth(match, agenda'[i].winner, agenda'[i].reason) /\ match'.vp = match.vp
      BY <1>4, <3>1 DEF Results
    <3> QED  BY <3>2, TruthLasts
  <2> QED  BY <1>2, <2>1, <2>2 DEF Results, IsEnd, Kind
<1>6. Settled'
  <2>1. ASSUME NEW i \in DOMAIN agenda', agenda'[i].kind \in {"MECH_DESTROYED", "PILOT_KILLED"},
               ~Dead(match'.mechs, agenda'[i])
        PROVE  Running'
    <3>1. i + 1 \in DOMAIN agenda /\ agenda'[i] = agenda[i + 1] /\ agenda[i + 1] \in Events
      BY <1>1
    <3>2. agenda[i + 1] \in Deaths
      BY <2>1, <3>1, Kinds
    <3>3. ~Dead(match.mechs, agenda[i + 1])
      BY <2>1, <3>1, <3>2
    <3>4. IsDeath(i + 1) /\ ~Known(agenda[i + 1])
      BY <2>1, <3>1, <3>3 DEF IsDeath, Kind, Known, Dead
    <3> QED  BY <1>2, <3>1, <3>4 DEF Settled
  <2>2. ASSUME NEW i \in DOMAIN agenda', agenda'[i].kind = "UTILITY_DEPLOYED"
        PROVE  /\ Running' /\ i = Len(agenda')
               /\ \A j \in DOMAIN agenda' :
                    agenda'[j].kind \notin Terminals \cup {"MECH_DESTROYED", "PILOT_KILLED", "MATCH_TICK"}
    <3>1. i + 1 \in DOMAIN agenda /\ agenda'[i] = agenda[i + 1] /\ Kind(i + 1) = "UTILITY_DEPLOYED"
      BY <1>1, <2>2 DEF Kind
    <3>2. /\ Running /\ i + 1 = Len(agenda)
          /\ \A j \in DOMAIN agenda : ~IsEnd(j) /\ ~IsDeath(j) /\ Kind(j) # "MATCH_TICK"
      BY <3>1 DEF Settled
    <3>3. \A j \in DOMAIN agenda' :
            agenda'[j].kind \notin Terminals \cup {"MECH_DESTROYED", "PILOT_KILLED", "MATCH_TICK"}
      BY <1>1, <3>2 DEF IsEnd, IsDeath, Kind
    <3>4. i = Len(agenda')
      BY <1>1, <3>2
    <3> QED  BY <1>2, <3>2, <3>3, <3>4
  <2> QED  BY <2>1, <2>2 DEF Settled, IsDeath, IsEnd, Kind, Known, Dead
<1> QED  BY <1>3, <1>5, <1>6

LEMMA PublishCalmTrue ==
    ASSUME IInv, RInv, Publish, Head(agenda).kind \notin Terminals, Head(agenda).kind # "MATCH_TICK",
           Head(agenda).kind \notin {"MECH_DESTROYED", "PILOT_KILLED"}
    PROVE  RInv'
<1> DEFINE e == Head(agenda)
           f == Delta(match, e)
<1>1. /\ Shape /\ IntentsWait /\ agenda \in Seq(Events) /\ agenda # <<>> /\ match \in Match
      /\ Toll /\ Hulls /\ Contested /\ Results /\ Settled /\ Restating
  BY DEF IInv, Shape, Publish, Flow, RInv
<1>2. e \in Events /\ e = agenda[1] /\ 1 \in DOMAIN agenda
  BY <1>1, Tails
<1>3. Calm(match, e, f) /\ match' = f.match /\ Dropped
  BY <1>1, CalmStep
<1>4. Follows(<<>>)
  BY <1>1, <1>3, DropFollows
<1>5. \A m : ~Destroys(e, m)
  BY DEF Destroys
<1>6. /\ Quiet(match, match') /\ SameLives(match.mechs, match'.mechs)
      /\ \A m \in Mechs : match'.mechs[m].hp =
              IF e.kind = "DAMAGE_APPLIED" /\ e.mech = m THEN e.after ELSE match.mechs[m].hp
  BY <1>3 DEF Calm
<1>7. stage = "ticked" => \A m \in Mechs : SameBut(match'.mechs[m], match.mechs[m])
  <2> HAVE stage = "ticked"
  <2>1. e.kind \in {"DAMAGE_APPLIED", "BOILER_RUPTURED", "CARDS_DISCARDED"}
    BY <1>1, <1>2 DEF Restating, TickKinds, Kind
  <2> HIDE DEF e
  <2> QED  BY <1>1, <1>2, <1>3, <2>1, HullsOnly DEF f
<1>8. e.kind # "UTILITY_DEPLOYED" => match'.vp = match.vp
  <2> HIDE DEF e
  <2>1. e.kind # "MATCH_TICK"
    BY DEF e
  <2> QED  BY <1>1, <1>3, <2>1, PointsKept DEF f
<1> HIDE DEF f
<1>9. Suffers(e)
  <2> HIDE DEF e
  <2> QED  BY <1>5, <1>6, <1>7 DEF Suffers, Quiet, SameLives, SameLife, Hits
<1>10. Toll' /\ Hulls' /\ Restating'
  BY <1>1, <1>4, <1>9, FollowToll, FollowHulls, FollowRestating
<1>11. Contested' /\ Results' /\ Settled'
  <2>1. Living(match'.mechs) = Living(match.mechs)
    BY <1>6, SameDead
  <2>2. \A x \in Deaths : Dead(match'.mechs, x) <=> Dead(match.mechs, x)
    <3>1. \A x \in Deaths : x.mech \in Mechs
      BY DEF Deaths
    <3> QED  BY <1>6, <3>1 DEF Dead, SameLives, SameLife
  <2>3. /\ match'.status = match.status /\ match'.winner = match.winner /\ match'.reason = match.reason
    BY <1>6 DEF Quiet
  <2> QED  BY <1>1, <1>3, <1>5, <1>8, <2>1, <2>2, <2>3, DropTrue
<1> QED  BY <1>10, <1>11 DEF RInv

LEMMA PublishEndTrue ==
    ASSUME IInv, RInv, Publish, Head(agenda).kind \in Terminals
    PROVE  RInv'
<1> DEFINE e == Head(agenda)
           f == Delta(match, e)
<1>1. /\ Shape /\ agenda # <<>> /\ stage # "raised" /\ Flow /\ agenda \in Seq(Events) /\ match \in Match
      /\ Toll /\ Hulls /\ Contested /\ Results /\ Settled /\ Restating
  BY DEF IInv, Publish, Shape, RInv
<1>2. e \in Events /\ e = agenda[1] /\ 1 \in DOMAIN agenda /\ Tail(agenda) \in Seq(Events)
  BY <1>1, Tails
<1>3. IsEnd(1) /\ e \in Ends
  BY <1>2, Kinds DEF IsEnd, Kind
<1>4. /\ \A j \in DOMAIN agenda : IsEnd(j) => 1 = j
      /\ ~Running => e.winner = match.winner /\ e.reason = match.reason
  BY <1>1, <1>2, <1>3 DEF Flow, EndsWait, Kind
<1>5. /\ f.nested = <<>> /\ f.out = <<>> /\ ~f.refused
      /\ f.match \in Match /\ f.match.status = "ended" /\ f.match.mechs = match.mechs
      /\ f.match.winner = e.winner /\ f.match.reason = e.reason
  <2> HIDE DEF e
  <2> QED  BY <1>1, <1>3, <1>4, FoldsEnd DEF Running
<1>6. Dropped /\ match' = f.match /\ stage' = stage
  <2>1. /\ match' = f.match /\ said' = Heard(e)
        /\ agenda' = f.nested \o f.out \o Tail(agenda) /\ stage' = stage
        /\ UNCHANGED <<todo, cadence, round, committed>>
    BY <1>5 DEF Publish
  <2>2. agenda' = Tail(agenda)
    BY <1>2, <1>5, <2>1, Nothing
  <2> QED  BY <1>1, <2>1, <2>2 DEF Dropped
<1>7. f.match.vp = match.vp
  <2>1. e.kind \notin {"MATCH_TICK", "UTILITY_DEPLOYED"}
    BY DEF Terminals
  <2> HIDE DEF e
  <2> QED  BY <1>1, <2>1, PointsKept
<1> HIDE DEF f
<1>8. e.kind \notin {"MATCH_TICK", "MECH_DESTROYED", "PILOT_KILLED", "DAMAGE_APPLIED"}
  BY DEF Terminals
<1>9. Follows(<<>>)
  BY <1>1, <1>6, <1>8, DropFollows
<1>10. Suffers(e)
  <2>1. \A m \in Mechs : ~Destroys(e, m) /\ ~Hits(e, m)
    BY <1>8 DEF Destroys, Hits
  <2>2. \A m \in Mechs : SameBut(match.mechs[m], match.mechs[m])
    <3>1. match.mechs \in [Mechs -> Mech]
      BY <1>1 DEF Match
    <3> QED  BY <3>1, SameAs
  <2> HIDE DEF e
  <2> QED  BY <1>5, <1>6, <2>1, <2>2 DEF Suffers
<1>11. Toll' /\ Hulls' /\ Restating'
  BY <1>1, <1>9, <1>10, FollowToll, FollowHulls, FollowRestating
<1>12. \A i \in DOMAIN agenda' : i \in Nat /\ i >= 1 /\ i + 1 \in DOMAIN agenda /\ i + 1 > 1
            /\ agenda'[i] = agenda[i + 1] /\ agenda'[i] \in Events /\ agenda'[i].kind \notin Terminals
  BY <1>1, <1>2, <1>4, <1>6, Shifting DEF IsEnd, Kind
<1>13. ~Running'
  BY <1>5, <1>6 DEF Running
<1>14. Contested'
  BY <1>13 DEF Contested
<1>15. Results'
  <2>1. Truth(match, e.winner, e.reason)
    BY <1>1, <1>2, <1>3 DEF Results
  <2>2. Living(match'.mechs) = Living(match.mechs) /\ match'.vp = match.vp
    BY <1>5, <1>6, <1>7
  <2>3. Truth(match', e.winner, e.reason)
    BY <2>1, <2>2, TruthLasts
  <2> QED  BY <1>5, <1>6, <1>12, <2>3 DEF Results, IsEnd, Kind
<1>16. Settled'
  <2>1. ASSUME NEW i \in DOMAIN agenda', agenda'[i].kind \in {"MECH_DESTROYED", "PILOT_KILLED"}
        PROVE  Dead(match'.mechs, agenda'[i])
    <3>1. /\ stage \in {"ticked", "acting", "top"} /\ (stage = "ticked" => Known(agenda[i + 1]))
          /\ stage # "ticked" => \A j \in DOMAIN agenda : ~IsEnd(j)
      BY <1>1, <1>12, <2>1 DEF Flow, DeathsWait, IsDeath, Kind
    <3> QED  BY <1>2, <1>3, <1>5, <1>6, <1>12, <3>1 DEF Known, Dead
  <2>2. ASSUME NEW i \in DOMAIN agenda', agenda'[i].kind = "UTILITY_DEPLOYED"
        PROVE  FALSE
    <3>1. \A j \in DOMAIN agenda : ~IsEnd(j)
      BY <1>1, <1>12, <2>2 DEF Settled, Kind
    <3> QED  BY <1>2, <1>3, <3>1
  <2> QED  BY <2>1, <2>2 DEF Settled, IsDeath, Kind, Known, Dead
<1> QED  BY <1>11, <1>14, <1>15, <1>16 DEF RInv

LEMMA Before ==
    ASSUME NEW S, NEW s \in Seq(S), NEW T, NEW t \in Seq(T)
    PROVE  <<>> \o s \o t = s \o t
<1>1. <<>> \o s = s
  OBVIOUS
<1> QED  BY <1>1

LEMMA PublishDeathTrue ==
    ASSUME IInv, RInv, Publish, Head(agenda).kind \in {"MECH_DESTROYED", "PILOT_KILLED"}
    PROVE  RInv'
<1> DEFINE e == Head(agenda)
           f == Delta(match, e)
           n == Len(f.out)
<1>1. /\ Shape /\ agenda # <<>> /\ stage # "raised" /\ Flow /\ agenda \in Seq(Events) /\ match \in Match
      /\ Toll /\ Hulls /\ Contested /\ Results /\ Settled /\ Restating
  BY DEF IInv, Publish, Shape, RInv
<1>2. /\ e \in Events /\ e = agenda[1] /\ 1 \in DOMAIN agenda /\ Tail(agenda) \in Seq(Events)
  BY <1>1, Tails
<1>3. IsDeath(1) /\ e \in Deaths /\ e.mech \in Mechs
  BY <1>2, Kinds, DeathMech DEF IsDeath, Kind
<1>4. /\ f.nested = <<>> /\ ~f.refused /\ Quiet(match, f.match)
      /\ Dead(match.mechs, e) => f.match = match /\ f.out = <<>>
      /\ \A m \in Mechs : f.match.mechs[m].hp = match.mechs[m].hp
      /\ f.out = <<>> \/ \E v \in Verdicts : f.out = <<v>>
  <2> HIDE DEF e
  <2> QED  BY <1>1, <1>3, FoldsDeath
<1>5. /\ \A m \in Mechs : f.match.mechs[m].alive <=> match.mechs[m].alive /\ ~Destroys(e, m)
      /\ Living(f.match.mechs) \subseteq Living(match.mechs)
      /\ ~Dead(match.mechs, e) /\ match.status = "running" /\ Living(match.mechs) # {} =>
            /\ \A v : f.out = <<v>> => Truth(f.match, v.winner, v.reason)
            /\ f.out = <<>> =>
                 /\ Living(f.match.mechs) # {}
                 /\ \/ Living(f.match.mechs) = Mechs \/ Living(match.mechs) # Mechs
                    \/ \A m \in Living(f.match.mechs) : f.match.mechs[m].hp = 0
  <2> HIDE DEF e
  <2> QED  BY <1>1, <1>3, FoldsDeathTruly
<1>6. f.match.vp = match.vp
  <2>1. e.kind \notin {"MATCH_TICK", "UTILITY_DEPLOYED"}
    OBVIOUS
  <2> HIDE DEF e
  <2> QED  BY <1>1, <2>1, PointsKept
<1>7. /\ match' = f.match /\ said' = Heard(e) /\ agenda' = f.nested \o f.out \o Tail(agenda)
      /\ stage' = stage /\ UNCHANGED <<todo, cadence, round, committed>>
  BY <1>4 DEF Publish
<1>8. /\ f.out \in Seq(Ends) /\ n \in Nat
      /\ f.out = <<>> \/ (n = 1 /\ f.out = <<f.out[1]>> /\ f.out[1] \in Ends /\ f.out[1].kind \in Terminals)
  <2> HIDE DEF f
  <2>1. CASE f.out = <<>>
    BY <2>1
  <2>2. CASE f.out # <<>>
    <3>1. PICK v \in Verdicts : f.out = <<v>>
      BY <1>4, <2>2
    <3>2. v \in Ends /\ v.kind \in Terminals
      BY VerdictsAre
    <3> QED  BY <3>1, <3>2
  <2> QED  BY <2>1, <2>2
<1>9. Follows(f.out)
  <2>1. agenda' = f.out \o Tail(agenda)
    <3>1. agenda' = <<>> \o f.out \o Tail(agenda)
      <4> HIDE DEF f
      <4> QED  BY <1>4, <1>7
    <3> DEFINE t == Tail(agenda)
               s == f.out
    <3>2. agenda' = <<>> \o s \o t /\ s \in Seq(Ends) /\ t \in Seq(Events)
      BY <1>2, <1>8, <3>1
    <3> HIDE DEF s, t, Ends, Events
    <3>3. agenda' = s \o t
      BY <3>2, Before
    <3> QED  BY <3>3 DEF s, t
  <2>2. e.kind # "MATCH_TICK"
    OBVIOUS
  <2> HIDE DEF f, Ends
  <2> QED  BY <1>1, <1>7, <1>8, <2>1, <2>2 DEF Follows
<1> HIDE DEF f
<1>10. \A m \in Mechs : ~Hits(e, m)
  BY DEF Hits
<1>11. stage = "ticked" => Dead(match.mechs, e)
  BY <1>1, <1>2, <1>3 DEF Flow, DeathsWait, Known, Dead
<1>12. Suffers(e)
  <2>1. match' \in Match
    BY <1>4, <1>7 DEF Quiet
  <2>2. stage = "ticked" => \A m \in Mechs : SameBut(match'.mechs[m], match.mechs[m])
    <3>1. match.mechs \in [Mechs -> Mech]
      BY <1>1 DEF Match
    <3> QED  BY <1>4, <1>7, <1>11, <3>1, SameAs
  <2> HIDE DEF e
  <2> QED  BY <1>4, <1>5, <1>7, <1>10, <2>1, <2>2 DEF Suffers
<1>13. Toll' /\ Hulls' /\ Restating'
  BY <1>1, <1>9, <1>12, FollowToll, FollowHulls, FollowRestating
<1>14. CASE Dead(match.mechs, e)
  <2>1. f.out = <<>> /\ match' = match
    BY <1>4, <1>7, <1>14
  <2>2. Dropped
    <3>1. agenda' = <<>> \o <<>> \o Tail(agenda)
      BY <1>4, <1>7, <2>1
    <3>2. agenda' = Tail(agenda)
      BY <1>2, <3>1, Nothing
    <3> QED  BY <1>1, <1>7, <3>2 DEF Dropped
  <2>3. \A m \in Living(match.mechs) : ~Destroys(e, m)
    BY <1>14 DEF Living, Dead, Destroys
  <2>4. e.kind \notin Terminals
    BY DEF Terminals
  <2>5. Contested' /\ Results' /\ Settled'
    BY <1>1, <2>1, <2>2, <2>3, <2>4, DropTrue
  <2> QED  BY <1>13, <2>5 DEF RInv
<1>15. CASE ~Dead(match.mechs, e)
  <2>1. Running
    BY <1>1, <1>2, <1>3, <1>15 DEF Settled, Known, Dead
  <2>2. \A j \in DOMAIN agenda : ~IsEnd(j)
    BY <1>1, <1>2, <1>3, <1>11, <1>15 DEF Flow, DeathsWait
  <2>3. \/ Living(match.mechs) = Mechs
        \/ Living(match.mechs) # {} /\ \A m \in Living(match.mechs) : Perishes(agenda, m)
    BY <1>1, <2>1, <2>2 DEF Contested
  <2>4. Living(match.mechs) # {}
    BY <2>3, TwoMechs
  <2>5. /\ \A v : f.out = <<v>> => Truth(f.match, v.winner, v.reason)
        /\ f.out = <<>> =>
                 /\ Living(f.match.mechs) # {}
                 /\ \/ Living(f.match.mechs) = Mechs \/ Living(match.mechs) # Mechs
                    \/ \A m \in Living(f.match.mechs) : f.match.mechs[m].hp = 0
    BY <1>5, <1>15, <2>1, <2>4 DEF Running
  <2>6. Running'
    BY <1>4, <1>7, <2>1 DEF Quiet, Running
  <2>7. /\ DOMAIN agenda' \subseteq Nat
        /\ \A i \in DOMAIN agenda' :
            IF i <= n THEN i \in DOMAIN f.out /\ agenda'[i] = f.out[i]
            ELSE i - n + 1 \in DOMAIN agenda /\ i - n + 1 > 1 /\ agenda'[i] = agenda[i - n + 1]
    BY <1>1, <1>9, FollowList
  <2>8. \A i \in DOMAIN agenda' : agenda'[i].kind \in Terminals => f.out = <<agenda'[i]>>
    <3>1. ASSUME NEW i \in DOMAIN agenda', agenda'[i].kind \in Terminals
          PROVE  f.out = <<agenda'[i]>>
      <4>1. i <= n
        BY <2>2, <2>7, <3>1 DEF IsEnd, Kind
      <4>2. i \in DOMAIN f.out /\ agenda'[i] = f.out[i]
        BY <2>7, <4>1
      <4>3. f.out # <<>>
        BY <4>2
      <4>4. f.out = <<f.out[1]>>
        BY <1>8, <4>3
      <4>5. i = 1
        BY <4>2, <4>4
      <4> QED  BY <4>2, <4>4, <4>5
    <3> QED  BY <3>1
  <2>9. Contested'
    <3> SUFFICES ASSUME \A i \in DOMAIN agenda' : agenda'[i].kind \notin Terminals
                 PROVE  \/ Living(match'.mechs) = Mechs
                        \/ Living(match'.mechs) # {} /\ \A m \in Living(match'.mechs) : Perishes(agenda', m)
      BY DEF Contested, IsEnd, Kind
    <3>1. f.out = <<>>
      <4> SUFFICES ASSUME f.out # <<>> PROVE FALSE
        OBVIOUS
      <4>1. n = 1 /\ f.out[1].kind \in Terminals
        BY <1>8
      <4>2. Len(agenda') = n + Len(agenda) - 1 /\ Len(agenda) \in Nat /\ DOMAIN agenda = 1 .. Len(agenda)
        BY <1>1, <1>9, FollowList
      <4>3. agenda' \in Seq(Events)
        <5>1. IInv'
          BY Publishing
        <5> QED  BY <5>1 DEF IInv, Shape
      <4>4. 1 \in DOMAIN agenda'
        BY <1>2, <4>1, <4>2, <4>3
      <4>5. agenda'[1] = f.out[1]
        BY <2>7, <4>1, <4>4
      <4> QED  BY <4>1, <4>4, <4>5
    <3>2. ASSUME NEW m \in Living(match'.mechs), Perishes(agenda, m)
          PROVE  Perishes(agenda', m)
      <4>1. m \in Mechs /\ match'.mechs[m].alive
        BY DEF Living
      <4>2. ~Destroys(e, m)
        BY <1>5, <1>7, <4>1
      <4> QED  BY <1>1, <1>9, <3>2, <4>2, FollowPerishes
    <3>3. CASE Living(match'.mechs) = Mechs
      BY <3>3
    <3>4. CASE Living(match.mechs) # Mechs
      <4>1. \A m \in Living(match.mechs) : Perishes(agenda, m)
        BY <2>3, <3>4
      <4> QED  BY <1>5, <1>7, <2>5, <3>1, <3>2, <4>1
    <3>5. CASE \A m \in Living(match'.mechs) : match'.mechs[m].hp = 0
      <4>1. ASSUME NEW m \in Living(match'.mechs)
            PROVE  Perishes(agenda, m)
        <5>1. m \in Mechs /\ m \in Living(match.mechs) /\ match.mechs[m].hp = 0
          BY <1>4, <1>5, <1>7, <3>5, Counting
        <5>2. match.mechs[m].alive
          BY <5>1 DEF Living
        <5> QED  BY <1>1, <5>1, <5>2 DEF Hulls
      <4> QED  BY <1>7, <2>5, <3>1, <3>2, <4>1
    <3> QED  BY <1>7, <2>5, <3>1, <3>3, <3>4, <3>5
  <2>10. Results'
    <3>1. \A i \in DOMAIN agenda' : agenda'[i].kind \in Terminals =>
              Truth(match', agenda'[i].winner, agenda'[i].reason)
      BY <1>7, <2>5, <2>8
    <3> QED  BY <2>6, <3>1 DEF Results, IsEnd, Kind
  <2>11. Settled'
    <3>1. \A i \in DOMAIN agenda' : agenda'[i].kind # "UTILITY_DEPLOYED"
      <4>1. ASSUME NEW i \in DOMAIN agenda', agenda'[i].kind = "UTILITY_DEPLOYED"
            PROVE  FALSE
        <5>1. CASE i <= n
          <6>1. i \in DOMAIN f.out /\ agenda'[i] = f.out[i]
            BY <2>7, <5>1
          <6>2. f.out[i] \in Ends
            <7> HIDE DEF Ends
            <7> QED  BY <1>8, <6>1
          <6> QED  BY <4>1, <6>1, <6>2 DEF Ends, Terminals
        <5>2. CASE ~(i <= n)
          <6>1. i - n + 1 \in DOMAIN agenda /\ Kind(i - n + 1) = "UTILITY_DEPLOYED"
            BY <2>7, <4>1, <5>2 DEF Kind
          <6> QED  BY <1>1, <1>2, <1>3, <6>1 DEF Settled
        <5> QED  BY <5>1, <5>2
      <4> QED  BY <4>1
    <3> QED  BY <2>6, <3>1 DEF Settled, Kind
  <2> QED  BY <1>13, <2>9, <2>10, <2>11 DEF RInv
<1> QED  BY <1>14, <1>15

(* The reports of a tick wait alone, behind the tick.                       *)
LEMMA AccountedTrue ==
    ASSUME agenda' \in Seq(Events), match \in Match, match' \in Match, stage' = "ticked",
           Living(match.mechs) = Mechs, \A m \in Mechs : match.mechs[m].hp # 0,
           Account(match.mechs, match'.mechs, agenda'),
           said.deaths \in [Mechs -> Nat], \A m \in Mechs : said.deaths[m] = 0,
           said'.deaths = said.deaths, said'.owed = match'.mechs,
           \A i \in DOMAIN agenda' : agenda'[i].kind \in TickKinds /\ agenda'[i].kind # "MATCH_TICK",
           \A i \in DOMAIN agenda' : agenda'[i].kind \in {"MECH_DESTROYED", "PILOT_KILLED"}
                => Dead(match'.mechs, agenda'[i]),
           match'.status = "running" /\ (\A i \in DOMAIN agenda' : agenda'[i].kind \notin Terminals)
                => Living(match'.mechs) = Mechs,
           match'.status # "running" => Truth(match', match'.winner, match'.reason),
           \A i \in DOMAIN agenda' : agenda'[i].kind \in Terminals
                => Truth(match', agenda'[i].winner, agenda'[i].reason)
    PROVE  RInv'
<1>1. \A m \in Mechs : match.mechs[m].alive
  BY DEF Living
<1>2. /\ NoneSpent(match.mechs, match'.mechs) /\ Fatal(match'.mechs, agenda')
      /\ LastHits(match'.mechs, agenda') /\ ToldOnce(agenda')
      /\ Casualties(match.mechs, match'.mechs, agenda')
  BY DEF Account
<1>3. Toll'
  <2>1. \A m \in Mechs : Perishes(agenda', m) <=> ~match'.mechs[m].alive
    BY <1>1, <1>2 DEF Casualties
  <2>2. \A m \in Mechs :
          said'.deaths[m] = IF match'.mechs[m].alive \/ Perishes(agenda', m) THEN 0 ELSE 1
    BY <2>1
  <2> QED  BY <1>2, <2>2 DEF Toll
<1>4. Hulls'
  <2>1. \A m \in Mechs : ~(match'.mechs[m].alive /\ match'.mechs[m].hp = 0)
    BY <1>2 DEF NoneSpent
  <2>2. \A m \in Mechs : \A i \in DOMAIN agenda' :
          ~(Hits(agenda'[i], m) /\ agenda'[i].after = 0 /\ match'.mechs[m].alive)
    BY <1>2 DEF Fatal, Hits
  <2> QED  BY <2>1, <2>2 DEF Hulls
<1>5. Contested'
  BY DEF Contested, Running, IsEnd, Kind
<1>6. Results'
  BY DEF Results, Running, IsEnd, Kind
<1>7. Settled'
  <2>1. \A i \in DOMAIN agenda' : agenda'[i].kind # "UTILITY_DEPLOYED"
    BY DEF TickKinds, Terminals
  <2> QED  BY <2>1 DEF Settled, IsDeath, Kind, Known, Dead
<1>8. Restating'
  <2>1. said'.owed \in [Mechs -> Mech]
    BY DEF Match
  <2>2. \A m \in Mechs : SameBut(match'.mechs[m], said'.owed[m])
    BY <2>1, SameAs
  <2>3. Unhit(match'.mechs, said'.owed, agenda') /\ LastHits(said'.owed, agenda')
    BY <1>2 DEF Unhit
  <2> QED  BY <2>1, <2>2, <2>3 DEF Restating, Kind
<1> QED  BY <1>3, <1>4, <1>5, <1>6, <1>7, <1>8 DEF RInv

(* A body of reports, and perhaps the verdict that closes it.               *)
LEMMA ReportedList ==
    ASSUME NEW m0, NEW f, Reported(m0, f), NEW s, s = f.out
    PROVE  /\ s \in Seq(Events) /\ Account(m0.mechs, f.match.mechs, s)
           /\ \A i \in DOMAIN s : s[i].kind \in TickKinds /\ s[i].kind # "MATCH_TICK"
           /\ \A i \in DOMAIN s : s[i].kind \in {"MECH_DESTROYED", "PILOT_KILLED"} => Dead(f.match.mechs, s[i])
           /\ (\A i \in DOMAIN s : s[i].kind \notin Terminals) => Living(f.match.mechs) = Mechs
           /\ \A i \in DOMAIN s : s[i].kind \in Terminals => Truth(f.match, s[i].winner, s[i].reason)
<1> DEFINE mechs == f.match.mechs
<1>1. PICK body \in Seq(Tidings(mechs)) :
        /\ Account(m0.mechs, mechs, body)
        /\ \/ s = body /\ Living(mechs) = Mechs
           \/ \E v \in Verdicts : s = Append(body, v) /\ Truth(f.match, v.winner, v.reason)
  BY DEF Reported
<1>2. /\ Len(body) \in Nat /\ DOMAIN body = 1 .. Len(body)
      /\ \A i \in DOMAIN body : i \in Nat /\ body[i] \in Tidings(mechs)
  <2> HIDE DEF Tidings
  <2> QED  OBVIOUS
<1>3. \A i \in DOMAIN body :
        /\ body[i] \in Events /\ body[i].mech \in Mechs
        /\ body[i].kind \in {"DAMAGE_APPLIED", "BOILER_RUPTURED", "MECH_DESTROYED", "PILOT_KILLED"}
        /\ body[i].kind \in {"MECH_DESTROYED", "PILOT_KILLED"} => Dead(mechs, body[i])
  BY <1>2, TidingsAre, TidingsTyped
<1>4. body \in Seq(Events)
  <2>1. Tidings(mechs) \subseteq Events
    BY TidingsAre
  <2> QED  BY <2>1
<1>5. \A i \in DOMAIN body : body[i].kind \in TickKinds \ {"MATCH_TICK"} /\ body[i].kind \notin Terminals
  BY <1>3 DEF TickKinds, Terminals
<1>6. CASE s = body /\ Living(mechs) = Mechs
  BY <1>1, <1>3, <1>4, <1>5, <1>6
<1>7. ASSUME NEW v \in Verdicts, s = Append(body, v), Truth(f.match, v.winner, v.reason)
      PROVE  /\ s \in Seq(Events) /\ Account(m0.mechs, mechs, s)
             /\ \A i \in DOMAIN s : s[i].kind \in TickKinds /\ s[i].kind # "MATCH_TICK"
             /\ \A i \in DOMAIN s : s[i].kind \in {"MECH_DESTROYED", "PILOT_KILLED"} => Dead(mechs, s[i])
             /\ ~\A i \in DOMAIN s : s[i].kind \notin Terminals
             /\ \A i \in DOMAIN s : s[i].kind \in Terminals => Truth(f.match, s[i].winner, s[i].reason)
  <2>1. v \in Events /\ v.kind \in Terminals
    BY VerdictsAre
  <2>2. v.kind \in TickKinds \ {"MATCH_TICK"} /\ v.kind \notin {"MECH_DESTROYED", "PILOT_KILLED", "DAMAGE_APPLIED"}
    BY <2>1 DEF TickKinds, Terminals
  <2>3. /\ s \in Seq(Events) /\ DOMAIN s = 1 .. Len(body) + 1 /\ s = body \o <<v>>
        /\ s[Len(body) + 1] = v /\ \A i \in DOMAIN body : s[i] = body[i]
    <3> HIDE DEF mechs, Events, Tidings
    <3> QED  BY <1>2, <1>4, <1>7, <2>1
  <2>4. \A i \in DOMAIN s : s[i] = v \/ (i \in DOMAIN body /\ s[i] = body[i])
    BY <1>2, <2>3
  <2>5. Len(body) + 1 \in DOMAIN s
    BY <1>2, <2>3
  <2>6. Account(mechs, mechs, <<v>>)
    <3> DEFINE t == <<v>>
    <3>1. DOMAIN t = {1} /\ t[1] = v
      OBVIOUS
    <3> HIDE DEF t, mechs
    <3>2. \A i \in DOMAIN t : t[i].kind \notin {"MECH_DESTROYED", "DAMAGE_APPLIED"}
      BY <2>2, <3>1
    <3>3. Account(mechs, mechs, t)
      BY <3>2 DEF Account, Fewer, NoneSpent, Fatal, Unhit, LastHits, ToldOnce, Casualties, Perishes, Hits, Destroys
    <3> QED  BY <3>3 DEF t
  <2>7. Account(m0.mechs, mechs, s)
    <3> DEFINE t == <<v>>
               a == m0.mechs
    <3>1. t \in Seq(Events)
      BY <2>1
    <3>2. Account(a, mechs, body) /\ Account(mechs, mechs, t)
      BY <1>1, <2>6
    <3> HIDE DEF t, a, mechs, Events
    <3>3. Account(a, mechs, body \o t)
      BY <1>3, <1>4, <3>1, <3>2, AccountsJoin
    <3> QED  BY <2>3, <3>3 DEF t, a
  <2> HIDE DEF mechs
  <2> QED  BY <1>3, <1>5, <1>7, <2>1, <2>2, <2>3, <2>4, <2>5, <2>7
<1> QED  BY <1>1, <1>6, <1>7

LEMMA PublishTickTrue ==
    ASSUME IInv, RInv, Publish, Head(agenda).kind = "MATCH_TICK"
    PROVE  RInv'
<1> DEFINE e == Head(agenda)
           f == Delta(match, e)
<1>1. /\ Shape /\ agenda # <<>> /\ stage # "raised" /\ Flow /\ agenda \in Seq(Events) /\ match \in Match
      /\ Toll /\ Hulls /\ Contested
  BY DEF IInv, Publish, Shape, RInv
<1>2. /\ e \in Events /\ e = agenda[1] /\ 1 \in DOMAIN agenda /\ Tail(agenda) \in Seq(Events)
      /\ Len(agenda) \in Nat /\ DOMAIN agenda = 1 .. Len(agenda) /\ Len(Tail(agenda)) = Len(agenda) - 1
  BY <1>1, Tails
<1>3. /\ stage = "ticked" /\ match.status = "running" /\ e.tick = match.tick + 1 /\ Len(agenda) = 1
  BY <1>1, <1>2 DEF Flow, TicksWait, Running, Kind
<1>4. Tail(agenda) = <<>>
  <2>1. Len(Tail(agenda)) = 0
    BY <1>2, <1>3
  <2> QED  BY <1>2, <2>1, Empty
<1>5. \A i \in DOMAIN agenda : agenda[i] = e
  BY <1>2, <1>3
<1>6. \A m : ~Perishes(agenda, m)
  BY <1>5 DEF Perishes, Destroys
<1>7. Living(match.mechs) = Mechs
  <2>1. \A i \in DOMAIN agenda : ~IsEnd(i)
    BY <1>5 DEF IsEnd, Kind, Terminals
  <2> QED  BY <1>1, <1>3, <1>6, <2>1 DEF Contested, Running
<1>8. \A m \in Mechs : match.mechs[m].alive /\ match.mechs[m].hp # 0
  BY <1>1, <1>6, <1>7 DEF Living, Hulls
<1>9. said.deaths \in [Mechs -> Nat] /\ \A m \in Mechs : said.deaths[m] = 0
  BY <1>1, <1>8 DEF Toll
<1>10. e \in Ticks
  BY <1>2, Kinds
<1>11. f.match \in Match /\ ~f.refused
  <2> HIDE DEF e
  <2> QED  BY <1>1, <1>3, <1>10, FoldsTick
<1>12. \/ /\ f.match.status = "ended" /\ f.out = <<>> /\ f.match.mechs = match.mechs
          /\ f.match.reason = "draw_max_ticks"
          /\ \E v \in Ends : f.nested = <<v>> /\ v.reason = "draw_max_ticks"
       \/ f.match.status = "running" /\ f.nested = <<>> /\ Reported(match, f)
  <2> HIDE DEF e
  <2> QED  BY <1>1, <1>3, <1>7, <1>10, FoldsTickReported
<1>13. /\ match' = f.match /\ said' = Heard(e) /\ agenda' = f.nested \o f.out \o <<>> /\ stage' = stage
  BY <1>4, <1>11 DEF Publish
<1>14. said'.deaths = said.deaths /\ said'.owed = match'.mechs
  BY <1>13 DEF Heard
<1>15. CASE /\ f.match.status = "ended" /\ f.out = <<>> /\ f.match.mechs = match.mechs
            /\ f.match.reason = "draw_max_ticks"
            /\ \E v \in Ends : f.nested = <<v>> /\ v.reason = "draw_max_ticks"
  <2>1. PICK v \in Ends : f.nested = <<v>> /\ v.reason = "draw_max_ticks"
    BY <1>15
  <2>2. agenda' = <<v>>
    <3>1. agenda' = <<v>> \o <<>> \o <<>>
      <4> HIDE DEF f
      <4> QED  BY <1>13, <1>15, <2>1
    <3> QED  BY <3>1
  <2> HIDE DEF f, e
  <2>3. v \in Events /\ v.kind \in Terminals
    BY DEF Events, Ends
  <2>4. DOMAIN agenda' = {1} /\ agenda'[1] = v /\ agenda' \in Seq(Events)
    BY <2>2, <2>3
  <2>5. \A i \in DOMAIN agenda' : agenda'[i] = v
    BY <2>4
  <2>6. v.kind \in TickKinds /\ v.kind \notin {"MATCH_TICK", "MECH_DESTROYED", "PILOT_KILLED", "DAMAGE_APPLIED"}
    BY <2>3 DEF TickKinds, Terminals
  <2>7. match'.mechs = match.mechs /\ match'.status = "ended" /\ match'.reason = "draw_max_ticks"
    BY <1>13, <1>15
  <2>8. Account(match.mechs, match'.mechs, agenda')
    BY <2>5, <2>6, <2>7 DEF Account, Fewer, NoneSpent, Fatal, Unhit, LastHits, ToldOnce, Casualties, Perishes, Hits, Destroys
  <2>9. \A w : Truth(match', w, "draw_max_ticks")
    BY DEF Truth
  <2>10. match' \in Match /\ stage' = "ticked"
    BY <1>3, <1>11, <1>13
  <2>11. \A i \in DOMAIN agenda' : /\ agenda'[i].kind \in TickKinds /\ agenda'[i].kind # "MATCH_TICK"
              /\ agenda'[i].kind \notin {"MECH_DESTROYED", "PILOT_KILLED"}
              /\ Truth(match', agenda'[i].winner, agenda'[i].reason)
    BY <2>1, <2>5, <2>6, <2>9
  <2>12. Truth(match', match'.winner, match'.reason)
    BY <2>7, <2>9
  <2> QED  BY <1>1, <1>7, <1>8, <1>9, <1>14, <2>4, <2>7, <2>8, <2>10, <2>11, <2>12, AccountedTrue
<1>16. CASE f.match.status = "running" /\ f.nested = <<>> /\ Reported(match, f)
  <2> DEFINE s == f.out
  <2>1. /\ s \in Seq(Events) /\ Account(match.mechs, f.match.mechs, s)
        /\ \A i \in DOMAIN s : s[i].kind \in TickKinds /\ s[i].kind # "MATCH_TICK"
        /\ \A i \in DOMAIN s : s[i].kind \in {"MECH_DESTROYED", "PILOT_KILLED"} => Dead(f.match.mechs, s[i])
        /\ (\A i \in DOMAIN s : s[i].kind \notin Terminals) => Living(f.match.mechs) = Mechs
        /\ \A i \in DOMAIN s : s[i].kind \in Terminals => Truth(f.match, s[i].winner, s[i].reason)
    <3> HIDE DEF f
    <3> QED  BY <1>16, ReportedList
  <2>2. agenda' = s
    <3>1. agenda' = <<>> \o s \o <<>>
      <4> HIDE DEF f
      <4> QED  BY <1>13, <1>16
    <3> HIDE DEF s
    <3> QED  BY <2>1, <3>1
  <2>3. match' \in Match /\ stage' = "ticked" /\ match'.status = "running"
    BY <1>3, <1>11, <1>13, <1>16
  <2> HIDE DEF s
  <2>4. match' = f.match
    BY <1>13
  <2> HIDE DEF f, e
  <2> QED  BY <1>1, <1>7, <1>8, <1>9, <1>14, <2>1, <2>2, <2>3, <2>4, AccountedTrue
<1> QED  BY <1>12, <1>15, <1>16

LEMMA PublishTrue ==
    ASSUME IInv, RInv, Publish
    PROVE  RInv'
BY PublishCalmTrue, PublishEndTrue, PublishDeathTrue, PublishTickTrue

LEMMA RaiseTrue ==
    ASSUME Raise
    PROVE  RInv'
BY DEF Raise, RInv

LEMMA StutterTrue ==
    ASSUME RInv, UNCHANGED vars
    PROVE  RInv'
<1>1. UNCHANGED <<match, agenda, stage, said>>
  BY DEF vars
<1>2. Toll' <=> Toll
  BY <1>1 DEF Toll
<1>3. Hulls' <=> Hulls
  BY <1>1 DEF Hulls
<1>4. Contested' <=> Contested
  BY <1>1 DEF Contested, Running, IsEnd, Kind
<1>5. Results' <=> Results
  BY <1>1 DEF Results, Running, IsEnd, Kind
<1>6. Settled' <=> Settled
  BY <1>1 DEF Settled, Running, IsEnd, IsDeath, Known, Kind, Dead
<1>7. Restating' <=> Restating
  BY <1>1 DEF Restating, Kind
<1> QED  BY <1>1, <1>2, <1>3, <1>4, <1>5, <1>6, <1>7 DEF RInv

(* The discards that close the round come in front of the terminal.         *)
LEMMA CloseRoundFirstTrue ==
    ASSUME IInv, RInv, CloseRoundFirst
    PROVE  RInv'
<1>1. /\ agenda # <<>> /\ Head(agenda).kind \in Terminals /\ agenda' = Discards \o agenda
      /\ match' = match /\ stage' = stage /\ said' = said
  BY DEF CloseRoundFirst, ClosesRound
<1>2. agenda \in Seq(Events) /\ stage # "raised" /\ Toll /\ Hulls /\ Contested /\ Results /\ Settled /\ Restating
  BY <1>1 DEF IInv, Shape, RInv
<1>3. 1 \in DOMAIN agenda /\ agenda[1].kind \in Terminals
  BY <1>1, <1>2, Tails
<1>4. Discards \in Seq(Events) /\ Len(Discards) = 1 /\ Discards[1].kind = "CARDS_DISCARDED"
  BY DiscIsEvent
<1>5. /\ Len(agenda) \in Nat /\ DOMAIN agenda = 1 .. Len(agenda)
      /\ \A i \in DOMAIN agenda : i \in Nat /\ i + 1 \in DOMAIN agenda' /\ agenda'[i + 1] = agenda[i]
      /\ \A i \in DOMAIN agenda' : /\ i \in Nat
            /\ IF i <= 1 THEN agenda'[i].kind = "CARDS_DISCARDED"
               ELSE i - 1 \in DOMAIN agenda /\ agenda'[i] = agenda[i - 1]
  <2> DEFINE s == Discards
  <2>1. s \in Seq(Events) /\ Len(s) = 1 /\ s[1].kind = "CARDS_DISCARDED" /\ agenda' = s \o agenda
    BY <1>1, <1>4
  <2> DEFINE t == agenda
  <2>4. t \in Seq(Events) /\ agenda' = s \o t
    BY <1>2, <2>1
  <2> HIDE DEF s, t, Events
  <2>5. /\ DOMAIN (s \o t) = 1 .. Len(s) + Len(t)
        /\ Len(s) \in Nat /\ Len(t) \in Nat /\ DOMAIN s = 1 .. Len(s) /\ DOMAIN t = 1 .. Len(t)
        /\ \A i \in DOMAIN t : i + Len(s) \in DOMAIN (s \o t) /\ (s \o t)[i + Len(s)] = t[i]
        /\ \A i \in DOMAIN (s \o t) : IF i <= Len(s) THEN i \in DOMAIN s /\ (s \o t)[i] = s[i]
                    ELSE i - Len(s) \in DOMAIN t /\ (s \o t)[i] = t[i - Len(s)]
    <3>1. s \in Seq(Events) /\ t \in Seq(Events)
      BY <2>1, <2>4
    <3> QED  BY <3>1, Joined
  <2>2. /\ DOMAIN agenda' = 1 .. Len(s) + Len(agenda) /\ DOMAIN s = 1 .. Len(s)
        /\ Len(agenda) \in Nat /\ DOMAIN agenda = 1 .. Len(agenda)
        /\ \A i \in DOMAIN agenda : i + Len(s) \in DOMAIN agenda' /\ agenda'[i + Len(s)] = agenda[i]
        /\ \A i \in DOMAIN agenda' : IF i <= Len(s) THEN i \in DOMAIN s /\ agenda'[i] = s[i]
                    ELSE i - Len(s) \in DOMAIN agenda /\ agenda'[i] = agenda[i - Len(s)]
    BY <2>4, <2>5 DEF t
  <2>3. DOMAIN s = {1}
    BY <2>1, <2>2
  <2> QED  BY <2>1, <2>2, <2>3
<1>6. \A m : Perishes(agenda', m) <=> Perishes(agenda, m)
  <2>1. ASSUME NEW m, NEW i \in DOMAIN agenda', Destroys(agenda'[i], m)
        PROVE  Perishes(agenda, m)
    <3>1. i - 1 \in DOMAIN agenda /\ agenda'[i] = agenda[i - 1]
      BY <1>5, <2>1 DEF Destroys
    <3> QED  BY <2>1, <3>1 DEF Perishes
  <2>2. ASSUME NEW m, NEW i \in DOMAIN agenda, Destroys(agenda[i], m)
        PROVE  Perishes(agenda', m)
    BY <1>5, <2>2 DEF Perishes
  <2> QED  BY <2>1, <2>2 DEF Perishes
<1>7. Toll'
  <2>1. ASSUME NEW m \in Mechs, NEW i \in DOMAIN agenda', NEW j \in DOMAIN agenda',
               Destroys(agenda'[i], m), Destroys(agenda'[j], m)
        PROVE  i = j
    <3>1. /\ i - 1 \in DOMAIN agenda /\ agenda'[i] = agenda[i - 1] /\ i \in Nat
          /\ j - 1 \in DOMAIN agenda /\ agenda'[j] = agenda[j - 1] /\ j \in Nat
      BY <1>5, <2>1 DEF Destroys
    <3>2. i - 1 = j - 1
      BY <1>2, <2>1, <3>1 DEF Toll, ToldOnce
    <3> QED  BY <3>1, <3>2
  <2>2. ToldOnce(agenda')
    BY <2>1 DEF ToldOnce
  <2> QED  BY <1>1, <1>2, <1>6, <2>2 DEF Toll
<1>8. Hulls'
  <2>1. ASSUME NEW m \in Mechs, NEW i \in DOMAIN agenda', Hits(agenda'[i], m), agenda'[i].after = 0,
               match.mechs[m].alive
        PROVE  \E j \in DOMAIN agenda' : j > i /\ Destroys(agenda'[j], m)
    <3>1. i \in Nat /\ i - 1 \in DOMAIN agenda /\ agenda'[i] = agenda[i - 1]
      BY <1>5, <2>1 DEF Hits
    <3>2. PICK j \in DOMAIN agenda : j > i - 1 /\ Destroys(agenda[j], m)
      BY <1>2, <2>1, <3>1 DEF Hulls
    <3>3. j \in Nat /\ j + 1 \in DOMAIN agenda' /\ agenda'[j + 1] = agenda[j]
      BY <1>5
    <3>4. j + 1 > i /\ Destroys(agenda'[j + 1], m)
      BY <3>1, <3>2, <3>3
    <3> QED  BY <3>3, <3>4
  <2> QED  BY <1>1, <1>2, <1>6, <2>1 DEF Hulls
<1>9. Contested'
  <2>1. \E i \in DOMAIN agenda' : agenda'[i].kind \in Terminals
    BY <1>3, <1>5
  <2> QED  BY <2>1 DEF Contested, IsEnd, Kind
<1>10. ASSUME NEW i \in DOMAIN agenda', agenda'[i].kind # "CARDS_DISCARDED"
       PROVE  i - 1 \in DOMAIN agenda /\ agenda'[i] = agenda[i - 1]
  BY <1>5, <1>10
<1>11. Results'
  <2>1. ASSUME NEW i \in DOMAIN agenda', agenda'[i].kind \in Terminals
        PROVE  Truth(match, agenda'[i].winner, agenda'[i].reason)
    <3>1. agenda'[i].kind # "CARDS_DISCARDED"
      BY <2>1 DEF Terminals
    <3> QED  BY <1>2, <1>10, <2>1, <3>1 DEF Results, IsEnd, Kind
  <2> QED  BY <1>1, <1>2, <2>1 DEF Results, Running, IsEnd, Kind
<1>12. Settled'
  <2>1. ASSUME NEW i \in DOMAIN agenda', agenda'[i].kind = "UTILITY_DEPLOYED"
        PROVE  FALSE
    <3>1. i - 1 \in DOMAIN agenda /\ agenda[i - 1].kind = "UTILITY_DEPLOYED"
      BY <1>10, <2>1
    <3> QED  BY <1>2, <1>3, <3>1 DEF Settled, IsEnd, Kind
  <2>2. ASSUME NEW i \in DOMAIN agenda', agenda'[i].kind \in {"MECH_DESTROYED", "PILOT_KILLED"},
               ~Dead(match.mechs, agenda'[i])
        PROVE  Running
    <3>1. i - 1 \in DOMAIN agenda /\ agenda'[i] = agenda[i - 1]
      BY <1>10, <2>2
    <3> QED  BY <1>2, <2>2, <3>1 DEF Settled, IsDeath, Known, Kind, Dead
  <2> HIDE DEF Dead
  <2> QED  BY <1>1, <2>1, <2>2 DEF Settled, Running, IsDeath, Known, Kind, Dead
<1>13. Restating'
  <2> SUFFICES ASSUME stage = "ticked" PROVE Restating'
    BY <1>1 DEF Restating
  <2>1. \A i \in DOMAIN agenda' : agenda'[i].kind \in TickKinds
    BY <1>2, <1>5 DEF Restating, TickKinds, Kind
  <2>2. Holds(agenda, "MATCH_TICK") => Holds(agenda', "MATCH_TICK")
    BY <1>5 DEF Holds
  <2>3. ASSUME ~Holds(agenda, "MATCH_TICK")
        PROVE  Unhit(match.mechs, said.owed, agenda') /\ LastHits(said.owed, agenda')
    <3>1. Unhit(match.mechs, said.owed, agenda) /\ LastHits(said.owed, agenda)
      BY <1>2, <2>3 DEF Restating
    <3>2. ASSUME NEW m \in Mechs, \A i \in DOMAIN agenda' : ~Hits(agenda'[i], m)
          PROVE  said.owed[m].hp = match.mechs[m].hp
      <4>1. \A i \in DOMAIN agenda : ~Hits(agenda[i], m)
        <5>1. ASSUME NEW i \in DOMAIN agenda PROVE ~Hits(agenda[i], m)
          <6>1. i + 1 \in DOMAIN agenda' /\ agenda'[i + 1] = agenda[i]
            BY <1>5
          <6>2. ~Hits(agenda'[i + 1], m)
            BY <3>2, <6>1
          <6> QED  BY <6>1, <6>2
        <5> QED  BY <5>1
      <4> QED  BY <3>1, <4>1 DEF Unhit
    <3>3. ASSUME NEW m \in Mechs, NEW i \in DOMAIN agenda', Hits(agenda'[i], m),
                 \A j \in DOMAIN agenda' : j > i => ~Hits(agenda'[j], m)
          PROVE  agenda'[i].after = said.owed[m].hp
      <4>1. i \in Nat /\ i - 1 \in DOMAIN agenda /\ agenda'[i] = agenda[i - 1]
        BY <1>5, <3>3 DEF Hits
      <4>2. ASSUME NEW j \in DOMAIN agenda, j > i - 1 PROVE ~Hits(agenda[j], m)
        <5>1. j \in Nat /\ j + 1 \in DOMAIN agenda' /\ agenda'[j + 1] = agenda[j]
          BY <1>5
        <5>2. j + 1 > i
          BY <4>1, <4>2, <5>1
        <5>3. ~Hits(agenda'[j + 1], m)
          BY <3>3, <5>1, <5>2
        <5> QED  BY <5>1, <5>3
      <4> QED  BY <3>1, <3>3, <4>1, <4>2 DEF LastHits
    <3> QED  BY <3>2, <3>3 DEF Unhit, LastHits
  <2> QED  BY <1>1, <1>2, <2>1, <2>2, <2>3 DEF Restating, Kind
<1> QED  BY <1>7, <1>8, <1>9, <1>11, <1>12, <1>13 DEF RInv

(* A step of the runner that leaves nothing but rows, a tick or a terminal. *)
Quietly ==
    /\ Idle /\ match' = match /\ said' = said /\ agenda' \in Seq(Events)
    /\ \A i \in DOMAIN agenda' : agenda'[i].kind \notin
         {"DAMAGE_APPLIED", "MECH_DESTROYED", "PILOT_KILLED", "UTILITY_DEPLOYED"}
    /\ \A i \in DOMAIN agenda' : agenda'[i].kind \in Terminals =>
         Truth(match, agenda'[i].winner, agenda'[i].reason)
    /\ stage' = "ticked" =>
         Holds(agenda', "MATCH_TICK") /\ \A i \in DOMAIN agenda' : agenda'[i].kind \in TickKinds

LEMMA IdleTrue ==
    ASSUME IInv, RInv, Idle
    PROVE  /\ Toll /\ Hulls /\ Contested /\ Results /\ match \in Match
           /\ Running => Living(match.mechs) = Mechs
           /\ ~Running => Truth(match, match.winner, match.reason)
           /\ \A m \in Mechs : match.mechs[m].alive => match.mechs[m].hp # 0
           /\ \A m \in Mechs : said.deaths[m] = IF match.mechs[m].alive THEN 0 ELSE 1
           /\ said.deaths \in [Mechs -> Nat]
<1>1. agenda = <<>> /\ stage # "raised" /\ match \in Match /\ Toll /\ Hulls /\ Contested /\ Results
  BY DEF Idle, RInv, IInv, Shape
<1>2. DOMAIN agenda = {}
  BY <1>1
<1>3. \A m : ~Perishes(agenda, m)
  BY <1>2 DEF Perishes
<1>4. Running => Living(match.mechs) = Mechs
  <2>1. Mechs # {}
    BY TwoMechs
  <2>2. Running => \/ Living(match.mechs) = Mechs
                   \/ Living(match.mechs) # {} /\ \A m \in Living(match.mechs) : Perishes(agenda, m)
    BY <1>1, <1>2 DEF Contested
  <2> QED  BY <1>3, <2>2
<1> QED  BY <1>1, <1>3, <1>4 DEF Toll, Hulls, Results

LEMMA QuietlyTrue ==
    ASSUME IInv, RInv, Quietly
    PROVE  RInv'
<1>1. /\ Idle /\ match' = match /\ said' = said /\ agenda' \in Seq(Events)
      /\ \A i \in DOMAIN agenda' : agenda'[i].kind \notin
           {"DAMAGE_APPLIED", "MECH_DESTROYED", "PILOT_KILLED", "UTILITY_DEPLOYED"}
      /\ \A i \in DOMAIN agenda' : agenda'[i].kind \in Terminals =>
           Truth(match, agenda'[i].winner, agenda'[i].reason)
      /\ stage' = "ticked" =>
           Holds(agenda', "MATCH_TICK") /\ \A i \in DOMAIN agenda' : agenda'[i].kind \in TickKinds
  BY DEF Quietly
<1>2. /\ Running => Living(match.mechs) = Mechs
      /\ ~Running => Truth(match, match.winner, match.reason)
      /\ \A m \in Mechs : match.mechs[m].alive => match.mechs[m].hp # 0
      /\ \A m \in Mechs : said.deaths[m] = IF match.mechs[m].alive THEN 0 ELSE 1
      /\ said.deaths \in [Mechs -> Nat]
  BY <1>1, IdleTrue
<1>3. \A m : \A i \in DOMAIN agenda' : ~Destroys(agenda'[i], m) /\ ~Hits(agenda'[i], m)
  BY <1>1 DEF Destroys, Hits
<1>4. Toll'
  BY <1>1, <1>2, <1>3 DEF Toll, ToldOnce, Perishes
<1>5. Hulls'
  BY <1>1, <1>2, <1>3 DEF Hulls
<1>6. Contested' /\ Results' /\ Settled'
  BY <1>1, <1>2 DEF Contested, Results, Settled, Running, IsEnd, IsDeath, Kind
<1>7. Restating'
  BY <1>1 DEF Restating, Kind
<1> QED  BY <1>4, <1>5, <1>6, <1>7 DEF RInv

LEMMA SilentlyTrue ==
    ASSUME IInv, RInv, Idle, agenda' = <<>>, match' = match, said' = said, stage' # "ticked"
    PROVE  RInv'
<1>1. DOMAIN agenda' = {} /\ agenda' \in Seq(Events)
  OBVIOUS
<1>2. Quietly
  BY <1>1 DEF Quietly
<1> QED  BY <1>2, QuietlyTrue

(* The runner declares a terminal: there is nothing it could get wrong.     *)
LEMMA EndingTrue ==
    ASSUME IInv, RInv, Idle, NEW v \in Ends, v.kind = "MATCH_ENDED", Truth(match, v.winner, v.reason),
           \/ agenda' = Cancelled \o <<v>>
           \/ agenda' = <<v>> \o Cancelled,
           match' = match, said' = said, stage' # "ticked"
    PROVE  RInv'
<1> DEFINE disc == Row("CARDS_DISCARDED")
<1>1. disc \in Events /\ disc.kind = "CARDS_DISCARDED" /\ v \in Events
  BY DiscIsEvent DEF Events
<1>2. Cancelled = <<>> \/ Cancelled = <<disc>>
  BY DEF Cancelled, Discards
<1> HIDE DEF disc
<1>3. agenda' = <<v>> \/ agenda' = <<disc, v>> \/ agenda' = <<v, disc>>
  <2>1. CASE Cancelled = <<>>
    BY <2>1, PairOf
  <2>2. CASE Cancelled = <<disc>>
    <3>1. agenda' = <<disc>> \o <<v>> \/ agenda' = <<v>> \o <<disc>>
      BY <2>2
    <3> QED  BY <3>1, PairOf
  <2> QED  BY <1>2, <2>1, <2>2
<1>4. agenda' \in Seq(Events) /\ \A i \in DOMAIN agenda' : agenda'[i] \in {v, disc}
  <2> HIDE DEF Events
  <2>1. CASE agenda' = <<v>>
    BY <1>1, <2>1
  <2>2. CASE agenda' = <<disc, v>>
    BY <1>1, <2>2
  <2>3. CASE agenda' = <<v, disc>>
    BY <1>1, <2>3
  <2> QED  BY <1>3, <2>1, <2>2, <2>3
<1>5. disc.kind \notin Terminals
  BY <1>1 DEF Terminals
<1>6. Quietly
  BY <1>1, <1>4, <1>5 DEF Quietly
<1> QED  BY <1>6, QuietlyTrue

LEMMA Noncommittal ==
    ASSUME NEW m0, NEW w
    PROVE  \A reason \in {"aborted", "aborted_runaway", "provider_semantic_failure"} : Truth(m0, w, reason)
BY DEF Truth

LEMMA RunawayTrue ==
    ASSUME IInv, RInv, Runaway
    PROVE  RInv'
<1> DEFINE v == Ended(None, "aborted_runaway", "runner")
<1>1. /\ Idle /\ agenda' = Cancelled \o <<v>> /\ match' = match /\ said' = said /\ stage' = "closing"
  BY DEF Runaway
<1>2. v \in Ends /\ v.kind = "MATCH_ENDED" /\ v.reason = "aborted_runaway"
  BY EndedIs DEF Reasons
<1> HIDE DEF v
<1>3. Truth(match, v.winner, v.reason)
  BY <1>2, Noncommittal
<1> QED  BY <1>1, <1>2, <1>3, EndingTrue

LEMMA StoppedTrue ==
    ASSUME IInv, RInv, Stopped
    PROVE  RInv'
<1> DEFINE v == Ended(None, "aborted", "runner")
<1>1. /\ Idle /\ agenda' = <<v>> \o Cancelled /\ match' = match /\ said' = said /\ stage' = "closing"
  BY DEF Stopped
<1>2. v \in Ends /\ v.kind = "MATCH_ENDED" /\ v.reason = "aborted"
  BY EndedIs DEF Reasons
<1> HIDE DEF v
<1>3. Truth(match, v.winner, v.reason)
  BY <1>2, Noncommittal
<1> QED  BY <1>1, <1>2, <1>3, EndingTrue

LEMMA PilotGivesUpTrue ==
    ASSUME IInv, RInv, PilotGivesUp
    PROVE  RInv'
<1>1. PICK reason \in {"aborted", "provider_semantic_failure"} :
            agenda' = <<Ended(None, reason, "runner")>>
  BY DEF PilotGivesUp
<1> DEFINE v == Ended(None, reason, "runner")
<1>2. /\ Idle /\ round = NoRound /\ agenda' = <<v>> /\ match' = match /\ said' = said /\ stage' = "closing"
  BY <1>1 DEF PilotGivesUp
<1>3. v \in Ends /\ v.kind = "MATCH_ENDED" /\ v.reason = reason
  BY EndedIs DEF Reasons
<1> HIDE DEF v
<1>4. Truth(match, v.winner, v.reason)
  BY <1>3, Noncommittal
<1>5. agenda' = Cancelled \o <<v>>
  <2>1. Cancelled = <<>>
    BY <1>2 DEF Cancelled
  <2> QED  BY <1>2, <2>1, PairOf
<1> QED  BY <1>2, <1>3, <1>4, <1>5, EndingTrue

LEMMA CloseTrue ==
    ASSUME IInv, RInv, Close
    PROVE  RInv'
<1> DEFINE v == Ended(match.winner, match.reason, "runner")
<1>1. /\ Idle /\ stage = "closing" /\ stage' = "done" /\ match' = match /\ said' = said
      /\ agenda' = IF Restates THEN <<v>> ELSE <<>>
  BY DEF Close
<1>2. /\ ~Running /\ match.reason # None /\ Cancelled = <<>> /\ Shape
  BY <1>1, Idling
<1>3. v \in Ends /\ v.kind = "MATCH_ENDED" /\ v.winner = match.winner /\ v.reason = match.reason
  <2>1. match.winner \in Mechs \cup {None} /\ match.reason \in Reasons
    BY <1>2 DEF Shape, Match
  <2> QED  BY <2>1, EndedIs
<1> HIDE DEF v
<1>4. Truth(match, v.winner, v.reason)
  BY <1>1, <1>2, <1>3, IdleTrue
<1>5. CASE Restates
  <2>1. agenda' = Cancelled \o <<v>>
    BY <1>1, <1>2, <1>5, PairOf
  <2> QED  BY <1>1, <1>3, <1>4, <2>1, EndingTrue
<1>6. CASE ~Restates
  BY <1>1, <1>6, SilentlyTrue
<1> QED  BY <1>5, <1>6

LEMMA BeginTickTrue ==
    ASSUME IInv, RInv, BeginTick
    PROVE  RInv'
<1> DEFINE t == Tick(match.tick + 1)
           disc == Row("CARDS_DISCARDED")
           cut == CapClosesRound(match.tick + 1)
<1>1. /\ Idle /\ agenda' = (IF cut THEN Discards ELSE <<>>) \o <<t>>
      /\ match' = match /\ said' = said
  BY DEF BeginTick
<1>2. disc.kind = "CARDS_DISCARDED" /\ t.kind = "MATCH_TICK"
  BY DiscIsEvent DEF Tick
<1>3. agenda' \in Seq(Events)
  BY BeginTickKeeps DEF IInv, Shape
<1>4. agenda' = <<t>> \/ agenda' = <<disc, t>>
  <2>1. CASE cut
    <3>1. agenda' = <<disc>> \o <<t>>
      BY <1>1, <2>1 DEF Discards
    <3> HIDE DEF disc, t, cut
    <3> QED  BY <3>1, PairOf
  <2>2. CASE ~cut
    <3>1. agenda' = <<>> \o <<t>>
      BY <1>1, <2>2
    <3> HIDE DEF disc, t, cut
    <3> QED  BY <3>1, PairOf
  <2> QED  BY <2>1, <2>2
<1> HIDE DEF disc, t, cut
<1>5. /\ \A i \in DOMAIN agenda' : agenda'[i] \in {t, disc}
      /\ \E i \in DOMAIN agenda' : agenda'[i] = t
  <2>1. CASE agenda' = <<t>>
    BY <2>1
  <2>2. CASE agenda' = <<disc, t>>
    <3>1. DOMAIN agenda' = {1, 2} /\ agenda'[1] = disc /\ agenda'[2] = t
      BY <2>2
    <3> QED  BY <3>1
  <2> QED  BY <1>4, <2>1, <2>2
<1>6. Holds(agenda', "MATCH_TICK")
  BY <1>2, <1>5 DEF Holds
<1>7. \A i \in DOMAIN agenda' : agenda'[i].kind \in {"CARDS_DISCARDED", "MATCH_TICK"}
  BY <1>2, <1>5
<1>8. \A i \in DOMAIN agenda' : agenda'[i].kind \in TickKinds /\ agenda'[i].kind \notin Terminals
  BY <1>7 DEF TickKinds, Terminals
<1>9. Quietly
  BY <1>1, <1>3, <1>6, <1>7, <1>8 DEF Quietly
<1> QED  BY <1>9, QuietlyTrue

(* The steps that publish nothing.                                          *)
LEMMA PausesTrue ==
    ASSUME IInv, RInv,
           \/ TickWasLast \/ PilotsDecide \/ DealAtomicRound \/ SuppressRound \/ PaceRegister
           \/ CutTick \/ RowsPublished \/ LeaveLoop
    PROVE  RInv'
<1>1. CASE TickWasLast
  <2>1. /\ Idle /\ ~Running /\ stage' = "closing" /\ match' = match /\ said' = said
        /\ agenda' = (IF Cancelled # <<>> /\ said.ends = 0
                    THEN <<Ended(match.winner, match.reason, "runner")>> ELSE <<>>) \o Cancelled
    BY <1>1 DEF TickWasLast
  <2>2. Cancelled = <<>>
    BY <2>1, Idling
  <2>3. agenda' = <<>>
    BY <2>1, <2>2
  <2> QED  BY <2>1, <2>3, SilentlyTrue
<1>2. CASE PilotsDecide \/ DealAtomicRound \/ SuppressRound \/ PaceRegister
  <2>1. Idle /\ agenda' = <<>> /\ match' = match /\ said' = said /\ stage' # "ticked"
    BY <1>2 DEF PilotsDecide, DealAtomicRound, SuppressRound, PaceRegister, Idle
  <2> QED  BY <2>1, SilentlyTrue
<1>3. CASE CutTick
  <2>1. /\ Idle /\ ~Running /\ stage' = "after" /\ match' = match /\ said' = said
        /\ agenda' = (IF Cancelled # <<>> /\ said.ends = 0
                    THEN <<Ended(match.winner, match.reason, "runner")>> ELSE <<>>) \o Cancelled
    BY <1>3 DEF CutTick, CutShort
  <2>2. Cancelled = <<>>
    BY <2>1, Idling
  <2>3. agenda' = <<>>
    BY <2>1, <2>2
  <2> QED  BY <2>1, <2>3, SilentlyTrue
<1>4. CASE RowsPublished
  <2>1. Idle /\ agenda' = <<>> /\ match' = match /\ said' = said /\ stage' # "ticked"
    BY <1>4 DEF RowsPublished, Idle
  <2> QED  BY <2>1, SilentlyTrue
<1>5. CASE LeaveLoop
  <2>1. /\ Idle /\ ~Running /\ stage' = "closing" /\ match' = match /\ said' = said
        /\ agenda' = IF stage = "after" THEN Cancelled ELSE <<>>
    BY <1>5 DEF LeaveLoop
  <2>2. Cancelled = <<>>
    BY <2>1, Idling
  <2>3. agenda' = <<>>
    BY <2>1, <2>2
  <2> QED  BY <2>1, <2>3, SilentlyTrue
<1> QED  BY <1>1, <1>2, <1>3, <1>4, <1>5

(* Events that kill only the living, each once, and of those they leave     *)
(* without hit points each.                                                 *)
Deadly(r) ==
    /\ r \in Seq(Events)
    /\ \A i \in DOMAIN r : r[i].kind \notin Terminals \cup {"PILOT_KILLED", "MATCH_TICK"}
    /\ \A i \in DOMAIN r : r[i].kind = "MECH_DESTROYED" =>
         /\ r[i].mech \in Living(match.mechs)
         /\ \A j \in DOMAIN r : r[j].kind = "MECH_DESTROYED" /\ r[j].mech = r[i].mech => i = j
    /\ \A i \in DOMAIN r : r[i].kind = "DAMAGE_APPLIED" /\ r[i].after = 0 =>
         \E j \in DOMAIN r : j > i /\ r[j].kind = "MECH_DESTROYED" /\ r[j].mech = r[i].mech
    /\ \A i \in DOMAIN r : r[i].kind = "UTILITY_DEPLOYED" =>
         i = Len(r) /\ \A j \in DOMAIN r : r[j].kind # "MECH_DESTROYED"

LEMMA DeadlyTrue ==
    ASSUME IInv, RInv, Idle, Running, match' = match, said' = said, stage' # "ticked", Deadly(agenda')
    PROVE  RInv'
<1>1. /\ Living(match.mechs) = Mechs
      /\ \A m \in Mechs : match.mechs[m].alive => match.mechs[m].hp # 0
      /\ \A m \in Mechs : said.deaths[m] = IF match.mechs[m].alive THEN 0 ELSE 1
      /\ said.deaths \in [Mechs -> Nat]
  BY IdleTrue
<1>2. \A m \in Mechs : match.mechs[m].alive
  BY <1>1 DEF Living
<1>3. /\ \A i \in DOMAIN agenda' : agenda'[i].kind \notin Terminals \cup {"PILOT_KILLED", "MATCH_TICK"}
      /\ \A i, j \in DOMAIN agenda' : agenda'[i].kind = "MECH_DESTROYED" /\ agenda'[j].kind = "MECH_DESTROYED"
           /\ agenda'[i].mech = agenda'[j].mech => i = j
      /\ \A i \in DOMAIN agenda' : agenda'[i].kind = "DAMAGE_APPLIED" /\ agenda'[i].after = 0 =>
           \E j \in DOMAIN agenda' : j > i /\ agenda'[j].kind = "MECH_DESTROYED" /\ agenda'[j].mech = agenda'[i].mech
      /\ \A i \in DOMAIN agenda' : agenda'[i].kind = "UTILITY_DEPLOYED" =>
           i = Len(agenda') /\ \A j \in DOMAIN agenda' : agenda'[j].kind # "MECH_DESTROYED"
  BY DEF Deadly
<1>4. Toll'
  BY <1>1, <1>2, <1>3 DEF Toll, ToldOnce, Destroys
<1>5. Hulls'
  BY <1>1, <1>3 DEF Hulls, Hits, Destroys
<1>6. Contested' /\ Results'
  BY <1>1, <1>3 DEF Contested, Results, Running, IsEnd, Kind
<1>7. Settled'
  BY <1>3 DEF Settled, Running, IsEnd, IsDeath, Kind
<1>8. Restating'
  BY DEF Restating
<1> QED  BY <1>4, <1>5, <1>6, <1>7, <1>8 DEF RInv

(* A row in front of them changes nothing.                                  *)
LEMMA DeadlyBehind ==
    ASSUME NEW e \in Events, e.kind \notin Terminals,
           e.kind \notin {"PILOT_KILLED", "MATCH_TICK", "MECH_DESTROYED", "DAMAGE_APPLIED", "UTILITY_DEPLOYED"},
           NEW r, Deadly(r), NEW s, s = <<e>> \o r
    PROVE  Deadly(s)
<1>1. /\ s \in Seq(Events) /\ Len(s) = Len(r) + 1 /\ Len(r) \in Nat
      /\ \A i \in DOMAIN s : i \in Nat /\ (s[i] = e \/ (i - 1 \in DOMAIN r /\ s[i] = r[i - 1]))
      /\ \A i \in DOMAIN r : i \in Nat /\ i + 1 \in DOMAIN s /\ s[i + 1] = r[i]
  <2>1. r \in Seq(Events)
    BY DEF Deadly
  <2> HIDE DEF Events
  <2>2. /\ s \in Seq(Events) /\ DOMAIN s = 1 .. 1 + Len(r) /\ Len(r) \in Nat /\ DOMAIN r = 1 .. Len(r)
        /\ s[1] = e
        /\ \A i \in DOMAIN s : i # 1 => i \in Nat /\ i - 1 \in DOMAIN r /\ s[i] = r[i - 1]
    BY <2>1
  <2>3. \A i \in DOMAIN r : i \in Nat /\ i + 1 \in DOMAIN s /\ (i + 1) - 1 = i /\ i + 1 # 1
    BY <2>2
  <2> QED  BY <2>2, <2>3
<1>2. \A i \in DOMAIN s : s[i].kind \notin Terminals \cup {"PILOT_KILLED", "MATCH_TICK"}
  BY <1>1 DEF Deadly
<1>3. ASSUME NEW i \in DOMAIN s, s[i].kind = "MECH_DESTROYED"
      PROVE  /\ s[i].mech \in Living(match.mechs)
             /\ \A j \in DOMAIN s : s[j].kind = "MECH_DESTROYED" /\ s[j].mech = s[i].mech => i = j
  <2>1. i - 1 \in DOMAIN r /\ s[i] = r[i - 1] /\ i \in Nat
    BY <1>1, <1>3
  <2>2. ASSUME NEW j \in DOMAIN s, s[j].kind = "MECH_DESTROYED", s[j].mech = s[i].mech
        PROVE  i = j
    <3>1. j - 1 \in DOMAIN r /\ s[j] = r[j - 1] /\ j \in Nat
      BY <1>1, <2>2
    <3>2. i - 1 = j - 1
      BY <1>3, <2>1, <2>2, <3>1 DEF Deadly
    <3> QED  BY <2>1, <3>1, <3>2
  <2>3. s[i].mech \in Living(match.mechs)
    BY <1>3, <2>1 DEF Deadly
  <2> QED  BY <2>2, <2>3
<1>4. ASSUME NEW i \in DOMAIN s, s[i].kind = "DAMAGE_APPLIED", s[i].after = 0
      PROVE  \E j \in DOMAIN s : j > i /\ s[j].kind = "MECH_DESTROYED" /\ s[j].mech = s[i].mech
  <2>1. i - 1 \in DOMAIN r /\ s[i] = r[i - 1] /\ i \in Nat
    BY <1>1, <1>4
  <2>2. PICK j \in DOMAIN r : j > i - 1 /\ r[j].kind = "MECH_DESTROYED" /\ r[j].mech = s[i].mech
    BY <1>4, <2>1 DEF Deadly
  <2>3. j \in Nat /\ j + 1 \in DOMAIN s /\ s[j + 1] = r[j]
    BY <1>1
  <2>4. j + 1 > i
    BY <2>1, <2>2, <2>3
  <2> QED  BY <2>2, <2>3, <2>4
<1>5. ASSUME NEW i \in DOMAIN s, s[i].kind = "UTILITY_DEPLOYED"
      PROVE  i = Len(s) /\ \A j \in DOMAIN s : s[j].kind # "MECH_DESTROYED"
  <2>1. i - 1 \in DOMAIN r /\ s[i] = r[i - 1] /\ i \in Nat
    BY <1>1, <1>5
  <2>2. i - 1 = Len(r) /\ \A j \in DOMAIN r : r[j].kind # "MECH_DESTROYED"
    BY <1>5, <2>1 DEF Deadly
  <2> QED  BY <1>1, <2>1, <2>2
<1> QED  BY <1>1, <1>2, <1>3, <1>4, <1>5 DEF Deadly

(* A list of one event, or of none, kills nobody.                           *)
LEMMA MildList ==
    ASSUME NEW r \in Seq(Events), Len(r) <= 1,
           \A i \in DOMAIN r : r[i].kind \notin Terminals \cup
              {"PILOT_KILLED", "MATCH_TICK", "MECH_DESTROYED", "DAMAGE_APPLIED"}
    PROVE  Deadly(r)
<1>1. \A i \in DOMAIN r : i = Len(r)
  <2> HIDE DEF Events
  <2> QED  OBVIOUS
<1> QED  BY <1>1 DEF Deadly

LEMMA HitsDeadly ==
    ASSUME match \in Match, NEW m \in Mechs, Opponent(m) \in Living(match.mechs)
    PROVE  Deadly(HitResults(m))
<1> DEFINE o == Opponent(m)
           target == match.mechs[o]
           absorbed == Low(target.armor, Rules.fireDamage)
           after == High(0, target.hp - (Rules.fireDamage - absorbed))
           a == About("WEAPON_FIRED", m, "runner")
           b == About("HIT_RESOLVED", m, "runner")
           c == Absorbed(o, target.armor - absorbed)
           d == Damage(o, after, "runner")
           k == About("MECH_DESTROYED", o, "runner")
           r == HitResults(m)
           pre == <<a, b, c, d>>
           post == IF after = 0 THEN <<k>> ELSE <<>>
<1>1. r \in Seq(Events)
  BY HitsFit DEF Fit
<1>2. r = pre \o post
  BY DEF HitResults
<1>3. /\ a.kind = "WEAPON_FIRED" /\ b.kind = "HIT_RESOLVED" /\ c.kind = "ARMOR_ABSORBED"
      /\ d.kind = "DAMAGE_APPLIED" /\ d.mech = o /\ d.after = after
      /\ k.kind = "MECH_DESTROYED" /\ k.mech = o
  BY DEF About, Absorbed, Damage
<1> HIDE DEF r, a, b, c, d, k, after
<1>4. /\ Len(pre) = 4 /\ DOMAIN pre = 1 .. 4
      /\ pre[1] = a /\ pre[2] = b /\ pre[3] = c /\ pre[4] = d
  OBVIOUS
<1>5. /\ Len(post) \in {0, 1} /\ DOMAIN post = 1 .. Len(post)
      /\ Len(post) = 1 <=> after = 0
      /\ \A i \in DOMAIN post : post[i] = k
  <2>1. CASE after = 0
    BY <2>1
  <2>2. CASE after # 0
    BY <2>2
  <2> QED  BY <2>1, <2>2
<1>6. pre \in Seq({a, b, c, d, k}) /\ post \in Seq({a, b, c, d, k})
  <2>1. pre \in Seq({a, b, c, d, k})
    OBVIOUS
  <2>2. post \in Seq({a, b, c, d, k})
    <3>1. CASE after = 0
      BY <3>1
    <3>2. CASE after # 0
      BY <3>2
    <3> QED  BY <3>1, <3>2
  <2> QED  BY <2>1, <2>2
<1> HIDE DEF pre, post
<1>7. /\ DOMAIN r = 1 .. 4 + Len(post) /\ Len(r) = 4 + Len(post)
      /\ r[1] = a /\ r[2] = b /\ r[3] = c /\ r[4] = d
      /\ after = 0 => 5 \in DOMAIN r /\ r[5] = k
      /\ \A i \in DOMAIN r : i > 4 => i = 5 /\ r[i] = k
  <2> DEFINE S == {a, b, c, d, k}
  <2>1. pre \in Seq(S) /\ post \in Seq(S)
    BY <1>6
  <2> HIDE DEF S
  <2>2. /\ pre \o post \in Seq(S) /\ DOMAIN (pre \o post) = 1 .. Len(pre) + Len(post)
        /\ \A i \in DOMAIN pre : (pre \o post)[i] = pre[i]
        /\ \A i \in DOMAIN post : i + Len(pre) \in DOMAIN (pre \o post) /\ (pre \o post)[i + Len(pre)] = post[i]
        /\ \A i \in DOMAIN (pre \o post) : IF i <= Len(pre) THEN i \in DOMAIN pre /\ (pre \o post)[i] = pre[i]
                  ELSE i - Len(pre) \in DOMAIN post /\ (pre \o post)[i] = post[i - Len(pre)]
    BY <2>1, Joined
  <2>3. DOMAIN r = 1 .. 4 + Len(post) /\ r \in Seq(S) /\ Len(r) = 4 + Len(post)
    BY <1>2, <1>4, <1>5, <2>2
  <2>4. r[1] = a /\ r[2] = b /\ r[3] = c /\ r[4] = d
    BY <1>2, <1>4, <2>2
  <2>5. after = 0 => 5 \in DOMAIN r /\ r[5] = k
    <3> HAVE after = 0
    <3>1. 1 \in DOMAIN post /\ post[1] = k
      BY <1>5
    <3>2. 1 + Len(pre) \in DOMAIN (pre \o post) /\ (pre \o post)[1 + Len(pre)] = post[1]
      BY <2>2, <3>1
    <3> QED  BY <1>2, <1>4, <3>1, <3>2
  <2>6. ASSUME NEW i \in DOMAIN r, i > 4
        PROVE  i = 5 /\ r[i] = k
    <3>1. i \in Nat /\ i <= 5
      <4> DEFINE n == Len(post)
      <4>1. n \in {0, 1} /\ i \in 1 .. 4 + n
        BY <1>5, <2>3
      <4> HIDE DEF n
      <4> QED  BY <4>1
    <3>2. i = 5
      BY <2>6, <3>1
    <3>3. after = 0
      BY <1>5, <2>3, <2>6, <3>2
    <3> QED  BY <2>5, <3>2, <3>3
  <2> QED  BY <2>3, <2>4, <2>5, <2>6
<1>8. ASSUME NEW i \in DOMAIN r
      PROVE  \/ r[i] \in {a, b, c} \/ (i = 4 /\ r[i] = d) \/ (i = 5 /\ r[i] = k)
  <2>1. i \in Nat /\ i >= 1
    BY <1>5, <1>7
  <2>2. i = 1 \/ i = 2 \/ i = 3 \/ i = 4 \/ i > 4
    BY <2>1
  <2> QED  BY <1>7, <2>2
<1>9. \A i \in DOMAIN r : r[i].kind \in {"WEAPON_FIRED", "HIT_RESOLVED", "ARMOR_ABSORBED", "DAMAGE_APPLIED", "MECH_DESTROYED"}
  BY <1>3, <1>8
<1>10. \A i \in DOMAIN r : r[i].kind \notin Terminals \cup {"PILOT_KILLED", "MATCH_TICK", "UTILITY_DEPLOYED"}
  BY <1>9 DEF Terminals
<1>11. \A i \in DOMAIN r : r[i].kind = "MECH_DESTROYED" => i = 5 /\ r[i].mech = o
  BY <1>3, <1>8
<1>12. \A i \in DOMAIN r : r[i].kind = "DAMAGE_APPLIED" /\ r[i].after = 0 =>
         \E j \in DOMAIN r : j > i /\ r[j].kind = "MECH_DESTROYED" /\ r[j].mech = r[i].mech
  <2>1. ASSUME NEW i \in DOMAIN r, r[i].kind = "DAMAGE_APPLIED", r[i].after = 0
        PROVE  i = 4 /\ r[i].mech = o /\ 5 \in DOMAIN r /\ r[5] = k
    BY <1>3, <1>7, <1>8, <2>1
  <2> QED  BY <1>3, <2>1
<1>13. Deadly(r)
  BY <1>1, <1>10, <1>11, <1>12 DEF Deadly
<1> QED  BY <1>13 DEF r

LEMMA HarmlessOne ==
    ASSUME NEW kind \in {"WEAPON_FIRED", "WEAPON_FIRE_REJECTED", "UTILITY_DEPLOYED"}, NEW m \in Mechs
    PROVE  Deadly(<<About(kind, m, "runner")>>)
<1> DEFINE e == About(kind, m, "runner")
           r == <<e>>
<1>1. e \in Events /\ e.kind = kind
  BY Steam
<1> HIDE DEF e
<1>2. r \in Seq(Events) /\ Len(r) <= 1 /\ \A i \in DOMAIN r : r[i] = e
  <2> HIDE DEF Events
  <2> QED  BY <1>1
<1>3. e.kind \notin Terminals \cup {"PILOT_KILLED", "MATCH_TICK", "MECH_DESTROYED", "DAMAGE_APPLIED"}
  BY <1>1 DEF Terminals
<1> HIDE DEF r
<1>4. Deadly(r)
  BY <1>2, <1>3, MildList
<1> QED  BY <1>4 DEF r, e

LEMMA NoneDeadly == Deadly(<<>>)
<1>1. <<>> \in Seq(Events) /\ Len(<<>>) <= 1 /\ DOMAIN <<>> = {}
  OBVIOUS
<1> QED  BY <1>1, MildList

LEMMA MovesDeadly ==
    ASSUME match \in Match, NEW m \in Mechs, NEW r \in MoveResults(m) \cup SwitchResults(m)
    PROVE  Deadly(r)
<1>1. CASE r = <<>>
  BY <1>1, NoneDeadly
<1>2. CASE r # <<>>
  <2>1. r \in Seq(Events)
    <3>1. Fit(r, m)
      BY MovesFit, SwitchesFit
    <3> QED  BY <3>1 DEF Fit
  <2>2. PICK e : r = <<e>> /\ e.kind \in {"MOVEMENT_RESOLVED", "MODE_TRANSITION_STARTED"}
    <3>1. CASE r \in MoveResults(m)
      <4>1. PICK to \in Cells : r = <<Moved(m, match.mechs[m].cell, to)>>
        BY <1>2, <3>1 DEF MoveResults
      <4> QED  BY <4>1 DEF Moved
    <3>2. CASE r \in SwitchResults(m)
      <4>1. PICK to \in Modes : r = <<Switching(m, match.mechs[m].mode, to)>>
        BY <1>2, <3>2 DEF SwitchResults
      <4> QED  BY <4>1 DEF Switching
    <3> QED  BY <3>1, <3>2
  <2>3. Len(r) <= 1 /\ \A i \in DOMAIN r : r[i] = e
    BY <2>2
  <2>4. \A i \in DOMAIN r : r[i].kind \notin Terminals \cup
              {"PILOT_KILLED", "MATCH_TICK", "MECH_DESTROYED", "DAMAGE_APPLIED"}
    BY <2>2, <2>3 DEF Terminals
  <2> QED  BY <2>1, <2>3, <2>4, MildList
<1> QED  BY <1>1, <1>2

(* An intent kills at most the living opponent.                             *)
LEMMA ResolutionsDeadly ==
    ASSUME match \in Match, NEW m \in Mechs, NEW r \in Resolutions(m)
    PROVE  Deadly(r)
<1>1. PICK a \in Acts[m] : r \in (CASE a = "move" -> MoveResults(m)
             [] a = "fire" -> FireResults(m)
             [] a = "switch" -> SwitchResults(m)
             [] a = "utility" -> {<<About("UTILITY_DEPLOYED", m, "runner")>>}
             [] a = "vent" -> {<<>>})
  BY DEF Resolutions
<1>2. a \in {"move", "fire", "switch", "utility", "vent"}
  <2>1. Acts[m] \in SUBSET {"move", "fire", "switch", "utility", "vent"}
    BY RunnerAssumption DEF RunnerAssumption
  <2> QED  BY <2>1
<1>4. CASE a = "move" \/ a = "switch"
  <2>1. r \in MoveResults(m) \cup SwitchResults(m)
    BY <1>1, <1>4
  <2> QED  BY <2>1, MovesDeadly
<1>6. CASE a = "fire"
  <2>1. r \in FireResults(m)
    BY <1>1, <1>6
  <2>2. \/ r = <<About("WEAPON_FIRE_REJECTED", m, "runner")>> \/ r = <<About("WEAPON_FIRED", m, "runner")>>
        \/ CanFire(m) /\ r = HitResults(m)
    BY <2>1 DEF FireResults
  <2>3. CASE CanFire(m) /\ r = HitResults(m)
    <3>1. Opponent(m) \in Mechs
      BY TheOpponent, TheOther
    <3>2. Opponent(m) \in Living(match.mechs)
      BY <2>3, <3>1 DEF CanFire, Living
    <3> QED  BY <2>3, <3>2, HitsDeadly
  <2> QED  BY <2>2, <2>3, HarmlessOne
<1>7. CASE a = "utility"
  <2>1. r = <<About("UTILITY_DEPLOYED", m, "runner")>>
    BY <1>1, <1>7
  <2> QED  BY <2>1, HarmlessOne
<1>8. CASE a = "vent"
  <2>1. r = <<>>
    BY <1>1, <1>8
  <2> QED  BY <2>1, NoneDeadly
<1> QED  BY <1>2, <1>4, <1>6, <1>7, <1>8

LEMMA ActTrue ==
    ASSUME IInv, RInv, Act
    PROVE  RInv'
<1> DEFINE e == Head(todo)
           able == e.kind = "INTENT" /\ Able(e.mech)
<1>1. /\ Idle /\ stage = "acting" /\ todo # <<>> /\ todo' = Tail(todo)
      /\ match' = match /\ stage' = stage /\ said' = said
  BY DEF Act
<1>2. PICK r \in (IF able THEN Resolutions(e.mech) ELSE {<<>>}) : agenda' = <<e>> \o r
  BY DEF Act
<1>3. Shape /\ RowsWait /\ match \in Match
  <2>1. Shape /\ RowsWait
    BY <1>1, Idling
  <2> QED  BY <2>1 DEF Shape
<1>4. e \in RowEvents
  <2> HIDE DEF RowEvents
  <2> QED  BY <1>1, <1>3, Remaining
<1>5. /\ e \in Events /\ e.kind \notin Terminals
      /\ e.kind \notin {"PILOT_KILLED", "MATCH_TICK", "MECH_DESTROYED", "DAMAGE_APPLIED", "UTILITY_DEPLOYED"}
      /\ e.kind = "INTENT" => e.mech \in Mechs
  <2> HIDE DEF RowEvents, e
  <2> QED  BY <1>4, RowKinds
<1>6. Deadly(r)
  <2>1. CASE able
    <3>1. r \in Resolutions(e.mech) /\ e.mech \in Mechs
      BY <1>2, <1>5, <2>1
    <3> HIDE DEF e
    <3> QED  BY <1>3, <3>1, ResolutionsDeadly
  <2>2. CASE ~able
    <3>1. r = <<>>
      BY <1>2, <2>2
    <3> QED  BY <3>1, NoneDeadly
  <2> QED  BY <2>1, <2>2
<1>7. CASE able
  <2>1. Running
    BY <1>7 DEF Able
  <2> DEFINE s == agenda'
  <2>2. s = <<e>> \o r
    BY <1>2
  <2> HIDE DEF s, e
  <2>3. Deadly(s)
    BY <1>5, <1>6, <2>2, DeadlyBehind
  <2>4. Deadly(agenda')
    BY <2>3 DEF s
  <2> QED  BY <1>1, <2>1, <2>4, DeadlyTrue
<1>8. CASE ~able
  <2>1. agenda' = <<e>>
    <3>1. r = <<>>
      BY <1>2, <1>8
    <3> HIDE DEF e
    <3> QED  BY <1>2, <3>1, PairOf
  <2> HIDE DEF e, Events
  <2>2. agenda' \in Seq(Events) /\ \A i \in DOMAIN agenda' : agenda'[i] = e
    BY <1>5, <2>1
  <2>3. Quietly
    BY <1>1, <1>5, <2>2 DEF Quietly
  <2> QED  BY <2>3, QuietlyTrue
<1> QED  BY <1>7, <1>8

LEMMA AfterTickTrue ==
    ASSUME IInv, RInv, AfterTick
    PROVE  RInv'
<1>1. /\ Idle /\ Running /\ agenda' \in SuddenDeath /\ stage' = "top" /\ match' = match /\ said' = said
  BY DEF AfterTick
<1>2. match \in Match
  BY DEF IInv, Shape
<1>3. Pulsed(agenda')
  BY <1>1, <1>2, SuddenDeathIs
<1>4. \A i \in DOMAIN agenda' : agenda'[i].kind \notin Terminals \cup {"PILOT_KILLED", "MATCH_TICK", "UTILITY_DEPLOYED"}
  BY <1>3 DEF Pulsed, Terminals
<1>5. Deadly(agenda')
  BY <1>3, <1>4 DEF Pulsed, Deadly
<1> QED  BY <1>1, <1>5, DeadlyTrue

LEMMA InitTrue ==
    ASSUME Init
    PROVE  RInv
<1>1. agenda = <<>> /\ stage = "top" /\ said = Silence /\ DOMAIN agenda = {}
  BY DEF Init
<1>2. PICK max \in TickCaps, lucky \in Lucks, cells \in Starts : match = NewMatch(max, lucky, cells)
  BY DEF Init
<1>3. /\ Running
      /\ \A m \in Mechs : match.mechs[m].alive /\ match.mechs[m].pilot /\ match.mechs[m].hp = Rules.hp
  BY <1>2 DEF NewMatch, NewMech, Running
<1>4. Rules.hp # 0
  BY Numbers, FoldAssumption DEF FoldAssumption
<1>5. Living(match.mechs) = Mechs
  BY <1>3 DEF Living
<1>6. said.deaths = [m \in Mechs |-> 0]
  BY <1>1 DEF Silence
<1>7. Toll
  BY <1>1, <1>3, <1>6 DEF Toll, ToldOnce
<1>8. Hulls
  BY <1>1, <1>3, <1>4 DEF Hulls
<1>9. Contested /\ Results /\ Settled
  BY <1>1, <1>3, <1>5 DEF Contested, Results, Settled
<1>10. Restating
  BY <1>1 DEF Restating
<1> QED  BY <1>7, <1>8, <1>9, <1>10 DEF RInv

(* A match that goes on has no result yet.                                  *)
Undecided == Running => match.reason = None

LEMMA PublishUndecided ==
    ASSUME IInv, Undecided, Publish
    PROVE  Undecided'
<1> DEFINE e == Head(agenda)
           f == Delta(match, e)
<1>1. Shape /\ stage # "raised" /\ Flow /\ match \in Match /\ agenda # <<>> /\ match' = f.match
  <2>1. agenda # <<>> /\ match' = f.match
    BY DEF Publish
  <2>2. agenda # <<>> => stage # "raised"
    BY DEF IInv
  <2>3. Shape /\ Flow
    BY <2>1, <2>2 DEF IInv
  <2> QED  BY <2>1, <2>2, <2>3 DEF Shape
<1>2. e = agenda[1] /\ 1 \in DOMAIN agenda /\ e \in Events
  BY <1>1, Tails DEF Shape
<1> SUFFICES ASSUME f.match.status = "running"
             PROVE  f.match.reason = None
  BY <1>1 DEF Undecided, Running
<1>3. CASE e \in Ticks
  <2>1. e.kind = "MATCH_TICK" /\ e.tick \in Nat
    BY <1>3 DEF Ticks
  <2>2. match.status = "running" /\ e.tick = match.tick + 1
    BY <1>1, <1>2, <2>1 DEF Flow, TicksWait, Kind, Running
  <2>3. f = FoldTick(match, e)
    BY <2>1 DEF Delta, Terminals
  <2>4. CASE match.max # 0 /\ e.tick >= match.max
    <3>1. f = ClockEnds(match, e.tick)
      BY <2>2, <2>3, <2>4 DEF FoldTick
    <3>2. f.match.status = "ended"
      <4> HIDE DEF e
      <4> QED  BY <1>1, <2>1, <3>1, ClockTells
    <3> QED  BY <3>2
  <2>5. CASE ~(match.max # 0 /\ e.tick >= match.max)
    <3> DEFINE mid == [match EXCEPT !.tick = e.tick]
    <3>1. f = TickEffects(mid, e.tick)
      BY <2>2, <2>3, <2>5 DEF FoldTick
    <3>2. mid \in Match /\ mid.reason = match.reason
      <4> HIDE DEF e
      <4> QED  BY <1>1, <2>1 DEF Match
    <3> HIDE DEF mid, e
    <3>3. Quiet(mid, f.match)
      BY <2>1, <3>1, <3>2, TickTells
    <3> QED  BY <2>2, <3>2, <3>3 DEF Quiet, Undecided, Running
  <2> QED  BY <2>4, <2>5
<1>4. CASE e \in Ends
  <2>1. IsEnd(1)
    BY <1>2, <1>4, Kinds DEF IsEnd, Kind
  <2>2. match.status # "running" => match.winner = e.winner /\ match.reason = e.reason
    BY <1>1, <1>2, <2>1 DEF Flow, EndsWait, Running
  <2>3. f.match.status = "ended"
    <3> HIDE DEF e
    <3> QED  BY <1>1, <1>4, <2>2, FoldsEnd
  <2> QED  BY <2>3
<1>5. ASSUME Quiet(match, f.match)
      PROVE  f.match.reason = None
  BY <1>5 DEF Quiet, Undecided, Running
<1>6. CASE e \in Moves
  <2>1. e.kind = "MOVEMENT_RESOLVED"
    BY <1>2, <1>6, Kinds
  <2>2. /\ e.from = match.mechs[e.mech].cell
        /\ Distance(e.from, e.to) <= match.mechs[e.mech].pressure /\ Distance(e.from, e.to) <= Rules.speed
    BY <1>1, <1>2, <2>1 DEF Flow, IntentsWait, Kind
  <2>3. Calm(match, e, f)
    <3> HIDE DEF e
    <3> QED  BY <1>1, <1>6, <2>2, FoldsMove
  <2> QED  BY <1>5, <2>3 DEF Calm
<1>7. CASE e \in Switches
  <2>1. e.kind = "MODE_TRANSITION_STARTED"
    BY <1>2, <1>7, Kinds
  <2>2. e.from = match.mechs[e.mech].mode
    BY <1>1, <1>2, <2>1 DEF Flow, IntentsWait, Kind
  <2>3. Calm(match, e, f)
    <3> HIDE DEF e
    <3> QED  BY <1>1, <1>7, <2>2, FoldsSwitch
  <2> QED  BY <1>5, <2>3 DEF Calm
<1>8. CASE e \in Deaths
  <2>1. Quiet(match, f.match)
    <3> HIDE DEF e
    <3> QED  BY <1>1, <1>8, FoldsDeath
  <2> QED  BY <1>5, <2>1
<1>9. CASE e \in Damages \/ e \in Notices \cup Plans \cup Discs
  <2>1. Calm(match, e, f)
    <3> HIDE DEF e
    <3> QED  BY <1>1, <1>9, FoldsDamage, FoldsNotice
  <2> QED  BY <1>5, <2>1 DEF Calm
<1>10. e \in Notices \/ e \in Damages \/ e \in Deaths \/ e \in Plans \/ e \in Discs
         \/ e \in Ticks \/ e \in Moves \/ e \in Switches \/ e \in Ends
  BY <1>2 DEF Events
<1> HIDE DEF e, f
<1> QED  BY <1>3, <1>4, <1>6, <1>7, <1>8, <1>9, <1>10

(* The result, the deaths told and what waits of a tick are as RInv says in *)
(* every state of a run, and a match that goes on has no result.            *)
THEOREM ResultInvariance == Spec => [](IInv /\ RInv /\ Undecided)
<1>1. Init => RInv /\ Undecided
  <2> SUFFICES ASSUME Init
               PROVE  RInv /\ Undecided
    OBVIOUS
  <2>1. PICK max \in TickCaps, lucky \in Lucks, cells \in Starts : match = NewMatch(max, lucky, cells)
    BY DEF Init
  <2>2. match.reason = None
    BY <2>1 DEF NewMatch
  <2> QED  BY <2>2, InitTrue DEF Undecided
<1>2. IInv /\ RInv /\ Undecided /\ [Next]_vars => (RInv /\ Undecided)'
  <2> SUFFICES ASSUME IInv, RInv, Undecided, [Next]_vars
               PROVE  RInv' /\ Undecided'
    OBVIOUS
  <2>1. CASE Publish
    BY <2>1, PublishTrue, PublishUndecided
  <2>2. CASE CloseRoundFirst
    BY <2>2, CloseRoundFirstTrue DEF CloseRoundFirst, Undecided, Running
  <2>3. CASE Runaway
    BY <2>3, RunawayTrue DEF Runaway, Undecided, Running
  <2>4. CASE BeginTick
    BY <2>4, BeginTickTrue DEF BeginTick, Undecided, Running
  <2>5. CASE TickWasLast
    BY <2>5, PausesTrue DEF TickWasLast, Undecided, Running
  <2>6. CASE PilotsDecide
    BY <2>6, PausesTrue DEF PilotsDecide, Undecided, Running
  <2>7. CASE DealAtomicRound
    BY <2>7, PausesTrue DEF DealAtomicRound, Undecided, Running
  <2>8. CASE SuppressRound
    BY <2>8, PausesTrue DEF SuppressRound, Undecided, Running
  <2>9. CASE PaceRegister
    BY <2>9, PausesTrue DEF PaceRegister, Undecided, Running
  <2>10. CASE Act
    BY <2>10, ActTrue DEF Act, Undecided, Running
  <2>11. CASE CutTick
    BY <2>11, PausesTrue DEF CutTick, Undecided, Running
  <2>12. CASE RowsPublished
    BY <2>12, PausesTrue DEF RowsPublished, Undecided, Running
  <2>13. CASE AfterTick
    BY <2>13, AfterTickTrue DEF AfterTick, Undecided, Running
  <2>14. CASE LeaveLoop
    BY <2>14, PausesTrue DEF LeaveLoop, Undecided, Running
  <2>15. CASE Close
    BY <2>15, CloseTrue DEF Close, Undecided, Running
  <2>16. CASE Raise
    BY <2>16, RaiseTrue DEF Raise, Undecided, Running
  <2>17. CASE Stopped
    BY <2>17, StoppedTrue DEF Stopped, Undecided, Running
  <2>18. CASE PilotGivesUp
    BY <2>18, PilotGivesUpTrue DEF PilotGivesUp, Undecided, Running
  <2>19. CASE UNCHANGED vars
    BY <2>19, StutterTrue DEF vars, Undecided, Running
  <2> QED  BY <2>1, <2>2, <2>3, <2>4, <2>5, <2>6, <2>7, <2>8, <2>9, <2>10, <2>11, <2>12, <2>13, <2>14,
              <2>15, <2>16, <2>17, <2>18, <2>19 DEF Next, Progress
<1>3. Spec => []IInv
  BY RunnerInvariance
<1> QED  BY <1>1, <1>2, <1>3, PTL DEF Spec

LEMMA ResultsHold ==
    ASSUME IInv, RInv, Undecided
    PROVE  ResultIsTrue
<1>1. CASE ~Idle
  BY <1>1 DEF ResultIsTrue, Decided
<1>2. CASE Idle /\ Running
  BY <1>2, IdleTrue DEF ResultIsTrue, Decided, Undecided, None
<1>3. CASE Idle /\ ~Running
  BY <1>3, IdleTrue DEF ResultIsTrue, Decided, Truth
<1> QED  BY <1>1, <1>2, <1>3

LEMMA SameMech ==
    ASSUME NEW a \in Mech, NEW b \in Mech, SameBut(a, b), a.hp = b.hp
    PROVE  a = b
BY DEF SameBut, Mech

LEMMA RestatementsHold ==
    ASSUME IInv, RInv
    PROVE  RestatementsAgree
<1>1. DeathsToldOnce
  BY IdleTrue DEF DeathsToldOnce
<1>2. ASSUME Idle, stage = "ticked"
      PROVE  match.mechs = said.owed
  <2>1. agenda = <<>> /\ DOMAIN agenda = {} /\ match \in Match
    BY <1>2, IdleTrue DEF Idle
  <2>2. ~Holds(agenda, "MATCH_TICK")
    BY <2>1 DEF Holds
  <2>3. /\ said.owed \in [Mechs -> Mech] /\ Unhit(match.mechs, said.owed, agenda)
        /\ \A m \in Mechs : SameBut(match.mechs[m], said.owed[m])
    BY <1>2, <2>2 DEF RInv, Restating
  <2>4. match.mechs \in [Mechs -> Mech]
    BY <2>1 DEF Match
  <2>5. ASSUME NEW m \in Mechs
        PROVE  match.mechs[m] = said.owed[m]
    <3>1. said.owed[m].hp = match.mechs[m].hp
      BY <2>1, <2>3 DEF Unhit
    <3> QED  BY <2>3, <2>4, <3>1, SameMech
  <2> HIDE DEF Mech
  <2> QED  BY <2>3, <2>4, <2>5
<1> QED  BY <1>1, <1>2 DEF RestatementsAgree, NothingAdded

(* Whatever the rules, the pilots and the failures, whenever the runner     *)
(* looks at the match a running one is between two living mechs, and a      *)
(* recorded result is true of the mechs and of the points.                  *)
THEOREM ResultIsTrueHolds == Spec => []ResultIsTrue
<1>1. IInv /\ RInv /\ Undecided => ResultIsTrue
  BY ResultsHold
<1> QED  BY <1>1, ResultInvariance, PTL

(* Whatever the rules, the events a tick derived lead, folded again, to the *)
(* mechs the tick left, and the ledger tells each death once.               *)
THEOREM RestatementsAgreeHold == Spec => []RestatementsAgree
<1>1. IInv /\ RInv => RestatementsAgree
  BY RestatementsHold
<1> QED  BY <1>1, ResultInvariance, PTL
=============================================================================
