------------------------------ MODULE MatchFold ------------------------------
(***************************************************************************)
(* The rules of a duel as MatchStateFold applies them (match/fold.py with  *)
(* the lifecycle, boiler and failure reducers): what one canonical event   *)
(* does to the match, and which events the fold derives from it.  A        *)
(* definition takes a match and an event and returns the next match; the   *)
(* process that publishes the events is in MatchRunner.  A duel has one    *)
(* mech per player, so a mech also names its player.                       *)
(***************************************************************************)
EXTENDS Integers, Sequences, FiniteSets

CONSTANTS
    Roster,     \* the two mechs, in the order of MATCH_STARTED
    Rules,      \* the numbers of the contracts and of reducers/failure.py
    Cells,      \* cells of the arena, on a line
    Modes       \* combat modes, the initial one included

Mechs == {Roster[i] : i \in DOMAIN Roster}
None == "none"

RuleNames ==
    {"hp", "armor", "armorRegen", "pressure", "regen", "vent", "redline",
     "rupture", "overloadAfter", "ruptureAfter", "switchDisabled", "direct",
     "area", "areaRadius", "vpRound", "vpLine", "bounty", "fireCost",
     "fireHeat", "fireRange", "fireDamage", "cooldown", "switchCost",
     "switchHeat", "switchTicks", "switchLock", "switchHeatLimit",
     "suddenStart", "suddenBase", "speed"}

ASSUME FoldAssumption ==
    /\ DOMAIN Roster = 1 .. 2 /\ Roster[1] # Roster[2] /\ None \notin Mechs
    /\ Rules \in [RuleNames -> Nat]
    /\ Rules.hp > 0 /\ Rules.redline <= Rules.rupture
    /\ Cells \subseteq Nat /\ "recon" \in Modes /\ None \notin Modes

Low(a, b) == IF a < b THEN a ELSE b
High(a, b) == IF a > b THEN a ELSE b
Distance(a, b) == IF a < b THEN b - a ELSE a - b

-----------------------------------------------------------------------------
(* Events.  by names the publisher: the fold hands its own to before_emit.   *)

Tick(t) == [kind |-> "MATCH_TICK", tick |-> t, by |-> "runner"]
About(kind, m, by) == [kind |-> kind, mech |-> m, by |-> by]
Damage(m, after, by) == [kind |-> "DAMAGE_APPLIED", mech |-> m, after |-> after, by |-> by]
Absorbed(m, after) == [kind |-> "ARMOR_ABSORBED", mech |-> m, after |-> after, by |-> "runner"]
Moved(m, from, to) == [kind |-> "MOVEMENT_RESOLVED", mech |-> m, from |-> from, to |-> to, by |-> "runner"]
Switching(m, from, to) == [kind |-> "MODE_TRANSITION_STARTED", mech |-> m, from |-> from, to |-> to, by |-> "runner"]
Victory(m, reason, by) == [kind |-> "VICTORY_DECLARED", winner |-> m, reason |-> reason, by |-> by]
Ended(m, reason, by) == [kind |-> "MATCH_ENDED", winner |-> m, reason |-> reason, by |-> by]

Terminals == {"VICTORY_DECLARED", "MATCH_ENDED"}

-----------------------------------------------------------------------------
(* A match.  over counts the ticks of an overload, 0 for none; left is 0     *)
(* unless a mode transition is under way.                                    *)

NewMech(cell) ==
    [hp |-> Rules.hp, armor |-> Rules.armor, alive |-> TRUE, pilot |-> TRUE,
     pressure |-> Rules.pressure, heat |-> 0, redline |-> 0, over |-> 0,
     disabled |-> 0, cooldown |-> 0, mode |-> "recon", to |-> None, left |-> 0,
     lock |-> 0, cell |-> cell]

NewMatch(max, lucky, cells) ==
    [status |-> "running", tick |-> 0, max |-> max, winner |-> None, reason |-> None,
     mechs |-> [m \in Mechs |-> NewMech(cells[m])], vp |-> [m \in Mechs |-> 0],
     bountyDue |-> FALSE, lucky |-> lucky]

Living(mechs) == {m \in Mechs : mechs[m].alive /\ mechs[m].pilot}

\* What a fold makes of an event: the match after it, the events the lifecycle
\* publishes while it is folded, the ones the fold publishes afterwards, and
\* whether the fold raised instead.
Folded(match, out) == [match |-> match, nested |-> <<>>, out |-> out, refused |-> FALSE]
Unchanged(match) == Folded(match, <<>>)
Refused(match) == [Unchanged(match) EXCEPT !.refused = TRUE]

\* The match with another state of one mech.
With(match, m, mech) == [match EXCEPT !.mechs = [match.mechs EXCEPT ![m] = mech]]

Over(match, tick, winner, reason) ==
    [match EXCEPT !.status = "ended", !.tick = tick, !.winner = winner, !.reason = reason]

-----------------------------------------------------------------------------
(* Sub-steps of a tick.                                                      *)

BoilerTick(mech) ==
    [mech EXCEPT !.pressure = Low(@ + Rules.regen, Rules.pressure),
                 !.heat = High(@ - Rules.vent, 0)]

CountersDecremented(mech) == [mech EXCEPT !.cooldown = High(@ - 1, 0)]

ArmorRegenerated(mech) ==
    IF mech.alive THEN [mech EXCEPT !.armor = Low(Rules.armor, @ + Rules.armorRegen)] ELSE mech

ModeAdvanced(mech, tick) ==
    IF mech.left = 0 THEN mech
    ELSE IF mech.left > 1 THEN [mech EXCEPT !.left = @ - 1]
    ELSE [mech EXCEPT !.mode = mech.to, !.to = None, !.left = 0,
                      !.lock = tick + Rules.switchLock]

\* Redline and overload counters of a living mech.
Ladder(mech, tick) ==
    IF mech.heat < Rules.redline THEN [mech EXCEPT !.redline = 0, !.over = 0]
    ELSE LET ticks == mech.redline + 1
         IN  IF mech.over > 0 THEN [mech EXCEPT !.redline = ticks, !.over = @ + 1]
             ELSE IF ticks >= Rules.overloadAfter
             THEN [mech EXCEPT !.redline = ticks, !.over = 1,
                               !.disabled = tick + Rules.switchDisabled]
             ELSE [mech EXCEPT !.redline = ticks]

Ruptures(mech) == mech.heat >= Rules.rupture \/ mech.over >= Rules.ruptureAfter

\* Mutant: the blast finds mechs of the roster that are dead already.
BlastFindsDead(mechs, m) ==
    {o \in Mechs \ {m} : Distance(mechs[m].cell, mechs[o].cell) <= Rules.areaRadius}

InBlast(mechs, m) ==
    {o \in Mechs \ {m} : mechs[o].alive
        /\ Distance(mechs[m].cell, mechs[o].cell) <= Rules.areaRadius}

AfterBlast(mech) == High(0, mech.hp - Rules.area)

\* Mutant: the blast is reported but left to the events' own fold.
BlastLater(mechs, m) == mechs

Blasted(mechs, m) ==
    [o \in Mechs |-> IF o \notin InBlast(mechs, m) THEN mechs[o]
        ELSE [mechs[o] EXCEPT !.hp = AfterBlast(mechs[o]), !.alive = AfterBlast(mechs[o]) # 0]]

BlastReports(mechs, m) ==
    LET report(o) ==
            IF o \notin InBlast(mechs, m) THEN <<>>
            ELSE <<Damage(o, AfterBlast(mechs[o]), "fold")>>
                 \o (IF AfterBlast(mechs[o]) # 0 THEN <<>>
                     ELSE <<About("MECH_DESTROYED", o, "fold")>>)
    IN  report(Roster[1]) \o report(Roster[2])

\* A rupture destroys its mech whatever its pilot's fate, then the blast
\* damages each living mech around it.
Rupture(acc, m, lucky) ==
    LET hurt == High(0, acc.mechs[m].hp - Rules.direct)
        own == <<About("BOILER_RUPTURED", m, "fold"), Damage(m, hurt, "fold")>>
               \o (IF m \in lucky THEN <<>> ELSE <<About("PILOT_KILLED", m, "fold")>>)
               \o <<About("MECH_DESTROYED", m, "fold")>>
        wreck == [acc.mechs[m] EXCEPT !.hp = hurt, !.alive = FALSE, !.pilot = @ /\ m \in lucky]
        gone == [acc.mechs EXCEPT ![m] = wreck]
    IN  [mechs |-> Blasted(gone, m), out |-> acc.out \o own \o BlastReports(gone, m)]

CascadeMech(acc, m, tick, lucky) ==
    IF ~acc.mechs[m].alive THEN acc
    ELSE LET rung == [acc EXCEPT !.mechs = [acc.mechs EXCEPT ![m] = Ladder(acc.mechs[m], tick)]]
         IN  IF Ruptures(rung.mechs[m]) THEN Rupture(rung, m, lucky) ELSE rung

CascadeTerminal(before, after) ==
    IF before = {} THEN <<>>
    ELSE IF after = {} THEN <<Ended(None, "draw_mutual_destruction", "fold")>>
    ELSE IF Cardinality(before) > 1 /\ Cardinality(after) = 1
    THEN <<Victory(CHOOSE m \in after : TRUE, "last_mech_standing", "fold")>>
    ELSE <<>>

Cascade(mechs, tick, lucky) ==
    LET first == CascadeMech([mechs |-> mechs, out |-> <<>>], Roster[1], tick, lucky)
        done == CascadeMech(first, Roster[2], tick, lucky)
    IN  [done EXCEPT !.out = @ \o CascadeTerminal(Living(mechs), Living(done.mechs))]

\* The sole mech within reach of the objective scores.
Controllers(mechs) ==
    {m \in Living(mechs) : Distance(mechs[m].cell, 0) <= 1}

\* Mutant: a match that has just been decided goes on scoring.
ScoreDecided(match) ==
    LET scorer == Controllers(match.mechs)
        vp == [m \in Mechs |-> match.vp[m] + (IF scorer = {m} THEN Rules.vpRound ELSE 0)]
        leaders == {m \in Mechs : vp[m] >= Rules.vpLine /\ \A o \in Mechs : vp[o] <= vp[m]}
    IN  IF Rules.vpLine = 0 \/ (Cardinality(scorer) # 1 /\ ~match.bountyDue)
        THEN [match |-> match, out |-> <<>>]
        ELSE [match |-> [match EXCEPT !.vp = vp, !.bountyDue = FALSE],
              out |-> IF Cardinality(leaders) = 1
                      THEN <<Victory(CHOOSE m \in leaders : TRUE, "vp_threshold", "fold")>>
                      ELSE <<>>]

Score(match) ==
    LET scorer == Controllers(match.mechs)
        vp == [m \in Mechs |-> match.vp[m] + (IF scorer = {m} THEN Rules.vpRound ELSE 0)]
        leaders == {m \in Mechs : vp[m] >= Rules.vpLine /\ \A o \in Mechs : vp[o] <= vp[m]}
    IN  IF \/ Rules.vpLine = 0 \/ Cardinality(Living(match.mechs)) < 2
           \/ Cardinality(scorer) # 1 /\ ~match.bountyDue
        THEN [match |-> match, out |-> <<>>]
        ELSE [match |-> [match EXCEPT !.vp = vp, !.bountyDue = FALSE],
              out |-> IF Cardinality(leaders) = 1
                      THEN <<Victory(CHOOSE m \in leaders : TRUE, "vp_threshold", "fold")>>
                      ELSE <<>>]

-----------------------------------------------------------------------------
(* One operator per event the fold knows.                                    *)

\* The clock ends a match it finds undecided; the tick's effects are skipped.
ClockEnds(match, tick) ==
    LET left == Living(match.mechs)
    IN  IF Cardinality(left) = 1
        THEN LET m == CHOOSE m \in left : TRUE
             IN  [Unchanged(Over(match, tick, m, "last_mech_standing")) EXCEPT
                    !.nested = <<Victory(m, "last_mech_standing", "lifecycle")>>]
        ELSE [Unchanged(Over(match, tick, None, "draw_max_ticks")) EXCEPT
                !.nested = <<Ended(None, "draw_max_ticks", "lifecycle")>>]

TickEffects(match, tick) ==
    LET fresh == [m \in Mechs |-> ModeAdvanced(
                    ArmorRegenerated(CountersDecremented(BoilerTick(match.mechs[m]))), tick)]
        cascade == Cascade(fresh, tick, match.lucky)
        scored == Score([match EXCEPT !.mechs = cascade.mechs])
    IN  Folded(scored.match, cascade.out \o scored.out)

FoldTick(match, e) ==
    IF match.status # "running" \/ e.tick # match.tick + 1 THEN Refused(match)
    ELSE IF match.max # 0 /\ e.tick >= match.max THEN ClockEnds(match, e.tick)
    ELSE TickEffects([match EXCEPT !.tick = e.tick], e.tick)

\* A terminal event ends a running match; of an ended one it may only say again
\* what ended it.
FoldTerminal(match, e) ==
    IF match.status = "running" THEN Unchanged(Over(match, match.tick, e.winner, e.reason))
    ELSE IF match.winner = e.winner /\ match.reason = e.reason THEN Unchanged(match)
    ELSE Refused(match)

FoldMovement(match, e) ==
    LET mech == match.mechs[e.mech]
        cost == Distance(e.from, e.to)
    IN  IF \/ e.from # mech.cell \/ e.to \notin Cells
           \/ cost > mech.pressure \/ cost > Rules.speed
        THEN Refused(match)
        ELSE Unchanged(With(match, e.mech, [mech EXCEPT !.cell = e.to, !.pressure = @ - cost]))

\* A boiler pays pressure and takes heat, never below nothing nor past rupture.
BoilerPays(mech, cost, heat) ==
    [mech EXCEPT !.pressure = High(@ - cost, 0), !.heat = Low(@ + heat, Rules.rupture)]

FoldFired(match, e) ==
    LET mech == BoilerPays(match.mechs[e.mech], Rules.fireCost, Rules.fireHeat)
    IN  Unchanged(With(match, e.mech, [mech EXCEPT !.cooldown = Rules.cooldown]))

FoldSwitch(match, e) ==
    LET mech == BoilerPays(match.mechs[e.mech], Rules.switchCost, Rules.switchHeat)
    IN  IF e.from # match.mechs[e.mech].mode THEN Refused(match)
        ELSE Unchanged(With(match, e.mech,
                [mech EXCEPT !.left = Rules.switchTicks, !.to = e.to]))

FoldDamage(match, e) == 
    Unchanged(With(match, e.mech, [match.mechs[e.mech] EXCEPT !.hp = e.after]))

FoldArmor(match, e) == 
    Unchanged(With(match, e.mech, [match.mechs[e.mech] EXCEPT !.armor = e.after]))

FoldUtility(match, e) ==
    IF Rules.bounty = 0 THEN Unchanged(match)
    ELSE Unchanged([match EXCEPT !.vp = [match.vp EXCEPT ![e.mech] = @ + Rules.bounty],
                                 !.bountyDue = TRUE])

\* Mutant: the last mech standing wins although its own death is on the way.
DeathTerminalHasty(match, before, mechs) ==
    LET after == Living(mechs)
    IN  IF match.status # "running" \/ before = {} THEN <<>>
        ELSE IF after = {} THEN <<Ended(None, "draw_mutual_destruction", "fold")>>
        ELSE IF Cardinality(before) <= 1 \/ Cardinality(after) > 1 THEN <<>>
        ELSE <<Victory(CHOOSE m \in after : TRUE, "last_mech_standing", "fold")>>

\* A lone survivor without hit points has its own destruction on the way.
DeathTerminal(match, before, mechs) ==
    LET after == Living(mechs)
    IN  IF match.status # "running" \/ before = {} THEN <<>>
        ELSE IF after = {} THEN <<Ended(None, "draw_mutual_destruction", "fold")>>
        ELSE IF \/ Cardinality(before) <= 1 \/ Cardinality(after) > 1
                \/ \A m \in after : mechs[m].hp = 0
        THEN <<>>
        ELSE <<Victory(CHOOSE m \in after : TRUE, "last_mech_standing", "fold")>>

FoldDeath(match, e) ==
    LET mech == match.mechs[e.mech]
        already == IF e.kind = "PILOT_KILLED" THEN ~mech.pilot ELSE ~mech.alive
        lost == IF e.kind = "PILOT_KILLED" THEN [mech EXCEPT !.pilot = FALSE]
                ELSE [mech EXCEPT !.alive = FALSE]
        after == With(match, e.mech, lost)
    IN  IF already THEN Unchanged(match)
        ELSE Folded(after, DeathTerminal(match, Living(match.mechs), after.mechs))

\* MatchStateFold.delta
Delta(match, e) ==
    CASE e.kind = "MATCH_TICK" -> FoldTick(match, e)
      [] e.kind \in Terminals -> FoldTerminal(match, e)
      [] e.kind = "MOVEMENT_RESOLVED" -> FoldMovement(match, e)
      [] e.kind = "WEAPON_FIRED" -> FoldFired(match, e)
      [] e.kind = "MODE_TRANSITION_STARTED" -> FoldSwitch(match, e)
      [] e.kind = "DAMAGE_APPLIED" -> FoldDamage(match, e)
      [] e.kind = "ARMOR_ABSORBED" -> FoldArmor(match, e)
      [] e.kind \in {"MECH_DESTROYED", "PILOT_KILLED"} -> FoldDeath(match, e)
      [] e.kind = "UTILITY_DEPLOYED" -> FoldUtility(match, e)
      [] OTHER -> Unchanged(match)
=============================================================================
