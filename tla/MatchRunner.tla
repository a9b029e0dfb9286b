----------------------------- MODULE MatchRunner -----------------------------
(***************************************************************************)
(* The worker of a match (match/runner.py) and the fold it drives through  *)
(* the bus.  publish is synchronous and nests: an event is folded, then    *)
(* what the fold derived from it is published before the next event of the *)
(* runner.  agenda holds the events still to be published, the next one    *)
(* first, so its order is the order of the ledger.  The runner reads the   *)
(* fold only when the agenda is empty.  Pilots, sensors and hit rolls are  *)
(* choices; the three ways of a tick are the plain one (one intent per     *)
(* mech) and the card rounds, atomic or one register per tick (paced).     *)
(***************************************************************************)
EXTENDS MatchFold

CONSTANTS
    Cadences,       \* subset of {"plain", "atomic", "paced"}
    TickCaps,       \* values of max_ticks, 0 for none
    RunawayLimit,   \* RUNAWAY_TICK_LIMIT
    Registers,      \* registers of a card round
    Lucks,          \* sets of mechs whose pilot would survive a rupture
    Starts,         \* where the mechs may start, functions from Mechs
    Acts            \* kinds of intent of each mech's pilot

ASSUME RunnerAssumption ==
    /\ Cadences \subseteq {"plain", "atomic", "paced"}
    /\ TickCaps \subseteq Nat /\ RunawayLimit \in Nat \ {0} /\ Registers \in Nat \ {0}
    /\ Lucks \subseteq SUBSET Mechs /\ Starts \subseteq [Mechs -> Cells]
    /\ Acts \in [Mechs -> SUBSET {"move", "fire", "switch", "utility", "vent"}]

VARIABLES
    match,      \* MatchStateFold.state
    agenda,     \* events of the publish calls in progress, the next one first
    stage,      \* where MatchRunner.run stands
    todo,       \* what is left of the tick: intents and rows of a card round
    cadence,    \* plain, atomic or paced
    round,      \* the latched card round: its order and next register, or NoRound
    committed,  \* card rounds whose decks were committed
    said,       \* history: what was published
    beat        \* changes with each step of the runner's thread

vars == <<match, agenda, stage, todo, cadence, round, committed, said, beat>>

Stages == {"top", "ticked", "acting", "after", "closing", "done", "raised"}
Idle == agenda = <<>> /\ stage # "raised"
NoRound == [order |-> <<>>, register |-> -1]
Running == match.status = "running"

\* History: MATCH_ENDED seen, kinds published after it, destructions per mech,
\* rounds opened and closed, and the mechs as the last tick's fold left them.
Silence == [ends |-> 0, past |-> {}, deaths |-> [m \in Mechs |-> 0],
            opened |-> 0, closed |-> 0, owed |-> match.mechs]

Heard(e) ==
    [ends |-> said.ends + (IF e.kind = "MATCH_ENDED" THEN 1 ELSE 0),
     past |-> said.past \union (IF said.ends > 0 THEN {e.kind} ELSE {}),
     deaths |-> IF e.kind = "MECH_DESTROYED"
                THEN [said.deaths EXCEPT ![e.mech] = @ + 1] ELSE said.deaths,
     opened |-> said.opened + (IF e.kind = "PLAN_COMMITTED" THEN 1 ELSE 0),
     closed |-> said.closed + (IF e.kind = "CARDS_DISCARDED" THEN 1 ELSE 0),
     owed |-> IF e.kind = "MATCH_TICK" THEN Delta(match, e).match.mechs ELSE said.owed]

Row(kind) == [kind |-> kind, by |-> "runner"]
Intent(m) == [kind |-> "INTENT", mech |-> m, by |-> "runner"]
Discards == <<Row("CARDS_DISCARDED")>>

Init ==
    /\ cadence \in Cadences
    /\ \E max \in TickCaps, lucky \in Lucks, cells \in Starts :
           match = NewMatch(max, lucky, cells)
    /\ agenda = <<>> /\ stage = "top" /\ todo = <<>>
    /\ round = NoRound /\ committed = 0 /\ said = Silence /\ beat = 0

-----------------------------------------------------------------------------
(* The bus: one publish call at a time.                                      *)

\* before_emit: a terminal of the fold closes a latched round before it is
\* published.
ClosesRound(e) ==
    e.kind \in Terminals /\ e.by = "fold" /\ cadence = "paced" /\ round # NoRound

\* Mutant: a raising publish is swallowed and the runner goes on.
RaiseSwallowed ==
    /\ agenda # <<>>
    /\ agenda' = <<>>
    /\ UNCHANGED <<match, stage, todo, cadence, round, committed, said>>

\* A handler behind the fold raises: every publish in progress raises too, and
\* what the fold still had to publish is lost.
Raise ==
    /\ agenda # <<>>
    /\ agenda' = <<>> /\ stage' = "raised"
    /\ UNCHANGED <<match, todo, cadence, round, committed, said>>

CloseRoundFirst ==
    /\ agenda # <<>> /\ ClosesRound(Head(agenda))
    /\ agenda' = Discards \o agenda
    /\ round' = NoRound
    /\ UNCHANGED <<match, stage, todo, cadence, committed, said>>

\* InProcessEventBus.publish and MatchStateFold.apply
Publish ==
    /\ agenda # <<>> /\ ~ClosesRound(Head(agenda))
    /\ LET e == Head(agenda)
           folded == Delta(match, e)
       IN  /\ match' = folded.match
           /\ said' = Heard(e)
           /\ IF folded.refused THEN agenda' = <<>> /\ stage' = "raised"
              ELSE agenda' = folded.nested \o folded.out \o Tail(agenda) /\ stage' = stage
    /\ UNCHANGED <<todo, cadence, round, committed>>

-----------------------------------------------------------------------------
(* The loop of MatchRunner.run.                                              *)

Limit == High(RunawayLimit, match.max)

\* What cancelling the latched round publishes.
Cancelled == IF cadence = "paced" /\ round # NoRound THEN Discards ELSE <<>>

Runaway ==
    /\ Idle /\ stage = "top" /\ Running /\ match.tick + 1 > Limit
    /\ agenda' = Cancelled \o <<Ended(None, "aborted_runaway", "runner")>>
    /\ round' = NoRound /\ stage' = "closing"
    /\ UNCHANGED <<match, todo, cadence, committed, said>>

\* The gate is closed by a STOP at a checkpoint.
Stopped ==
    /\ Idle /\ stage = "top" /\ Running /\ match.tick + 1 <= Limit
    /\ agenda' = <<Ended(None, "aborted", "runner")>> \o Cancelled
    /\ round' = NoRound /\ stage' = "closing"
    /\ UNCHANGED <<match, todo, cadence, committed, said>>

\* The cap ends the match inside the fold of the tick, so the round is closed
\* before the tick is published.
CapClosesRound(tick) ==
    cadence = "paced" /\ round # NoRound /\ match.max # 0 /\ tick >= match.max

BeginTick ==
    /\ Idle /\ stage = "top" /\ Running /\ match.tick + 1 <= Limit
    /\ LET tick == match.tick + 1
       IN  /\ agenda' = (IF CapClosesRound(tick) THEN Discards ELSE <<>>) \o <<Tick(tick)>>
           /\ round' = IF CapClosesRound(tick) THEN NoRound ELSE round
    /\ stage' = "ticked" /\ todo' = <<>>
    /\ UNCHANGED <<match, cadence, committed, said>>

\* The cap, a cascade or the score has ended the match.
TickWasLast ==
    /\ Idle /\ stage = "ticked" /\ ~Running
    /\ agenda' = (IF Cancelled # <<>> /\ said.ends = 0
                  THEN <<Ended(match.winner, match.reason, "runner")>> ELSE <<>>) \o Cancelled
    /\ round' = NoRound /\ stage' = "closing"
    /\ UNCHANGED <<match, todo, cadence, committed, said>>

\* A live pilot cannot complete or exhausted its attempts.  In a paced round
\* pilots are asked when it is dealt.
PilotGivesUp ==
    /\ Idle /\ stage = "ticked" /\ Running /\ round = NoRound
    /\ \E reason \in {"aborted", "provider_semantic_failure"} :
           agenda' = <<Ended(None, reason, "runner")>>
    /\ stage' = "closing"
    /\ UNCHANGED <<match, todo, cadence, round, committed, said>>

Orders ==
    {s \in [1 .. Cardinality(Living(match.mechs)) -> Living(match.mechs)] :
        \A i, j \in DOMAIN s : s[i] = s[j] => i = j}

\* One intent per living mech, in an order that initiative decides.
PilotsDecide ==
    /\ Idle /\ stage = "ticked" /\ Running /\ cadence = "plain"
    /\ \E order \in Orders : todo' = [i \in DOMAIN order |-> Intent(order[i])]
    /\ stage' = "acting"
    /\ UNCHANGED <<match, agenda, cadence, round, committed, said>>

RegisterRows(order) == <<Row("REGISTER_RESOLVED")>> \o [i \in DOMAIN order |-> Intent(order[i])]

AtomicRows(order) ==
    LET rows == RegisterRows(order)
        played == [i \in 1 .. Registers * Len(rows) |-> rows[((i - 1) % Len(rows)) + 1]]
    IN  <<Row("PLAN_COMMITTED")>> \o played \o Discards

\* Every register of the round is resolved in this tick.
DealAtomicRound ==
    /\ Idle /\ stage = "ticked" /\ Running /\ cadence = "atomic"
    /\ \E order \in Orders : todo' = AtomicRows(order)
    /\ stage' = "acting"
    /\ UNCHANGED <<match, agenda, cadence, round, committed, said>>

\* The adapter suppresses the round: no rows.
SuppressRound ==
    /\ Idle /\ stage = "ticked" /\ Running /\ cadence # "plain" /\ round = NoRound
    /\ stage' = "after"
    /\ UNCHANGED <<match, agenda, todo, cadence, round, committed, said>>

PacedRows(order, r) ==
    (IF r = 0 THEN <<Row("PLAN_COMMITTED")>> ELSE <<>>) \o RegisterRows(order)
        \o (IF r = Registers - 1 THEN Discards ELSE <<>>)

\* One register of the latched round, or of a new one.  Intents keep the order
\* and the mechs of the deal.
PaceRegister ==
    /\ Idle /\ stage = "ticked" /\ Running /\ cadence = "paced"
    /\ \E order \in IF round = NoRound THEN Orders ELSE {round.order} :
           LET r == IF round = NoRound THEN 0 ELSE round.register
           IN  /\ todo' = PacedRows(order, r)
               /\ round' = [order |-> order, register |-> r]
    /\ stage' = "acting"
    /\ UNCHANGED <<match, agenda, cadence, committed, said>>

-----------------------------------------------------------------------------
(* What the intents of a tick become.  An operator returns the sets of       *)
(* events the runner may publish for it.                                     *)

Opponent(m) == CHOOSE o \in Mechs : o # m

MoveResults(m) ==
    LET mech == match.mechs[m]
        budget == Low(Rules.speed, mech.pressure)
    IN  {<<>>} \union
        {<<Moved(m, mech.cell, to)>> : to \in
            {c \in Cells : /\ Distance(mech.cell, c) \in 1 .. budget
                           /\ c # match.mechs[Opponent(m)].cell}}

CanFire(m) ==
    LET mech == match.mechs[m]
        target == match.mechs[Opponent(m)]
    IN  /\ mech.pressure >= Rules.fireCost /\ mech.cooldown = 0
        /\ Distance(mech.cell, target.cell) <= Rules.fireRange
        /\ target.alive /\ target.pilot

\* Armour absorbs at most what it has; the rest reaches the hull.
HitResults(m) ==
    LET o == Opponent(m)
        absorbed == Low(match.mechs[o].armor, Rules.fireDamage)
        after == High(0, match.mechs[o].hp - (Rules.fireDamage - absorbed))
    IN  <<About("WEAPON_FIRED", m, "runner"), About("HIT_RESOLVED", m, "runner"),
          Absorbed(o, match.mechs[o].armor - absorbed), Damage(o, after, "runner")>>
        \o (IF after = 0 THEN <<About("MECH_DESTROYED", o, "runner")>> ELSE <<>>)

FireResults(m) ==
    IF ~CanFire(m) THEN {<<About("WEAPON_FIRE_REJECTED", m, "runner")>>}
    ELSE {<<About("WEAPON_FIRED", m, "runner")>>, HitResults(m)}

CanSwitch(mech, to) ==
    /\ mech.left = 0 /\ to # mech.mode
    /\ match.tick >= mech.lock /\ match.tick >= mech.disabled
    /\ mech.pressure >= Rules.switchCost /\ mech.heat < Rules.switchHeatLimit

SwitchResults(m) ==
    LET mech == match.mechs[m]
    IN  {IF CanSwitch(mech, to) THEN <<Switching(m, mech.mode, to)>> ELSE <<>> : to \in Modes}

Resolutions(m) ==
    UNION {CASE a = "move" -> MoveResults(m)
             [] a = "fire" -> FireResults(m)
             [] a = "switch" -> SwitchResults(m)
             [] a = "utility" -> {<<About("UTILITY_DEPLOYED", m, "runner")>>}
             [] a = "vent" -> {<<>>} : a \in Acts[m]}

\* The intent of a mech that died earlier in the tick is void.
Able(m) == Running /\ m \in Living(match.mechs)

-----------------------------------------------------------------------------
(* Carrying out the tick.                                                    *)

\* A plain tick stops at the first resolution that ends the match, and a paced
\* register closes its round there; an atomic round publishes all its rows.
CutShort == ~Running /\ cadence # "atomic"

\* Mutant: a row once published is not taken off the list.
ActAgain ==
    /\ Idle /\ stage = "acting" /\ todo # <<>> /\ ~CutShort
    /\ agenda' = <<Head(todo)>>
    /\ UNCHANGED <<match, stage, todo, cadence, round, committed, said>>

Act ==
    /\ Idle /\ stage = "acting" /\ todo # <<>> /\ ~CutShort
    /\ LET e == Head(todo)
       IN  \E results \in IF e.kind = "INTENT" /\ Able(e.mech)
                          THEN Resolutions(e.mech) ELSE {<<>>} :
               agenda' = <<e>> \o results
    /\ todo' = Tail(todo)
    /\ UNCHANGED <<match, stage, cadence, round, committed, said>>

CutTick ==
    /\ Idle /\ stage = "acting" /\ CutShort
    /\ agenda' = (IF Cancelled # <<>> /\ said.ends = 0
                  THEN <<Ended(match.winner, match.reason, "runner")>> ELSE <<>>) \o Cancelled
    /\ todo' = <<>> /\ round' = NoRound /\ stage' = "after"
    /\ UNCHANGED <<match, cadence, committed, said>>

\* Mutant: every register commits the decks.
CommitsEach == cadence # "plain"

\* Decks and plans are committed after the last register only.
Commits ==
    \/ cadence = "atomic"
    \/ cadence = "paced" /\ round.register = Registers - 1

RowsPublished ==
    /\ Idle /\ stage = "acting" /\ todo = <<>> /\ ~CutShort
    /\ committed' = committed + IF Commits THEN 1 ELSE 0
    /\ round' = IF cadence = "paced" /\ round.register < Registers - 1
                THEN [round EXCEPT !.register = @ + 1] ELSE NoRound
    /\ stage' = "after"
    /\ UNCHANGED <<match, agenda, todo, cadence, said>>

\* The pulse damages every mech, then destroys those it left without hit points.
Pulse(order, damage) ==
    LET after(m) == High(0, match.mechs[m].hp - damage)
        death(i) == IF i \in DOMAIN order /\ after(order[i]) = 0
                    THEN <<About("MECH_DESTROYED", order[i], "runner")>> ELSE <<>>
    IN  [i \in DOMAIN order |-> Damage(order[i], after(order[i]), "runner")] \o death(1) \o death(2)

SuddenDeath ==
    IF match.max # 0 \/ Rules.suddenStart = 0 \/ match.tick < Rules.suddenStart THEN {<<>>}
    ELSE {Pulse(order, Rules.suddenBase * (match.tick - Rules.suddenStart + 1)) : order \in Orders}

AfterTick ==
    /\ Idle /\ stage = "after" /\ Running
    /\ agenda' \in SuddenDeath
    /\ stage' = "top"
    /\ UNCHANGED <<match, todo, cadence, round, committed, said>>

LeaveLoop ==
    /\ Idle /\ ~Running /\ stage \in {"top", "after"}
    /\ agenda' = IF stage = "after" THEN Cancelled ELSE <<>>
    /\ round' = IF stage = "after" THEN NoRound ELSE round
    /\ stage' = "closing"
    /\ UNCHANGED <<match, todo, cadence, committed, said>>

\* Mutant: the final restatement is published whatever was published before.
RestatesAlways == match.reason # None

\* A decisive ending is restated as MATCH_ENDED once.
Restates == said.ends = 0 /\ match.reason # None

Close ==
    /\ Idle /\ stage = "closing"
    /\ agenda' = IF Restates THEN <<Ended(match.winner, match.reason, "runner")>> ELSE <<>>
    /\ stage' = "done"
    /\ UNCHANGED <<match, todo, cadence, round, committed, said>>

Finished == stage \in {"done", "raised"} /\ agenda = <<>>

Progress ==
    \/ Publish \/ CloseRoundFirst \/ Runaway \/ BeginTick \/ TickWasLast
    \/ PilotsDecide \/ DealAtomicRound \/ SuppressRound \/ PaceRegister
    \/ Act \/ CutTick \/ RowsPublished \/ AfterTick \/ LeaveLoop \/ Close

Next ==
    \/ Progress /\ beat' = 1 - beat
    \/ (Raise \/ Stopped \/ PilotGivesUp) /\ UNCHANGED beat
    \/ Finished /\ UNCHANGED vars

Spec == Init /\ [][Next]_vars

\* run is one thread, always scheduled: until it is over it takes its next step.
Steps == ~Finished /\ beat' = 1 - beat

FairSpec == Spec /\ WF_beat(Steps)

-----------------------------------------------------------------------------
(* Properties.                                                               *)

\* The fold never refuses an event that the runner resolved or that it derived
\* itself: terminals agree, ticks follow each other, moves and switches are
\* still legal when they are folded (conflicting_terminal_state, tick_skip,
\* position_mismatch of the reducers).
FoldAccepts == agenda # <<>> => ~Delta(match, Head(agenda)).refused

\* Whenever the runner looks at a running match both mechs are in it: however
\* the last death came, somebody declared its terminal, so the loop never ticks
\* a match that nobody can win (_on_flag_drop, _maybe_declare_terminal).
Decided == Idle /\ Running => Living(match.mechs) = Mechs

\* A recorded result is true of the mechs: the last mech standing stands alone,
\* a mutual destruction left nobody, a win on points has the points and is not
\* shared; and a match without a result can still be won.
ResultIsTrue ==
  /\ Decided
  /\ Idle =>
        /\ match.reason = "last_mech_standing" => Living(match.mechs) = {match.winner}
        /\ match.reason = "draw_mutual_destruction" => Living(match.mechs) = {}
        /\ match.reason = "vp_threshold" =>
               /\ Living(match.mechs) = Mechs /\ match.vp[match.winner] >= Rules.vpLine
               /\ match.vp[match.winner] > match.vp[Opponent(match.winner)]

\* When the events a tick derived have all been folded again, the mechs are as
\* the tick's own fold left them: the loop-back restates and never adds, which
\* is what lets a replay derive them from the tick alone.
NothingAdded == Idle /\ stage = "ticked" => match.mechs = said.owed

\* The ledger tells each death once: one MECH_DESTROYED per dead mech, none of a
\* living one, whether the cascade, a weapon or the pulse killed it.
DeathsToldOnce ==
    Idle => \A m \in Mechs : said.deaths[m] = IF match.mechs[m].alive THEN 0 ELSE 1

\* What the events derived from a tick say is what its fold did: both of the
\* above.
RestatementsAgree == NothingAdded /\ DeathsToldOnce

\* MATCH_ENDED is published once in a run that comes to its end, and "nothing is
\* emitted after" it (_apply_sudden_death), but for the discards of a paced round
\* that a STOP cut off.
EndedOnce ==
    /\ said.ends <= 1
    /\ Idle /\ stage = "done" => said.ends = 1
    /\ said.past \subseteq {"CARDS_DISCARDED"}
    /\ said.past # {} => match.reason = "aborted"

\* Whichever death, score, clock or STOP comes first declares the one terminal,
\* and no later one contradicts it: EndedOnce, and the fold refuses nothing.
OneTerminal == FoldAccepts /\ EndedOnce

\* Every card round dealt is closed by exactly one row of discards before the
\* run ends, and only a round whose last register was played commits its decks.
RoundsAreClosed ==
    /\ said.closed <= said.opened
    /\ Idle /\ stage = "done" => said.closed = said.opened
    /\ committed <= said.closed

\* Sudden death, the cap or the runaway guard end every run.
Terminates == <>(stage \in {"done", "raised"})
=============================================================================
