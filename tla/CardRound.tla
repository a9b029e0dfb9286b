------------------------------ MODULE CardRound ------------------------------
(***************************************************************************)
(* Card rounds (cards/, match/card_adapter.py, the card half of            *)
(* match/runner.py) and the validator that replays them                    *)
(* (replay/card_round.py).  A round deals a hand to every seat, lets the   *)
(* seat's programmer and the selected rules fill its free registers,       *)
(* resolves the registers in priority order and discards the hands; decks  *)
(* and plans are committed when the last register is done.  A card is an   *)
(* index of Catalog, which is sorted by card id; its effect is the way a   *)
(* movement goes, the weapon slot of an attack, the target mode of a       *)
(* special card.  Piles and hands are bags, since a shuffled pile tells    *)
(* nothing but what is in it.                                              *)
(***************************************************************************)
EXTENDS Integers, Sequences, FiniteSets, Functions

CONSTANTS
    Seats,      \* card seats, numbered in the order of their names
    Catalog,    \* sequence of [category, priority, effect], by card id
    Setups      \* overlays to check: decks, quotas, registers, rules, cadence

Kinds == DOMAIN Catalog
NoCard == 0
Bags == [Kinds -> Nat]

\* The physical copies that f counts, f[x] of each x, and their number.
Copies(f) == UNION {{x} \X (1 .. f[x]) : x \in DOMAIN f}
Size(f) == Cardinality(Copies(f))

Rules == {"prefer_attack_cards", "ensure_movement_card", "close_the_gap"}

\* decks: pile -> declared multiset; quota: seat -> draws from each of its piles;
\* registers: seat -> register_count; shared: a single deck for both seats, which
\* holds a hand (ModelSODeck); rules: balance_rule_pack.handler_ids; policy: seats
\* of deterministic pilots.
ASSUME CardAssumption ==
    /\ Seats \subseteq Nat /\ Seats # {} /\ IsFiniteSet(Seats)
    /\ Catalog \in Seq([category : STRING, priority : Nat, effect : STRING])
    /\ \A s \in Setups :
           /\ s.decks \in [DOMAIN s.decks -> Bags] /\ s.policy \subseteq Seats
           /\ s.registers \in [Seats -> Nat \ {0}] /\ s.rules \in Seq(Rules)
           /\ DOMAIN s.quota = Seats
           /\ \A q \in Seats : \A p \in DOMAIN s.quota[q] :
                  /\ p \in DOMAIN s.decks /\ IsFiniteSet(DOMAIN s.quota[q])
                  /\ s.quota[q][p] \in Nat
                  /\ s.shared => s.quota[q][p] <= Size(s.decks[p])
           /\ s.paced \in BOOLEAN /\ s.shared \in BOOLEAN

VARIABLES
    setup,      \* the overlay of this match, constant
    piles,      \* committed deck state: pile -> draw and discard bags
    previous,   \* _card_previous_plans: seat -> register -> card
    stage,      \* where the round stands
    dealt,      \* deck state the round would commit
    parts,      \* partitions dealt so far: seat -> pile -> bag
    hands,      \* hands dealt so far, by seat
    depth,      \* lock_depth of each seat
    wanted,     \* cards that express what the seat's pilot decided
    plans,      \* plans committed so far, by seat
    rows,       \* REGISTER_RESOLVED rows of the round, in order
    published   \* how many of them are published

roundVars == <<setup, piles, previous, stage, dealt, parts, hands, depth, wanted,
               plans, rows, published>>

-----------------------------------------------------------------------------
(* Bags of cards, and orders.                                                *)

Nothing == [k \in Kinds |-> 0]
Plus(a, b) == [k \in Kinds |-> a[k] + b[k]]
Minus(a, b) == [k \in Kinds |-> a[k] - b[k]]
Within(a, b) == \A k \in Kinds : a[k] <= b[k]
Total(bags) == [k \in Kinds |-> Size([x \in DOMAIN bags |-> bags[x][k]])]
Counted(plan) == [k \in Kinds |-> Cardinality({r \in DOMAIN plan : plan[r] = k})]
Low(m, n) == IF m < n THEN m ELSE n
High(m, n) == IF m < n THEN n ELSE m

\* S as a sequence, when before orders it: each element behind those before it.
Sorted(S, before) ==
    [i \in 1 .. Cardinality(S) |->
        CHOOSE x \in S : Cardinality({y \in S : <<y, x>> \in before}) = i - 1]

InOrder(S) == Sorted(S, {e \in S \X S : e[1] < e[2]})

\* By priority, then by card id.
ByValue(S) == Sorted(S, {e \in S \X S :
    \/ Catalog[e[1]].priority > Catalog[e[2]].priority
    \/ Catalog[e[1]].priority = Catalog[e[2]].priority /\ e[1] < e[2]})

-----------------------------------------------------------------------------
(* The dealer.                                                               *)

\* The hands of n cards a shuffled pile may give.
Draws(pile, n) == {h \in [Kinds -> 0 .. n] : Within(h, pile) /\ Size(h) = n}

\* DealerCompute.deal_hand_for_seat: an empty draw pile is refilled with the
\* shuffled discards, once; with both empty the hand stays short.
Deal(pile, n) ==
    LET short == High(0, n - Size(pile.draw))
    IN  IF short = 0
        THEN {[hand |-> h, draw |-> Minus(pile.draw, h), discard |-> pile.discard] :
                  h \in Draws(pile.draw, n)}
        ELSE {[hand |-> Plus(pile.draw, h), draw |-> Minus(pile.discard, h),
               discard |-> Nothing] : h \in Draws(pile.discard, Low(short, Size(pile.discard)))}

\* One seat's partitions, drawn from each pile of its quota.
DealSeat(from, seat) ==
    LET quota == setup.quota[seat]
        deals == [p \in DOMAIN quota |-> Deal(from[p], quota[p])]
    IN  {d \in [DOMAIN quota -> UNION Range(deals)] : \A p \in DOMAIN quota : d[p] \in deals[p]}

\* A deal accounts for exactly the cards of its deck.
Conserved(deal, pile) == Plus(deal.hand, Plus(deal.draw, deal.discard)) = setup.decks[pile]

-----------------------------------------------------------------------------
(* Plans: what a programmer may return, and the rules applied to it.         *)

\* heat_locked_indices: a suffix, and one register always stays free.
Locked(seat) ==
    LET n == setup.registers[seat]
    IN  (n - Low(depth[seat], n - 1)) .. (n - 1)

Free(seat) == (0 .. setup.registers[seat] - 1) \ Locked(seat)

\* program_for_seat, _validate_plan
Legal(plan, seat) == DOMAIN plan = Free(seat) /\ Within(Counted(plan), hands[seat])

Held(seat, category) == {k \in Kinds : hands[seat][k] > 0 /\ Catalog[k].category = category}
Spare(seat, plan) == Minus(hands[seat], Counted(plan))
Registers(plan, category) == {r \in DOMAIN plan : Catalog[plan[r]].category = category}
Heading(plan, way) == {r \in Registers(plan, "movement") : Catalog[plan[r]].effect = way}

\* plan with the cards of a sequence put into registers, one each, while both last.
Replace(plan, regs, cards) ==
    [r \in DOMAIN plan |->
        IF \E i \in 1 .. Low(Len(regs), Len(cards)) : regs[i] = r
        THEN cards[CHOOSE i \in DOMAIN regs : regs[i] = r] ELSE plan[r]]

\* PreferAttackCardsRuleHandler: one register for each unused attack card id.
PreferAttack(seat, plan) ==
    Replace(plan, InOrder(DOMAIN plan \ Registers(plan, "attack")),
            InOrder({k \in Held(seat, "attack") : Counted(plan)[k] = 0}))

\* EnsureMovementCardRuleHandler: only a plan that does not move is changed.
EnsureMovement(seat, plan) ==
    IF Registers(plan, "movement") # {} THEN plan
    ELSE Replace(plan, <<Cardinality(DOMAIN plan) - 1>>, ByValue(Held(seat, "movement")))

\* Copies of cards, by the value of the card.
BestFirst(copies) ==
    {e \in copies \X copies :
        LET j == e[1][1]
            k == e[2][1]
        IN  \/ Catalog[j].priority > Catalog[k].priority
            \/ Catalog[j].priority = Catalog[k].priority /\ j < k
            \/ j = k /\ e[1][2] < e[2][2]}

\* CloseTheGapRuleHandler: out of reach, retreats become spare approaches, every
\* copy of the best of them first.
CloseTheGap(seat, plan, far) ==
    IF ~far THEN plan
    ELSE LET approaches == {k \in Held(seat, "movement") :
                               Catalog[k].effect = "toward" /\ Spare(seat, plan)[k] > 0}
             copies == Copies([k \in approaches |-> Spare(seat, plan)[k]])
             best == Sorted(copies, BestFirst(copies))
         IN  Replace(plan, InOrder(Heading(plan, "away")), [i \in DOMAIN best |-> best[i][1]])

Swap(plan, i, j) == [plan EXCEPT ![i] = plan[j], ![j] = plan[i]]

\* The register with the lowest priority, the last of equals.
Cheapest(plan) ==
    CHOOSE r \in DOMAIN plan : \A q \in DOMAIN plan :
        \/ Catalog[plan[r]].priority < Catalog[plan[q]].priority
        \/ Catalog[plan[r]].priority = Catalog[plan[q]].priority /\ q <= r

\* Mutant: the card the policy wants is put in and left where it is.
LeadWithPolicyUnmoved(seat, plan, want) ==
    LET present == {r \in DOMAIN plan : plan[r] \in want}
        spare == {k \in want : Spare(seat, plan)[k] > 0}
    IN  IF present # {} \/ spare = {} THEN plan
        ELSE [plan EXCEPT ![Cheapest(plan)] = Head(ByValue(spare))]

\* PilotPolicyCategoryRule: the card the pilot's decision asks for, in the first
\* register, if the hand has one.
LeadWithPolicy(seat, plan, want) ==
    LET present == {r \in DOMAIN plan : plan[r] \in want}
        spare == {k \in want : Spare(seat, plan)[k] > 0}
        fixed == IF present # {} \/ spare = {} THEN plan
                 ELSE [plan EXCEPT ![Cheapest(plan)] = Head(ByValue(spare))]
        there == {r \in DOMAIN fixed : fixed[r] \in want}
    IN  IF there = {} THEN fixed ELSE Swap(fixed, 0, Head(InOrder(there)))

Applied(rule, seat, plan, far, want) ==
    CASE rule = "prefer_attack_cards" -> PreferAttack(seat, plan)
      [] rule = "ensure_movement_card" -> EnsureMovement(seat, plan)
      [] rule = "close_the_gap" -> CloseTheGap(seat, plan, far)
      [] rule = "pilot_policy" -> LeadWithPolicy(seat, plan, want)

\* The rules of a seat: the selected ones, then its own policy.
RulesOf(seat) == setup.rules \o IF seat \in setup.policy THEN <<"pilot_policy">> ELSE <<>>

\* The plan after each rule; a rule's result is validated like a programmer's.
Ruled(seat, plan, far, want) ==
    LET after[i \in 0 .. Len(RulesOf(seat))] ==
            IF i = 0 THEN plan ELSE Applied(RulesOf(seat)[i], seat, after[i - 1], far, want)
    IN  after

-----------------------------------------------------------------------------
(* Rows: RegisterExecutionReducer.                                           *)

RoundLength == setup.registers[CHOOSE s \in Seats :
                   \A q \in Seats : setup.registers[q] <= setup.registers[s]]

\* Every locked register has a card to repeat.
Resolvable == \A s \in Seats : Locked(s) \subseteq DOMAIN previous[s]

\* _resolve_one
Outcome(s, r) ==
    IF r >= setup.registers[s] THEN "auto_remain"
    ELSE IF r \in Locked(s) THEN "heat_locked" ELSE "resolved"
CardAt(s, r) ==
    IF r >= setup.registers[s] THEN NoCard
    ELSE IF r \in Locked(s) THEN previous[s][r] ELSE plans[s][r]

Urgency(s, r) == LET card == CardAt(s, r) IN IF card = NoCard THEN 0 ELSE Catalog[card].priority

\* resolve_register: by priority, then initiative, then seat.
Before(r, initiative) ==
    {e \in Seats \X Seats :
        LET mine == Urgency(e[1], r)
            other == Urgency(e[2], r)
        IN  \/ mine > other
            \/ mine = other /\ initiative[e[1]] > initiative[e[2]]
            \/ mine = other /\ initiative[e[1]] = initiative[e[2]] /\ e[1] < e[2]}

\* resolve_round: a row of every seat for each register.
AllRows(initiative) ==
    LET n == Cardinality(Seats)
        order == [r \in 0 .. RoundLength - 1 |-> Sorted(Seats, Before(r, initiative))]
    IN  [i \in 1 .. RoundLength * n |->
            LET r == (i - 1) \div n
                rank == (i - 1) % n
                seat == order[r][rank + 1]
            IN  [seat |-> seat, register |-> r, card |-> CardAt(seat, r),
                 outcome |-> Outcome(seat, r), rank |-> rank]]

\* Mutant: the plans are carried forward, without the registers that were locked.
CarriedFromPlans == plans

\* Mutant: the rows are sorted by register and not by seat.
CarriedOfAnySeat ==
    [s \in Seats |->
        LET mine == {i \in DOMAIN rows : rows[i].card # NoCard}
        IN  [r \in {rows[i].register : i \in mine} |->
                rows[CHOOSE i \in mine : rows[i].register = r].card]]

\* carry_forward_plans: the resolved rows that name a card.
Carried ==
    [s \in Seats |->
        LET mine == {i \in DOMAIN rows : rows[i].seat = s /\ rows[i].card # NoCard}
        IN  [r \in {rows[i].register : i \in mine} |->
                rows[CHOOSE i \in mine : rows[i].register = r].card]]

-----------------------------------------------------------------------------
(* A round, from the deal to the discards.                                   *)

NoOne == [s \in {} |-> 0]

\* f with seat, and what it has there.
With(f, seat, value) ==
    [s \in DOMAIN f \union {seat} |-> IF s = seat THEN value ELSE f[s]]

\* Seats are served in the order of their names.
IsNext(seat, done) == seat \notin DOMAIN done /\ \A q \in Seats \ DOMAIN done : seat <= q

RoundInit ==
    /\ setup \in Setups
    /\ piles = [p \in DOMAIN setup.decks |-> [draw |-> setup.decks[p], discard |-> Nothing]]
    /\ previous = [s \in Seats |-> NoOne]
    /\ stage = "idle" /\ dealt = piles /\ parts = NoOne /\ hands = NoOne
    /\ depth = [s \in Seats |-> 0] /\ wanted = [s \in Seats |-> {}]
    /\ plans = NoOne /\ rows = <<>> /\ published = 0

\* _run_card_round: a mech without a previous plan is never locked; the depth is
\* redline plus overload.
StartRound ==
    /\ stage \in {"idle", "committed"}
    /\ depth' \in {d \in [Seats -> 0 .. 2] :
                      \A s \in Seats : previous[s] = NoOne => d[s] = 0}
    /\ stage' = "dealing" /\ dealt' = piles
    /\ parts' = NoOne /\ hands' = NoOne /\ plans' = NoOne /\ wanted' = [s \in Seats |-> {}]
    /\ UNCHANGED <<setup, piles, previous, rows, published>>

\* CardRoundRuntime.deal: a short hand, or one that does not conserve the deck,
\* raises out of the round.  The hand is on the discards for who draws next.
DealHand(seat) ==
    /\ stage = "dealing" /\ IsNext(seat, hands)
    /\ \E d \in DealSeat(dealt, seat) :
           /\ parts' = With(parts, seat, [p \in DOMAIN d |-> d[p].hand])
           /\ hands' = With(hands, seat, Total([p \in DOMAIN d |-> d[p].hand]))
           /\ dealt' = [p \in DOMAIN dealt |->
                  IF p \in DOMAIN d
                  THEN [draw |-> d[p].draw, discard |-> Plus(d[p].discard, d[p].hand)]
                  ELSE dealt[p]]
           /\ stage' = IF \E p \in DOMAIN d : \/ Size(d[p].hand) < setup.quota[seat][p]
                                              \/ ~Conserved(d[p], p)
                       THEN "failed" ELSE stage
    /\ UNCHANGED <<setup, piles, previous, depth, wanted, plans, rows, published>>

Cards(category) == {k \in Kinds : Catalog[k].category = category}
WithEffect(category, effect) == {k \in Cards(category) : Catalog[k].effect = effect}

\* What a pilot's decision may ask for: the cards of a category, the attacks with
\* the weapon it chose, the switches to the mode it chose; or nothing.
Wishes ==
    LET effects == {Catalog[k].effect : k \in Kinds}
    IN  {{}} \union {Cards(c) : c \in {"vent", "attack", "movement", "special"}}
             \union {WithEffect(c, e) : c \in {"attack", "special"}, e \in effects}

\* program_for_seat: any legal plan, then the rules in their order.
Program(seat) ==
    /\ stage = "dealing" /\ DOMAIN hands = Seats /\ IsNext(seat, plans)
    /\ \E plan \in [Free(seat) -> Kinds], far \in BOOLEAN,
          want \in IF seat \in setup.policy THEN Wishes ELSE {{}} :
           /\ Legal(plan, seat)
           /\ LET after == Ruled(seat, plan, far, want)
              IN  /\ plans' = With(plans, seat, after[Len(RulesOf(seat))])
                  /\ stage' = IF \A i \in DOMAIN after : Legal(after[i], seat)
                              THEN stage ELSE "failed"
           /\ wanted' = [wanted EXCEPT ![seat] = want]
    /\ UNCHANGED <<setup, piles, previous, dealt, parts, hands, depth, rows, published>>

Commit ==
    /\ piles' = dealt /\ previous' = Carried /\ stage' = "committed"

\* CardRoundRuntime.sequence: the rows.  A paced round publishes those of its
\* first register, an atomic one all of them, whatever its intents do.
Resolve ==
    /\ stage = "dealing" /\ DOMAIN plans = Seats
    /\ IF ~Resolvable THEN stage' = "failed" /\ UNCHANGED <<rows, published>>
       ELSE \E initiative \in [Seats -> 0 .. 1] :
                /\ rows' = AllRows(initiative)
                /\ published' = IF setup.paced THEN Cardinality(Seats) ELSE Len(rows')
                /\ stage' = "latched"
    /\ UNCHANGED <<setup, piles, previous, dealt, parts, hands, depth, wanted, plans>>

\* Mutant: the rows of the next register are published one seat at a time.
AdvanceByRow ==
    /\ stage = "latched" /\ published < Len(rows)
    /\ published' = published + 1
    /\ UNCHANGED <<setup, piles, previous, stage, dealt, parts, hands, depth, wanted, plans, rows>>

\* _run_paced_card_round: every row of the next register, before its intents.
Advance ==
    /\ stage = "latched" /\ published < Len(rows)
    /\ published' = published + Cardinality(Seats)
    /\ UNCHANGED <<setup, piles, previous, stage, dealt, parts, hands, depth, wanted, plans, rows>>

Finish ==
    /\ stage = "latched" /\ published = Len(rows)
    /\ Commit
    /\ UNCHANGED <<setup, dealt, parts, hands, depth, wanted, plans, rows, published>>

\* _cancel_active_card_round: the match ended at an intent or between two ticks
\* of a paced round; nothing is committed.
Cancel ==
    /\ stage = "latched" /\ setup.paced
    /\ stage' = "cancelled"
    /\ UNCHANGED <<setup, piles, previous, dealt, parts, hands, depth, wanted, plans, rows,
                   published>>

RoundNext ==
    \/ StartRound
    \/ \E s \in Seats : DealHand(s) \/ Program(s)
    \/ Resolve \/ Advance \/ Finish \/ Cancel

RoundSpec == RoundInit /\ [][RoundNext]_roundVars

-----------------------------------------------------------------------------
(* replay/card_round.py: what _validate_structure refuses in a closed round. *)

Shown == 1 .. published
Used == {rows[i].register : i \in Shown}
At(r) == {i \in Shown : rows[i].register = r}
Refused(why, condition) == IF condition THEN {why} ELSE {}

Refusals ==
    Refused("phases", Shown = {})
    \union Refused("hands", IF setup.shared
        THEN \E p \in DOMAIN setup.decks : ~Within(Total(hands), setup.decks[p])
        ELSE \E s \in Seats : \E p \in DOMAIN parts[s] : ~Within(parts[s][p], setup.decks[p]))
    \union Refused("plans", \E s \in Seats : ~Within(Counted(plans[s]), hands[s]))
    \union Refused("order", \E i \in 2 .. published :
        \/ rows[i].register < rows[i - 1].register
        \/ rows[i].register = rows[i - 1].register /\ rows[i].rank < rows[i - 1].rank)
    \union Refused("repeats", \E i, j \in Shown :
        i # j /\ rows[i].register = rows[j].register /\ rows[i].seat = rows[j].seat)
    \union Refused("seats", \E r \in Used : {rows[i].seat : i \in At(r)} # Seats)
    \* With "order": contiguous from 0.
    \union Refused("ranks", \E r \in Used :
        {rows[i].rank : i \in At(r)} # 0 .. Cardinality(At(r)) - 1)
    \union Refused("absent", \E i \in Shown :
        rows[i].card # NoCard /\ hands[rows[i].seat][rows[i].card] = 0)

Closed == stage \in {"committed", "cancelled"}

-----------------------------------------------------------------------------
(* Properties.                                                               *)

\* A split pile may be declared smaller than its quota; nothing compares them.
Fillable(seat) == \A p \in DOMAIN setup.quota[seat] : setup.quota[seat][p] <= Size(setup.decks[p])

\* No round raises (cards/round.py, cards/registers.py): the dealer never runs
\* dry and conserves every deck, no rule makes a legal plan illegal, and a
\* heat-locked register always has a card to repeat, however often it was locked.
\* Only a pile that cannot fill its quota does, in the first deal of the match.
OnlyShortPilesFail == stage = "failed" => rows = <<>> /\ \E s \in Seats : ~Fillable(s)

\* What a locked register repeats is what that register did in the round before,
\* a repeated card included (carry_forward_plans).
LocksRepeatWhatWasResolved ==
    [][stage = "dealing" /\ stage' = "latched" =>
        \A i \in DOMAIN rows' : rows'[i].outcome = "heat_locked" =>
            \E j \in DOMAIN rows : /\ rows[j].seat = rows'[i].seat
                                   /\ rows[j].register = rows'[i].register
                                   /\ rows[j].card = rows'[i].card]_roundVars

\* Rounds follow each other without an error and without forgetting what is
\* locked: both of the above.
RoundsHold == []OnlyShortPilesFail /\ LocksRepeatWhatWasResolved

Handed(s, want) == \E k \in want : hands[s][k] > 0

\* What the rules promise, whatever plan and rules came before: a seat with a
\* policy leads with a card its pilot asked for if the hand has one, and
\* ensure_movement_card, when nothing follows it, leaves a plan that moves.
RulesDeliver ==
    stage = "latched" => \A s \in Seats :
        /\ Handed(s, wanted[s]) => plans[s][0] \in wanted[s]
        /\ /\ s \notin setup.policy /\ setup.rules # <<>>
           /\ setup.rules[Len(setup.rules)] = "ensure_movement_card" /\ Held(s, "movement") # {}
           => Registers(plans[s], "movement") # {}

\* Replay accepts every round the runner published, cancelled at any intent or
\* finished ("Every match must be replayable from events", the design document),
\* but for two: a locked register may repeat a card of the last hand,
\* and a shared deck may be reshuffled between the two hands.
OnlyRepeatsRefused ==
    Closed =>
        /\ Refusals \subseteq {"absent", "hands"}
        /\ "absent" \in Refusals => \E i \in Shown : rows[i].outcome = "heat_locked"
        /\ "hands" \in Refusals => setup.shared
=============================================================================
