---------------------------- MODULE LearnSearch ----------------------------
(***************************************************************************)
(* The pure half of offline learning: learning/search.py, stats.py,        *)
(* promotion.py and the results of learning/duel_evaluator.py.             *)
(*                                                                         *)
(* A candidate is a point of the parameter lattice, here one numeric and   *)
(* one categorical parameter.  Its identity, spec_hash, is computed from   *)
(* the JSON of the values.  A value a tuner proposed leaves the snapping   *)
(* as an unrounded float, mostly another identity than the lattice's own   *)
(* point: such a candidate is "snapped".  One whose float needed no        *)
(* rounding is the lattice's point.                                        *)
(*                                                                         *)
(* A battery plays two duels for each seed, sides swapped.  A duel is      *)
(* retried on a retryable transport error under fresh names; any other     *)
(* error, or the last attempt's, ends the battery without a result.        *)
(***************************************************************************)
EXTENDS Integers, Sequences, FiniteSets, FiniteSetsExt, Combinatorics

CONSTANTS Top,            \* the numeric parameter's lattice is 0 .. Top
          Styles,        \* the categorical parameter's choices, as declared
          Parent,         \* the parent's point
          SearchSeeds, HoldoutSeeds,      \* sizes of the two batteries
          MaxAttempts,    \* 1 + transport_retry_budget
          Excess,         \* overloads of the candidate beyond the parent's
          MaxP, MinDecisive, MaxDraws, MaxExcess, MinSteps   \* thresholds

ASSUME SearchAssumption ==
    /\ Top \in Nat /\ Len(Styles) > 0
    /\ Parent.num \in 0 .. Top /\ \E i \in DOMAIN Styles : Styles[i] = Parent.cat
    /\ {SearchSeeds, HoldoutSeeds, MaxAttempts} \subseteq Nat \ {0}

-----------------------------------------------------------------------------
(* Candidates.                                                             *)
Point(n, c) == [num |-> n, cat |-> c, snapped |-> FALSE]
Snapped(n, c) == [Point(n, c) EXCEPT !.snapped = TRUE]
Points == {Point(n, Styles[i]) : n \in 0 .. Top, i \in DOMAIN Styles}
SameValue(c, d) == c.num = d.num /\ c.cat = d.cat

(* iter_grid: the last name varies fastest.                                *)
Grid == [k \in 1 .. (Top + 1) * Len(Styles) |->
            Point((k - 1) \div Len(Styles), Styles[((k - 1) % Len(Styles)) + 1])]

(* hill_climb_neighbors: m lattice steps down and up, clamped, and every   *)
(* other choice.                                                           *)
Clamp(n) == IF n < 0 THEN 0 ELSE IF n > Top THEN Top ELSE n
Neighbours(c, m) ==
    LET steps == SelectSeq(<<Clamp(c.num - m), Clamp(c.num + m)>>, LAMBDA n : n # c.num)
        others == SelectSeq(Styles, LAMBDA x : x # c.cat)
    IN  [i \in DOMAIN steps |-> Point(steps[i], c.cat)]
            \o [i \in DOMAIN others |-> Point(c.num, others[i])]

(* param_distance, in lattice steps; another choice is the whole range.    *)
Distance(c, d) ==
    IF c.cat # d.cat THEN IF Top > 1 THEN Top ELSE 1
    ELSE IF c.num > d.num THEN c.num - d.num ELSE d.num - c.num

-----------------------------------------------------------------------------
(* One duel: who won it, and at which attempt.  A seed is won by who wins  *)
(* it from both sides.                                                     *)
Winners == {"candidate", "parent", "draw"}
Duels == [winner : Winners, attempt : 1 .. MaxAttempts]

AggregatePair(a, b) == IF a = b THEN a ELSE "draw"

(* What a battery of duels leaves in the evaluation ledgers that matters   *)
(* to a later reader: a duel the candidate won, a duel scored in a retry.  *)
Left(duels) ==
    {x \in {"won", "retried"} : \E i \in DOMAIN duels :
        IF x = "won" THEN duels[i].winner = "candidate" ELSE duels[i].attempt > 1}

Count(outcomes, w) == Cardinality({i \in DOMAIN outcomes : outcomes[i] = w})

(* evaluate: the outcomes of n seeds, counted.                             *)
ResultOf(n, duels) ==
    LET outcomes == [i \in 1 .. n |->
            AggregatePair(duels[2 * i - 1].winner, duels[2 * i].winner)]
    IN  [wins |-> Count(outcomes, "candidate"), losses |-> Count(outcomes, "parent"),
         draws |-> Count(outcomes, "draw"), left |-> Left(duels)]
SearchResults == {ResultOf(SearchSeeds, d) : d \in [1 .. 2 * SearchSeeds -> Duels]}
HoldoutResults == {ResultOf(HoldoutSeeds, d) : d \in [1 .. 2 * HoldoutSeeds -> Duels]}

-----------------------------------------------------------------------------
(* paired_comparison and the exact sign test: a p-value is a fraction.     *)
Decisive(r) == r.wins + r.losses
SignTest(r) ==
    LET n == Decisive(r)
        k == IF r.wins > r.losses THEN r.wins ELSE r.losses
        tail == MapThenSumSet(LAMBDA i : choose(n, i), k .. n)
    IN  [num |-> IF 2 * tail > 2^n THEN 2^n ELSE 2 * tail, den |-> 2^n]
AtMost(p, q) == p.num * q.den <= q.num * p.den
Positive(r) == r.wins > r.losses
Significant(r) == AtMost(SignTest(r), MaxP)

(* _select_best's order: p-value, then win rate; spec_hash breaks ties.    *)
Better(r, s) ==
    \/ ~AtMost(SignTest(s), SignTest(r))
    \/ /\ AtMost(SignTest(r), SignTest(s)) /\ AtMost(SignTest(s), SignTest(r))
       /\ r.wins * Decisive(s) > s.wins * Decisive(r)

(* Who did not beat the base is no candidate for the gate; without one,    *)
(* nothing is selected.                                                    *)
Positives(entries) == {e \in entries : Positive(e.result)}

(* Mutant of SelectBest: candidates that lost may be selected.             *)
SelectBestOfAll(entries) ==
    {e \in entries : \A f \in entries : ~Better(f.result, e.result)}

SelectBest(entries) ==
    {e \in Positives(entries) : \A f \in Positives(entries) : ~Better(f.result, e.result)}

(* evaluate_promotion: all the rules that fail, none short-circuited.      *)
Reasons(cand, search, holdout) ==
    {x \in {"wrong_direction", "not_significant", "insufficient_decisive_n",
            "overload_regression", "draw_rate_exceeded", "trivial_clone",
            "holdout_regression"} :
        \/ x = "wrong_direction" /\ ~Positive(search.result)
        \/ x = "not_significant" /\ ~Significant(search.result)
        \/ x = "insufficient_decisive_n" /\ Decisive(search.result) < MinDecisive
        \/ x = "overload_regression" /\ search.excess + holdout.excess > MaxExcess
        \/ x = "draw_rate_exceeded" /\ search.result.draws > MaxDraws
        \/ x = "trivial_clone" /\ Distance(cand, Parent) < MinSteps
        \/ x = "holdout_regression" /\ holdout.result.wins < holdout.result.losses}
=============================================================================
