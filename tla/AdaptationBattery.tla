------------------------- MODULE AdaptationBattery -------------------------
(***************************************************************************)
(* scripts/run_lgate2_adaptation_battery.py: does a promotion change what  *)
(* a later match decides?                                                  *)
(*                                                                         *)
(* Its battery mode flies three phases over one lane: a baseline whose cap *)
(* forbids promotion, a promote phase that stops at the first row with a   *)
(* promotion, and a post phase whose cap freezes the chain there.  Its     *)
(* live-fire mode flies until the duel gate promotes once, then one match  *)
(* that must fly the promoted policy.  What the rows say is asserted       *)
(* between the phases; a failed assertion, unlike a casualty, ends the     *)
(* process at once.                                                        *)
(*                                                                         *)
(* The evaluator is LiveLearning's; here it is the generation a match      *)
(* flies and whether it promoted.  Policies are counted in steps above     *)
(* genesis, so the candidate of generation g is worth g + 1.               *)
(***************************************************************************)
EXTENDS EvidenceBattery

CONSTANTS N,            \* --n, or 1 confirming match in live-fire
          Attempts      \* --promote-attempts, --lf-matches

ASSUME AdaptationAssumption == N \in Nat \ {0} /\ Attempts \in Nat \ {0}

VARIABLES
    phase,        \* "baseline", "promote", "post"
    phaseRows     \* the matches behind the rows of each phase, in order

phases == <<phase, phaseRows>>

Adaptation == kind \in {"adaptation", "livefire"}

Phases == {"baseline", "promote", "post"}
NoRows == [p \in Phases |-> <<>>]

AdaptationInit == phase = "baseline" /\ phaseRows = NoRows

(* Mutant of Cap: a cap of its own for each phase, one promotion apart.     *)
CapOfItsOwn(p) == CASE p = "baseline" -> 0 [] p = "promote" -> 1 [] p = "post" -> 2

(* _phase_caps, in steps above genesis; live-fire has no cap.              *)
Cap(p) == IF p = "baseline" THEN 0 ELSE 1
CanPromote(g) == kind = "livefire" \/ g + 1 <= Cap(phase)

(* The seed blocks of the phases are disjoint.                             *)
Block(p) == CASE p = "baseline" -> 0 [] p = "promote" -> 100 [] p = "post" -> 200
PhaseSeeds(p) ==
    [i \in 1 .. (IF p = "promote" THEN Attempts
                 ELSE IF kind = "livefire" THEN 1 ELSE N) |-> Block(p) + i]

PromotionsIn(p) == {i \in DOMAIN phaseRows[p] : ledger[phaseRows[p][i]].promoted}
Promotion == phaseRows["promote"][CHOOSE i \in PromotionsIn("promote") :
                                      \A j \in PromotionsIn("promote") : i <= j]

Enter(p) ==
    /\ phase' = p
    /\ todo' = PhaseSeeds(p)
    /\ pc' = "next"
    /\ UNCHANGED <<exit, kind, flown, skipped, casualties, phaseRows, lane, producer>>

AbortsWith(code) ==
    /\ Exits(code)
    /\ UNCHANGED <<kind, todo, flown, skipped, casualties, phases, lane, producer>>

(* The end of the plan.  Live-fire's summary has a name of its own.        *)
EndsWith(code) ==
    /\ Exits(code)
    /\ IF kind = "adaptation" THEN WriteSummary(skipped) ELSE UNCHANGED summary
    /\ UNCHANGED <<kind, todo, flown, skipped, casualties, phases, ledger, raw, kept, producer>>

-----------------------------------------------------------------------------
EnterFirst ==
    /\ pc = "boot" /\ Adaptation
    /\ Enter(IF kind = "adaptation" THEN "baseline" ELSE "promote")

NoMatch ==
    /\ pc = "next" /\ Adaptation /\ todo # <<>>
    /\ Casualty({})
    /\ UNCHANGED <<ledger, producer, phases>>

(* Admission snapshots the policy the chain stands at.                     *)
Fly ==
    /\ pc = "next" /\ Adaptation /\ todo # <<>>
    /\ ledger' = Started(Head(todo))
    /\ pc' = "flying"
    /\ UNCHANGED <<exit, kind, todo, flown, skipped, casualties, raw, summary, kept, producer, phases>>

Falls ==
    /\ pc = "flying" /\ Adaptation
    /\ Casualty({Current})
    /\ UNCHANGED <<ledger, producer, phases>>

(* The end of the match, with POLICY_PROMOTED among its last events.       *)
Lands ==
    /\ pc = "flying" /\ Adaptation
    /\ \E promoted \in BOOLEAN :
          /\ promoted => CanPromote(ledger[Current].gen)
          /\ ledger' = Ended(Current, promoted)
    /\ pc' = "measure"
    /\ UNCHANGED <<exit, kind, todo, flown, skipped, casualties, raw, summary, kept, producer, phases>>

(* After a promotion the promote phase flies no further.                   *)
Remaining == IF phase = "promote" /\ ledger[Current].promoted THEN <<>> ELSE Tail(todo)

(* The row of the match; or a casualty, although the match has ended and   *)
(* may have promoted; or an assertion about the match itself.              *)
MeasureMatch ==
    /\ pc = "measure" /\ Adaptation
    /\ \/ /\ raw' = Append(raw, Row(Current))
          /\ flown' = Append(flown, Current)
          /\ phaseRows' = [phaseRows EXCEPT ![phase] = Append(@, Current)]
          /\ todo' = Remaining
          /\ pc' = "next"
          /\ UNCHANGED <<exit, kind, skipped, casualties, summary, kept, ledger, producer, phase>>
       \/ Casualty({Current}) /\ UNCHANGED <<ledger, producer, phases>>
       \/ AbortsWith("exit1")

Gen(m) == ledger[m].gen

(* The cap must have forbidden promotion, and every match must have flown  *)
(* generation 0.                                                           *)
BaselineHeld ==
    /\ PromotionsIn("baseline") = {}
    /\ \A i \in DOMAIN phaseRows["baseline"] : Gen(phaseRows["baseline"][i]) = 0

PostHeld ==
    \A i \in DOMAIN phaseRows["post"] :
        Gen(phaseRows["post"][i]) = Gen(Promotion) + 1
            /\ (kind = "adaptation" => Gen(phaseRows["post"][i]) = 1)

PhaseOver(p) == pc = "next" /\ Adaptation /\ phase = p /\ todo = <<>>

EndBaseline ==
    /\ PhaseOver("baseline")
    /\ IF BaselineHeld THEN Enter("promote") ELSE AbortsWith("exit1")

(* Without a promoting row there is nothing to compare: the battery says   *)
(* so and fails; live-fire reports that the gate declined.                 *)
EndPromote ==
    /\ PhaseOver("promote")
    /\ IF PromotionsIn("promote") # {} THEN Enter("post")
       ELSE IF kind = "adaptation" THEN AbortsWith("exit1")
       ELSE EndsWith(ExitCode)

EndPost ==
    /\ PhaseOver("post")
    /\ IF PostHeld THEN EndsWith(ExitCode) ELSE AbortsWith("exit1")

AdaptationNext ==
    \/ EnterFirst \/ NoMatch \/ Fly \/ Falls \/ Lands \/ MeasureMatch
    \/ EndBaseline \/ EndPromote \/ EndPost
=============================================================================
