------------------------- MODULE MCOfflineLearning -------------------------
(* Alone: a hill climb, draws at random, and two experiments.  Beside each *)
(* other: one experiment started twice, at different times; and one without *)
(* its design document beside a search of another seed.                    *)
EXTENDS OfflineLearning, TLC

CONSTANTS p1, p2

StylesOf == <<"evade", "press">>
ParentOf == Point(1, "press")
MaxPOf == [num |-> 1, den |-> 2]
ScheduleOf == <<1>>
Clone == <<Snapped(1, "press")>>
Better1 == <<Snapped(2, "press")>>
Experiment1(at, doc, arms, answers) ==
    [kind |-> "experiment", seed |-> 1, at |-> at, doc |-> doc, budget |-> 2,
     arms |-> arms, answers |-> answers]
Search(strategy, budget) ==
    [kind |-> "learn", seed |-> 2, at |-> 1, doc |-> FALSE, budget |-> budget,
     arms |-> <<strategy>>, answers |-> {<<>>, Clone, Better1}]
Both(c, d) == (p1 :> c) @@ (p2 :> d)
Doc == "llm_full_design_doc"
PlansOf ==
    {p1 :> Search("hill_climb", 6), p1 :> Search("random_restart", 3),
     p1 :> Search("llm_exemplar", 2),
     p1 :> Experiment1(1, TRUE, <<Doc, "llm_exemplar">>, {Better1}),
     p1 :> Experiment1(1, TRUE, <<Doc, "llm_decision_diff">>, {Better1}),
     Both(Experiment1(1, TRUE, <<Doc>>, {Better1}), Experiment1(2, TRUE, <<Doc>>, {Better1})),
     Both(Experiment1(1, FALSE, <<"llm_off", Doc>>, {Better1}), Search("llm_off", 2))}
=============================================================================
