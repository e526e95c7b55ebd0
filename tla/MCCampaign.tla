----------------------------- MODULE MCCampaign -----------------------------
(* Instance of Campaign for TLC.                                           *)
EXTENDS Campaign

MCCandidates == 1 .. 4
MCRejected   == {4}
MCPosition   == <<2, 0, 3, 1>>
MCFeature    == <<0, 1, 5, 2>>
MCRungCost   == [r \in 0 .. 2 |-> 2 * r]

Result(verdict, goals, hard, cost) ==
    [verdict |-> verdict, goals |-> goals, hard |-> hard, cost |-> cost]
MCOutcomes == {Result("invalid", <<0, 0>>, TRUE, 0), Result("incomplete", <<0, 0>>, FALSE, 1),
               Result("infeasible", <<0, 1>>, TRUE, 1), Result("feasible", <<1, 3>>, TRUE, 2),
               Result("feasible", <<2, 1>>, FALSE, 1)}

Unlimited == [evaluations |-> None, high |-> None, cost |-> None, target |-> None,
              rounds |-> None, promote |-> 50, pareto |-> FALSE, diversity |-> TRUE]
MCSpecs == {Unlimited, [Unlimited EXCEPT !.evaluations = 2], [Unlimited EXCEPT !.high = 1],
            [Unlimited EXCEPT !.cost = 2], [Unlimited EXCEPT !.target = 67],
            [Unlimited EXCEPT !.rounds = 1],
            [Unlimited EXCEPT !.pareto = TRUE, !.diversity = FALSE]}
=============================================================================
