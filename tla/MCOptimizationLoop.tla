------------------------- MODULE MCOptimizationLoop -------------------------
(* OptimizationLoop for TLC.  Every strategy, with early_stop unset and set; *)
(* grids with one and with two axes, larger and smaller than max_iterations; *)
(* launches that overlap, and for the hypotheses also launches in turn.      *)
EXTENDS OptimizationLoop

Base == [strategy |-> "manual", size |-> 2, agents |-> 0, params |-> 0,
         max_iterations |-> 3, early_stop |-> "unset", min_delta |-> 1, patience |-> 1,
         operator |-> ">=", target |-> 1,
         if_regression_fails |-> "investigate", if_guardrail_fails |-> "reject",
         launched |-> "in_turn", analysed |-> FALSE]

Grids == {[Base EXCEPT !.strategy = "grid", !.agents = a, !.params = p, !.early_stop = s] :
             a \in {0, 2}, p \in {0, 2}, s \in {"unset", "true"}}

MCExperiments ==
    {[e EXCEPT !.max_iterations = 4] : e \in {g \in Grids : g.early_stop = "unset"}}
    \cup {[e EXCEPT !.early_stop = "false"] : e \in Grids}
    \cup {e \in Grids : e.agents * e.params > 0}
    \cup {[Base EXCEPT !.early_stop = s] : s \in {"unset", "false"}}
    \cup {[Base EXCEPT !.launched = "freely"]}
    \cup {[Base EXCEPT !.strategy = "random", !.size = 4, !.patience = 2]}
    \cup {[Base EXCEPT !.strategy = "llm_proposer", !.operator = "<", !.patience = 2, !.analysed = TRUE,
                         !.launched = l] : l \in {"in_turn", "freely"}}

=============================================================================
