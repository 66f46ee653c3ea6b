---------------------------- MODULE Aggregation -----------------------------
(* How the runs of single cases become the metrics of an iteration            *)
(* (optimization/aggregator.py), in one process or from the rows the workers  *)
(* of a sharded iteration have stored (optimization/scenario_outcomes.py).    *)
EXTENDS Integers, FiniteSets, FiniteSetsExt, Sequences, SequencesExt

CONSTANTS
    Graders,
    Modes,         \* failure modes
    CaseSpecs,     \* [weights : mode -> severity, critical : set of modes]
    CaseRuns,      \* sequences of repetitions [error, grades : grader -> [label, modes]]
    Costs,         \* [duration, cost] of a case
    Trees,         \* breakdown trees [key, score or -1, weight, kids]
    CaseBound      \* bound: cases

VARIABLES
    outcomes       \* the outcomes of the cases, in the order they finished

vars == <<outcomes>>

Sum(S, value(_)) == MapThenSumSet(value, S)

----------------------------------------------------------------------------
(* One case                                                                   *)
Severity == [error |-> 4, fail |-> 3, partial |-> 2, skipped |-> 1, pass |-> 0]

\* Worst-of over the graders.
pick_label(labels) ==
    IF labels = {} THEN "skipped"
    ELSE CHOOSE l \in labels : \A m \in labels : Severity[m] <= Severity[l]

outcome_for(spec, reps, cost, trees) ==
    [per_repetition_label |->
        [i \in 1..Len(reps) |-> IF reps[i].error THEN "error"
                                ELSE pick_label({reps[i].grades[g].label : g \in DOMAIN reps[i].grades})],
     per_grader_label |->
        [g \in DOMAIN reps[1].grades |-> [i \in 1..Len(reps) |-> reps[i].grades[g].label]],
     failure_modes |->
        [m \in Modes |-> Cardinality({p \in (1..Len(reps)) \X Graders :
                            p[2] \in DOMAIN reps[p[1]].grades /\ m \in reps[p[1]].grades[p[2]].modes})],
     failure_weights |-> spec.weights, critical_failure_modes |-> spec.critical,
     cost_usd |-> cost.cost, duration_ms |-> cost.duration, breakdowns |-> trees,
     history |-> reps]

errored(o) == o.per_repetition_label[1] = "error"
pass_at_1(o) == IF o.per_repetition_label[1] = "pass" THEN 1 ELSE 0

Finish ==
    /\ Len(outcomes) < CaseBound
    /\ \E s \in CaseSpecs, r \in CaseRuns, c \in Costs, t \in Trees :
          outcomes' = Append(outcomes, outcome_for(s, r, c, t))

Init == outcomes = <<>>
Next == Finish
Spec == Init /\ [][Next]_vars

----------------------------------------------------------------------------
(* Metrics.  A rate is [num, den]; no case gives 0 over 1.                    *)
All(os) == 1..Len(os)
Rate(num, den) == IF den = 0 THEN [num |-> 0, den |-> 1] ELSE [num |-> num, den |-> den]
Same(r, s) == r.num * s.den = s.num * r.den
AtMost(r, s) == r.num * s.den <= s.num * r.den

\* pass@1 leaves out the cases that have no verdict.
PassAt1(os) ==
    LET scored == {i \in All(os) : ~errored(os[i])}
    IN  Rate(Sum(scored, LAMBDA i : pass_at_1(os[i])), Cardinality(scored))

Window(o, k) == SubSeq(o.per_repetition_label, 1, IF k < Len(o.per_repetition_label) THEN k
                                                  ELSE Len(o.per_repetition_label))

\* pass@k for k above one: some repetition of the window passes.
PassAt(os, k) ==
    Rate(Cardinality({i \in All(os) : "pass" \in ToSet(Window(os[i], k))}), Len(os))

\* pass^k: the case has k repetitions and all of them pass.
PassAll(os, k) ==
    Rate(Cardinality({i \in All(os) : /\ Len(os[i].per_repetition_label) >= k
                                      /\ ToSet(Window(os[i], k)) = {"pass"}}), Len(os))

recovery_rate(os) ==
    LET failed == {i \in All(os) : os[i].per_repetition_label[1] # "pass"}
    IN  Rate(Cardinality({i \in failed : "pass" \in ToSet(os[i].per_repetition_label)}),
             Cardinality(failed))

\* pass@1 against the labels of one grader, over the cases it ran on.
PassAt1For(os, g) ==
    LET ran == {i \in All(os) : g \in DOMAIN os[i].per_grader_label}
    IN  Rate(Cardinality({i \in ran : os[i].per_grader_label[g][1] = "pass"}), Cardinality(ran))

per_grader_pass_rate(os) ==
    [g \in UNION {DOMAIN os[i].per_grader_label : i \in All(os)} |-> PassAt1For(os, g)]

error_rate(os) == Rate(Cardinality({i \in All(os) : errored(os[i])}), Len(os))

----------------------------------------------------------------------------
(* Guardrails                                                                 *)

critical_failure_count(os) ==
    Sum(All(os), LAMBDA i : Sum(os[i].critical_failure_modes, LAMBDA m : os[i].failure_modes[m]))

weighted_failure_total(os) ==
    Sum(All(os), LAMBDA i : Sum(DOMAIN os[i].failure_weights,
                                LAMBDA m : os[i].failure_modes[m] * os[i].failure_weights[m]))

Latencies(os) == SortSeq([i \in All(os) |-> os[i].duration_ms], <)

\* 100 times the percentile: linear interpolation between the neighbours of the rank.
percentile(sorted, q) ==
    LET rank == q * (Len(sorted) - 1)
        low == rank \div 100
        frac == rank % 100
    IN  IF Len(sorted) = 1 \/ low + 1 >= Len(sorted) THEN 100 * sorted[Len(sorted)]
        ELSE 100 * sorted[low + 1] + frac * (sorted[low + 2] - sorted[low + 1])

\* A figure of costs, durations or weights is given when there is one to speak of; that of
\* critical failures always is.
Given(total, figure) == IF total > 0 THEN {figure} ELSE {}

guardrails(os) ==
    LET cost == Sum(All(os), LAMBDA i : os[i].cost_usd)
        duration == Sum(All(os), LAMBDA i : os[i].duration_ms)
        weighted == weighted_failure_total(os)
    IN  [cost |-> Given(cost, Rate(cost, Len(os))),
         latency |-> Given(duration, [q \in {50, 95, 99} |-> percentile(Latencies(os), q)]),
         weighted |-> Given(weighted, weighted),
         critical |-> critical_failure_count(os)]

----------------------------------------------------------------------------
(* The funnel: nodes of one key are merged, level by level.                   *)
Roots(os) == FlattenSeq([i \in All(os) |-> os[i].breakdowns])
Kids(nodes) == FlattenSeq([i \in 1..Len(nodes) |-> nodes[i].kids])
Keys(nodes) == {nodes[i].key : i \in 1..Len(nodes)}
OfKey(nodes, key) == SelectSeq(nodes, LAMBDA n : n.key = key)
Scored(nodes) == {i \in 1..Len(nodes) : nodes[i].score >= 0}

\* The mean of the scores by weight, over the nodes that have one; no weight, no mean.
mean_score(nodes) ==
    LET weight == Sum(Scored(nodes), LAMBDA i : nodes[i].weight)
    IN  [scored |-> weight > 0,
         mean |-> Rate(Sum(Scored(nodes), LAMBDA i : nodes[i].score * nodes[i].weight), weight)]

Node(nodes, key) ==
    [count |-> Len(OfKey(nodes, key)), mean_score |-> mean_score(OfKey(nodes, key)),
     total_weight |-> Sum(1..Len(OfKey(nodes, key)), LAMBDA i : OfKey(nodes, key)[i].weight)]

rollup_funnel(os) ==
    [key \in Keys(Roots(os)) |->
        [self |-> Node(Roots(os), key),
         children |-> LET kids == Kids(OfKey(Roots(os), key))
                      IN  [k \in Keys(kids) |-> Node(kids, k)]]]

----------------------------------------------------------------------------
(* The rows of a sharded iteration                                            *)

case_outcome_to_fields(o) ==
    [labels |-> o.per_repetition_label, per_grader_labels |-> o.per_grader_label,
     modes |-> o.failure_modes, weights |-> o.failure_weights,
     critical |-> o.critical_failure_modes, trees |-> o.breakdowns,
     cost |-> o.cost_usd, duration |-> o.duration_ms]

case_outcome_from_fields(row) ==
    [per_repetition_label |-> row.labels, per_grader_label |-> row.per_grader_labels,
     failure_modes |-> row.modes, failure_weights |-> row.weights,
     critical_failure_modes |-> row.critical, breakdowns |-> row.trees,
     cost_usd |-> row.cost, duration_ms |-> row.duration]

aggregate_iteration(os) ==
    [pass_at_1 |-> PassAt1(os), pass_at_2 |-> PassAt(os, 2), pass_all_2 |-> PassAll(os, 2),
     recovery |-> recovery_rate(os), graders |-> per_grader_pass_rate(os),
     errors |-> error_rate(os), guardrails |-> guardrails(os), funnel |-> rollup_funnel(os)]

\* The rows come back in the order of the scenarios, whatever order they were written in.
aggregate_iteration_from_storage(os) ==
    aggregate_iteration([i \in All(os) |-> case_outcome_from_fields(case_outcome_to_fields(os[i]))])

----------------------------------------------------------------------------
(* Properties                                                                 *)
\* A case passes exactly when its first repetition ran and every grader passed it: no grader's
\* verdict is lost in the label of the repetition.
PassIsUnanimous ==
    \A i \in All(outcomes) :
        LET first == outcomes[i].history[1]
        IN  pass_at_1(outcomes[i]) = 1 <=>
               ~first.error /\ DOMAIN first.grades # {}
               /\ \A g \in DOMAIN first.grades : first.grades[g].label = "pass"

\* A longer window can only help pass@k and only hurt pass^k, and pass^k never exceeds pass@k.
WindowsAreMonotone ==
    \A k \in 2..3 : /\ AtMost(PassAt(outcomes, k), PassAt(outcomes, k + 1))
                    /\ AtMost(PassAll(outcomes, k + 1), PassAll(outcomes, k))
                    /\ AtMost(PassAll(outcomes, k), PassAt(outcomes, k))

\* An agent that never got to answer does not change pass@1: it shows in the error rate alone.
ErrorCountsApart ==
    errored(outcomes'[Len(outcomes')]) =>
       /\ Same(PassAt1(outcomes'), PassAt1(outcomes))
       /\ error_rate(outcomes').num = error_rate(outcomes).num + 1
ErrorsAreNotFailures == [][ErrorCountsApart]_vars

\* The percentiles are ordered and lie between the fastest and the slowest case.
PercentilesAreOrdered ==
    outcomes # <<>> =>
        LET l == Latencies(outcomes)
        IN  /\ 100 * l[1] <= percentile(l, 50)
            /\ percentile(l, 50) <= percentile(l, 95) /\ percentile(l, 95) <= percentile(l, 99)
            /\ percentile(l, 99) <= 100 * l[Len(l)]

\* A merged node scores between the lowest and the highest of the nodes it merges that have a
\* score and a weight.
MeanIsBetween ==
    \A key \in Keys(Roots(outcomes)) :
        \A nodes \in {OfKey(Roots(outcomes), key)} \cup
                     {OfKey(Kids(OfKey(Roots(outcomes), key)), k) :
                         k \in Keys(Kids(OfKey(Roots(outcomes), key)))} :
            LET told == {nodes[i].score : i \in {j \in Scored(nodes) : nodes[j].weight > 0}}
                m == mean_score(nodes)
            IN  /\ m.scored <=> told # {}
                /\ m.scored => /\ Min(told) * m.mean.den <= m.mean.num
                               /\ m.mean.num <= Max(told) * m.mean.den

\* A grader that is scoped to some of the cases is not held to the others: were all its first
\* verdicts passes, its rate is one.
ScopedGraderIsNotPenalised ==
    \A g \in DOMAIN per_grader_pass_rate(outcomes) :
        (\A i \in All(outcomes) : g \in DOMAIN outcomes[i].per_grader_label =>
             outcomes[i].per_grader_label[g][1] = "pass")
        => Same(per_grader_pass_rate(outcomes)[g], [num |-> 1, den |-> 1])

\* A sharded iteration has the metrics the same cases would have in one process.
StoredAgrees ==
    outcomes # <<>> =>
        aggregate_iteration_from_storage(outcomes) = aggregate_iteration(outcomes)

\* Scoring against one grader mirrors the worst-of logic: with a single grader the two agree.
\* The code does not keep it: _compute_pass_metric_for_grader leaves errored verdicts in
\* the denominator, _compute_metric does not.
GraderMirrorsWorstOf ==
    \A g \in Graders :
        (\A i \in All(outcomes) : DOMAIN outcomes[i].per_grader_label = {g})
        => Same(PassAt1For(outcomes, g), PassAt1(outcomes))
=============================================================================
