----------------------------- MODULE RunReport -----------------------------
(* What a run stores of its iterations and what a report rebuilt from the    *)
(* store shows: the puts of optimization/loop.py, the loading of             *)
(* cli/_common.py and the two renderings of reporter/.  The loop holds an    *)
(* OptimizationResult in memory; `selfevals report`, and `selfevals run`     *)
(* itself once its worker is done, see only what was put.  An experiment may *)
(* be run again, and a run may die between two puts.                         *)
(*                                                                           *)
(* The stored rows are sequences in the order of created_at.                 *)
EXTENDS Integers, Sequences, FiniteSets, SequencesExt, FiniteSetsExt

CONSTANTS
    Cases,           \* cases of the dataset, one repetition each
    Labels,          \* labels a grade may have: "pass", "fail", "skipped"
    Values, Costs,   \* primary values and costs of an iteration
    persist_traces,  \* "none", "failed" or "all"
    MaxIterations,
    MaxRuns,         \* bound: launches of the experiment
    Dies,            \* whether a run may die
    None

VARIABLES
    iterations,  \* IterationRecords
    decisions,   \* DecisionRecords
    traces,      \* stored traces
    live,        \* OptimizationResult.iterations of the run in progress
    pc,          \* "idle", "run", "put_iteration", "put_decision"
    current,     \* the iteration that is being stored, or None
    run          \* launches so far

vars == <<iterations, decisions, traces, live, pc, current, run>>

-----------------------------------------------------------------------------
(* The run.                                                                  *)

Init ==
    /\ iterations = <<>> /\ decisions = <<>> /\ traces = {}
    /\ live = <<>> /\ pc = "idle" /\ current = None /\ run = 0

Launch ==
    /\ pc = "idle" /\ run < MaxRuns
    /\ pc' = "run" /\ run' = run + 1 /\ live' = <<>>
    /\ UNCHANGED <<iterations, decisions, traces, current>>

(* The aggregate that later iterations are measured against: the best so far.*)
Baseline(outcomes) ==
    IF outcomes = <<>> THEN None ELSE Max({o.value : o \in Range(outcomes)})

Delta(value, baseline) == IF baseline = None THEN None ELSE value - baseline

(* _maybe_persist_trace: "failed" keeps what errs, fails or is partial.      *)
Persisted(grades) ==
    CASE persist_traces = "none" -> {}
      [] persist_traces = "all" -> Cases
      [] OTHER -> {c \in Cases : grades[c] = "fail"}

Trace(index, grades, c) == [run |-> run, iteration |-> index, case |-> c, label |-> grades[c]]

\* Slip: every repetition's trace is announced.
BuildAnnouncingAll(index, value, cost, grades) ==
    [iteration |-> index, variant |-> <<run, index>>, value |-> value, cost |-> cost,
     delta |-> Delta(value, Baseline(live)),
     trace_run_ids |-> {Trace(index, grades, c) : c \in Cases}]

(* The record announces the traces that were written, and no others.         *)
build_iteration_record(index, value, cost, grades) ==
    [iteration |-> index, variant |-> <<run, index>>, value |-> value, cost |-> cost,
     delta |-> Delta(value, Baseline(live)),
     trace_run_ids |-> {Trace(index, grades, c) : c \in Persisted(grades)}]

build_decision_record(record, outcome) ==
    [iteration |-> record.iteration, variant |-> record.variant, outcome |-> outcome]

(* An iteration runs its cases and its traces are put in their order; the    *)
(* decision is the evaluator's, here any.                                    *)
RunIteration ==
    /\ pc = "run" /\ Len(live) < MaxIterations
    /\ \E value \in Values, cost \in Costs, grades \in [Cases -> Labels], o \in {"keep", "reject"} :
          LET record == build_iteration_record(Len(live), value, cost, grades)
          IN /\ traces' = traces \cup {Trace(Len(live), grades, c) : c \in Persisted(grades)}
             /\ current' = [record |-> record, grades |-> grades,
                            decision |-> build_decision_record(record, o)]
    /\ pc' = "put_iteration"
    /\ UNCHANGED <<iterations, decisions, live, run>>

PutIteration ==
    /\ pc = "put_iteration"
    /\ iterations' = Append(iterations, current.record)
    /\ pc' = "put_decision"
    /\ UNCHANGED <<decisions, traces, live, current, run>>

Outcome(record, decision, reasons) ==
    [iteration |-> record.iteration, variant |-> record.variant, value |-> record.value,
     cost |-> record.cost, delta |-> record.delta, decision |-> decision, reasons |-> reasons]

Reasons(labels) == {<<c, labels[c]>> : c \in {d \in DOMAIN labels : labels[d] # "pass"}}

PutDecision ==
    /\ pc = "put_decision"
    /\ decisions' = Append(decisions, current.decision)
    /\ live' = Append(live, Outcome(current.record, current.decision, Reasons(current.grades)))
    /\ pc' = "run" /\ current' = None
    /\ UNCHANGED <<iterations, traces, run>>

(* The last iteration, or an earlier stop.                                   *)
Finish ==
    /\ pc = "run" /\ live # <<>>
    /\ pc' = "idle"
    /\ UNCHANGED <<iterations, decisions, traces, live, current, run>>

Die ==
    /\ Dies /\ pc # "idle"
    /\ pc' = "idle" /\ live' = <<>> /\ current' = None
    /\ UNCHANGED <<iterations, decisions, traces, run>>

Next == Launch \/ RunIteration \/ PutIteration \/ PutDecision \/ Finish \/ Die

Spec == Init /\ [][Next]_vars

-----------------------------------------------------------------------------
(* The report.                                                               *)

(* Positions of the records: the list is newest first and the sort by number *)
(* is stable.                                                                *)
experiment_iterations ==
    SetToSortSeq(DOMAIN iterations,
                 LAMBDA p, q : \/ iterations[p].iteration < iterations[q].iteration
                               \/ iterations[p].iteration = iterations[q].iteration /\ p > q)

Decided(index) == {p \in DOMAIN decisions : decisions[p].iteration = index}

(* The list is newest first, and a later element takes the place of an       *)
(* earlier one.                                                              *)
experiment_decisions(index) ==
    IF Decided(index) = {} THEN None ELSE decisions[Min(Decided(index))]

(* The traces of an iteration number, grouped by case; a report reads their  *)
(* grades.                                                                   *)
load_case_runs(index) ==
    {<<t.case, t.label>> : t \in {u \in traces : u.iteration = index /\ u.label # "pass"}}

Reconstructed(p) ==
    Outcome(iterations[p], experiment_decisions(iterations[p].iteration),
            load_case_runs(iterations[p].iteration))

(* A record without a decision is skipped.                                   *)
reconstruct_result ==
    LET kept == SelectSeq(experiment_iterations,
                          LAMBDA p : experiment_decisions(iterations[p].iteration) # None)
    IN [k \in DOMAIN kept |-> Reconstructed(kept[k])]

(* max() keeps the first of equals.                                          *)
best_iteration(outcomes) ==
    CHOOSE k \in DOMAIN outcomes :
       /\ \A j \in DOMAIN outcomes : outcomes[j].value <= outcomes[k].value
       /\ \A j \in 1..(k - 1) : outcomes[j].value < outcomes[k].value

(* The table of the Markdown report: each row against the best row above it. *)
iteration_table(outcomes) ==
    [k \in DOMAIN outcomes |->
        Delta(outcomes[k].value, Baseline(SubSeq(outcomes, 1, k - 1)))]

(* No positive cost anywhere is no data.                                     *)
compute_total_cost(outcomes) ==
    IF \A o \in Range(outcomes) : o.cost = 0 THEN None
    ELSE FoldLeft(LAMBDA sum, o : sum + o.cost, 0, outcomes)

-----------------------------------------------------------------------------

Finished == pc = "idle" /\ live # <<>>

WithoutReasons(outcomes) ==
    [k \in DOMAIN outcomes |-> [outcomes[k] EXCEPT !.reasons = {}]]

(* After the only run of an experiment the report from the store shows the   *)
(* iterations, values, deltas, costs and decisions the loop had in memory,   *)
(* the same best iteration and total, and its table computes the deltas anew.*)
ReportMatchesLive ==
    Finished /\ run = 1 =>
       /\ WithoutReasons(reconstruct_result) = WithoutReasons(live)
       /\ best_iteration(reconstruct_result) = best_iteration(live)
       /\ compute_total_cost(reconstruct_result) = compute_total_cost(live)
       /\ \A k \in DOMAIN live : iteration_table(reconstruct_result)[k] = live[k].delta

(* The failure reasons of a rebuilt report are those of the inline one, when *)
(* failing traces are kept.                                                  *)
ReasonsMatchInline ==
    Finished /\ run = 1 /\ persist_traces # "none" =>
       \A k \in DOMAIN live : reconstruct_result[k].reasons = live[k].reasons

(* A trace an iteration announces is stored, whatever died when.             *)
AnnouncedTracesExist ==
    \A p \in DOMAIN iterations : iterations[p].trace_run_ids \subseteq traces

(* Every iteration a run finished is a row of the report, however many runs  *)
(* of the experiment there were.                                             *)
DecidedIsReported ==
    \A p \in DOMAIN decisions :
       \E k \in DOMAIN reconstruct_result : reconstruct_result[k].variant = decisions[p].variant

(* Of several decisions of an iteration number the report shows the latest.  *)
(* The code does not keep it: the list is newest first, so the oldest one    *)
(* stays.                                                                    *)
LatestDecisionWins ==
    \A k \in DOMAIN reconstruct_result :
       LET index == reconstruct_result[k].iteration
       IN reconstruct_result[k].decision = decisions[Max(Decided(index))]

(* A record that never got a decision is not shown with another's.           *)
(* The code does not keep it: decisions are matched by iteration number      *)
(* alone.                                                                    *)
OrphansAreSkipped ==
    \A k \in DOMAIN reconstruct_result :
       \E p \in DOMAIN decisions : decisions[p].variant = reconstruct_result[k].variant
=============================================================================
