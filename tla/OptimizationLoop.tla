-------------------------- MODULE OptimizationLoop --------------------------
(***************************************************************************)
(* The iterations of an experiment: the proposer's next candidate, what    *)
(* the candidate scored, the decision against the best run so far, the     *)
(* records, and when to stop.  Error analysis seeds hypotheses for the     *)
(* offline LLM proposer while runs come and go.  The experiment may be     *)
(* launched again over what earlier runs stored, and also while a run of   *)
(* it is at work: nothing in the loop or in its launch asks (RunJobs shows *)
(* two workers with one job, and two jobs of one experiment).  Each run    *)
(* has its own loop; the store is shared.                                  *)
(*                                                                         *)
(* How an iteration executes its cases is ScenarioJobs; here it has a      *)
(* primary value, and flags for its guardrails and its failure rate.       *)
(***************************************************************************)
EXTENDS Integers, Sequences

CONSTANTS
    Experiments,  \* the experiments considered
    Values,       \* primary values an iteration can have
    Hypotheses,   \* HypothesisRecords, numbered by (created_at, id)
    MaxRuns,      \* bound: how often the experiment is launched
    None

Strategies == {"manual", "grid", "random", "llm_proposer"}
Operators  == {">", ">=", "<", "<=", "=="}
Outcomes   == {"keep_candidate", "reject", "investigate", "spawn_subexperiment",
               "require_tradeoff_review"}

Experiment == [strategy             : Strategies,
               size                 : Nat,   \* manual proposals, random max_proposals
               agents               : Nat,   \* grid: agents to choose from
               params               : Nat,   \* grid: combinations of model_params
               max_iterations       : Nat,
               early_stop           : {"unset", "true", "false"},
               min_delta            : Nat,
               patience             : Nat \ {0},
               operator             : Operators,
               target               : Int,
               if_regression_fails  : {"reject", "investigate", "spawn_subexperiment"},
               if_guardrail_fails   : {"reject", "require_tradeoff_review"},
               launched             : {"in_turn", "freely"},  \* one run after the other, or not
               analysed             : BOOLEAN]                \* do hypotheses arrive?

ASSUME ConstantsAssumption ==
    /\ Experiments \subseteq Experiment
    /\ Values \subseteq Int
    /\ Hypotheses \subseteq Nat
    /\ MaxRuns \in Nat
    /\ None \notin Int

VARIABLES
    exp,        \* the experiment that is launched
    state,      \* its state in the store
    seeded,     \* hypotheses in the store
    stamp,      \* their consumed_by_iteration
    records,    \* iterations that have an IterationRecord
    decisions,  \* iterations that have a DecisionRecord
    staged,     \* iterations staged for error analysis
    applied,    \* history: who executed which hypothesis, in order
    phase,      \* of a run: control state of its loop
    proposal,   \* of a run: the candidate of this iteration
    measured,   \* of a run: its aggregate
    outcome,    \* of a run: the decision on it
    trail,      \* of a run: result.iterations
    baseline,   \* of a run: primary value of its best iteration so far
    reason      \* of a run: terminated_reason

store    == <<state, stamp, records, decisions, staged>>
working  == <<proposal, measured, outcome>>
result   == <<trail, baseline, reason>>
vars     == <<exp, seeded, applied, store, phase, working, result>>

-----------------------------------------------------------------------------
Runs == 1..MaxRuns   \* in the order of their launches

Phases == {"none", "new", "propose", "consume", "run", "put_iteration", "put_decision",
           "conclude", "finish", "completed", "failed"}
AtRest   == {"none", "completed", "failed"}   \* no run, or no more

Aggregate == [primary : Values, guarded : BOOLEAN, failing : BOOLEAN]
Proposal  == Nat \X Nat
NoProposal == <<0, 0>>

IterationOutcome == [proposal : Proposal, primary : Values, guarded : BOOLEAN,
                     outcome : Outcomes]

TypeOK ==
    /\ exp \in Experiments
    /\ state \in {"draft", "running", "completed"}
    /\ seeded \subseteq Hypotheses
    /\ stamp \in [Hypotheses -> Nat \cup {None}]
    /\ records \subseteq Nat
    /\ decisions \subseteq Nat
    /\ staged \subseteq Nat
    /\ applied \in Seq([run : Runs, hypothesis : Hypotheses])
    /\ phase \in [Runs -> Phases]
    /\ proposal \in [Runs -> Proposal]
    /\ measured \in [Runs -> Aggregate \cup {None}]
    /\ outcome \in [Runs -> Outcomes \cup {None}]
    /\ trail \in [Runs -> Seq(IterationOutcome)]
    /\ \A r \in Runs : Len(trail[r]) <= exp.max_iterations
    /\ baseline \in [Runs -> Values \cup {None}]
    /\ reason \in [Runs -> {None, "search_space_exhausted", "converged", "max_iterations"}]

Init ==
    /\ exp \in Experiments
    /\ state = "draft"
    /\ seeded = {}
    /\ stamp = [h \in Hypotheses |-> None]
    /\ records = {}
    /\ decisions = {}
    /\ staged = {}
    /\ applied = <<>>
    /\ phase = [r \in Runs |-> "none"]
    /\ proposal = [r \in Runs |-> NoProposal]
    /\ measured = [r \in Runs |-> None]
    /\ outcome = [r \in Runs |-> None]
    /\ trail = [r \in Runs |-> <<>>]
    /\ baseline = [r \in Runs |-> None]
    /\ reason = [r \in Runs |-> None]

index(r) == Len(trail[r])   \* the iteration the run is in

-----------------------------------------------------------------------------
(* Proposers.                                                               *)

GridSize(e) ==
    IF e.agents = 0 THEN e.params
    ELSE IF e.params = 0 THEN e.agents
    ELSE e.agents * e.params

(* The i-th combination: agents vary slowest; 0 stands for a missing axis.  *)
GridCombo(e, i) ==
    IF e.agents = 0 THEN <<0, i + 1>>
    ELSE IF e.params = 0 THEN <<i + 1, 0>>
    ELSE <<(i \div e.params) + 1, (i % e.params) + 1>>

Axis(n) == IF n = 0 THEN {0} ELSE 1..n
Grid(e) == Axis(e.agents) \X Axis(e.params)

Pending == {h \in seeded : stamp[h] = None}

NextPendingHypothesis == CHOOSE h \in Pending : \A g \in Pending : h <= g

Exhausted(r) ==
    IF exp.strategy = "llm_proposer" THEN Pending = {}
    ELSE index(r) >= (IF exp.strategy = "grid" THEN GridSize(exp) ELSE exp.size)

NextProposal(r) ==
    CASE exp.strategy = "grid" -> GridCombo(exp, index(r))
      [] exp.strategy = "llm_proposer" -> <<0, NextPendingHypothesis>>
      [] OTHER -> <<0, index(r) + 1>>

-----------------------------------------------------------------------------
(* The decision matrix.                                                     *)

CheckOperator(value, op, threshold) ==
    \/ op = ">"  /\ value > threshold
    \/ op = ">=" /\ value >= threshold
    \/ op = "<"  /\ value < threshold
    \/ op = "<=" /\ value <= threshold
    \/ op = "==" /\ value = threshold

MeetsTarget(e, value) == CheckOperator(value, e.operator, e.target)

EvaluateIteration(e, a, best) ==
    CASE ~a.guarded -> e.if_guardrail_fails
      [] a.guarded /\ best = None ->
            IF MeetsTarget(e, a.primary) THEN "keep_candidate" ELSE "investigate"
      [] OTHER ->
            IF a.primary > best THEN "keep_candidate"
            ELSE IF MeetsTarget(e, a.primary) THEN "reject" ELSE e.if_regression_fails

-----------------------------------------------------------------------------
(* Slip: a plateau ends a grid search too. *)
EarlyStopAlways(e) == e.early_stop # "false"

EarlyStopEnabled(e) ==
    \/ e.early_stop = "true"
    \/ e.early_stop = "unset" /\ e.strategy # "grid"

(* The last value is not min_delta above the best of the patience before it. *)
HasConverged(values, min_delta, patience) ==
    /\ Len(values) >= patience + 1
    /\ \A i \in (Len(values) - patience)..(Len(values) - 1) :
            values[Len(values)] - values[i] < min_delta

-----------------------------------------------------------------------------
(* _run_iterations.                                                         *)

Step(r, from, to) == phase[r] = from /\ phase' = [phase EXCEPT ![r] = to]

Forget(r) ==
    /\ proposal' = [proposal EXCEPT ![r] = NoProposal]
    /\ measured' = [measured EXCEPT ![r] = None]
    /\ outcome' = [outcome EXCEPT ![r] = None]

ForgetAll(r) ==
    /\ Forget(r)
    /\ trail' = [trail EXCEPT ![r] = <<>>]
    /\ baseline' = [baseline EXCEPT ![r] = None]
    /\ reason' = [reason EXCEPT ![r] = None]

(* A launch stores the experiment as a draft, whatever the store has and    *)
(* whoever runs it; a relaunch that waits for the run before is a choice of *)
(* the caller.                                                              *)
LaunchRun(r) ==
    /\ Step(r, "none", "new")
    /\ \A q \in 1..(r - 1) : phase[q] # "none"
    /\ exp.launched = "in_turn" => \A q \in Runs : phase[q] \in AtRest
    /\ state' = "draft"
    /\ UNCHANGED <<exp, seeded, applied, working, result, stamp, records, decisions, staged>>

(* Running is persisted before the grid is enumerated; an empty one raises. *)
Begin(r) ==
    /\ Step(r, "new", IF exp.strategy = "grid" /\ GridSize(exp) = 0 THEN "failed" ELSE "propose")
    /\ state' = "running"
    /\ UNCHANGED <<exp, seeded, applied, working, result, stamp, records, decisions, staged>>

IterationsLeft(r) == index(r) < exp.max_iterations

Terminate(r, why) == reason' = [reason EXCEPT ![r] = why]

MaxIterationsReached(r) ==
    /\ Step(r, "propose", "finish")
    /\ ~IterationsLeft(r)
    /\ Terminate(r, "max_iterations")
    /\ UNCHANGED <<exp, seeded, applied, store, working, trail, baseline>>

(* Slip: the proposer is asked again. *)
SearchSpaceAskedAgain(r) ==
    /\ phase[r] = "propose"
    /\ IterationsLeft(r)
    /\ Exhausted(r)
    /\ UNCHANGED vars

SearchSpaceExhausted(r) ==
    /\ Step(r, "propose", "finish")
    /\ IterationsLeft(r)
    /\ Exhausted(r)
    /\ Terminate(r, "search_space_exhausted")
    /\ UNCHANGED <<exp, seeded, applied, store, working, trail, baseline>>

(* The pending hypotheses are read; the chosen one is stamped in memory.    *)
Propose(r) ==
    /\ Step(r, "propose", "consume")
    /\ IterationsLeft(r)
    /\ ~Exhausted(r)
    /\ proposal' = [proposal EXCEPT ![r] = NextProposal(r)]
    /\ UNCHANGED <<exp, seeded, applied, store, measured, outcome, result>>

Executes(r, h) == applied' = Append(applied, [run |-> r, hypothesis |-> h])

(* Slip: the stamp stays in memory. *)
ConsumeUnsaved(r) ==
    /\ Step(r, "consume", "run")
    /\ IF exp.strategy = "llm_proposer" THEN Executes(r, proposal[r][2]) ELSE UNCHANGED applied
    /\ UNCHANGED <<exp, seeded, store, working, result>>

(* _persist_consumed_hypotheses, before the iteration runs: the whole row   *)
(* of the same version is put, whatever stamp it has got since it was read. *)
Consume(r) ==
    /\ Step(r, "consume", "run")
    /\ IF exp.strategy = "llm_proposer"
         THEN /\ stamp' = [stamp EXCEPT ![proposal[r][2]] = index(r)]
              /\ Executes(r, proposal[r][2])
         ELSE UNCHANGED <<stamp, applied>>
    /\ UNCHANGED <<exp, seeded, state, records, decisions, staged, working, result>>

(* _run_iteration and the evaluator.                                        *)
RunIteration(r) ==
    /\ Step(r, "run", "put_iteration")
    /\ \E a \in Aggregate :
        /\ measured' = [measured EXCEPT ![r] = a]
        /\ outcome' = [outcome EXCEPT ![r] = EvaluateIteration(exp, a, baseline[r])]
    /\ UNCHANGED <<exp, seeded, applied, store, proposal, result>>

(* Slip: the decision is stored first. *)
PutDecisionFirst(r) ==
    /\ Step(r, "put_iteration", "put_decision")
    /\ index(r) \notin records
    /\ decisions' = decisions \cup {index(r)}
    /\ UNCHANGED <<exp, seeded, applied, state, stamp, records, staged, working, result>>

PutIterationRecord(r) ==
    /\ Step(r, "put_iteration", "put_decision")
    /\ index(r) \notin records
    /\ records' = records \cup {index(r)}
    /\ UNCHANGED <<exp, seeded, applied, state, stamp, decisions, staged, working, result>>

RecordRefused(r) ==   \* another run recorded this iteration under another id
    /\ Step(r, "put_iteration", "failed")
    /\ index(r) \in records
    /\ ForgetAll(r)
    /\ UNCHANGED <<exp, seeded, applied, store>>

PutDecisionRecord(r) ==
    /\ Step(r, "put_decision", "conclude")
    /\ decisions' = decisions \cup {index(r)}
    /\ UNCHANGED <<exp, seeded, applied, state, stamp, records, staged, working, result>>

(* Slip: the last iteration is the baseline of the next. *)
BaselineIsLast(best, value) == value

BestOf(best, value) == IF best = None THEN value ELSE IF value > best THEN value ELSE best

Converged(t) ==
    /\ EarlyStopEnabled(exp)
    /\ HasConverged([i \in 1..Len(t) |-> t[i].primary], exp.min_delta, exp.patience)

(* Staging, the baseline and the convergence test.                          *)
Conclude(r) ==
    LET t == Append(trail[r], [proposal |-> proposal[r], primary |-> measured[r].primary,
                               guarded |-> measured[r].guarded, outcome |-> outcome[r]])
    IN /\ Step(r, "conclude", IF Converged(t) THEN "finish" ELSE "propose")
       /\ IF Converged(t) THEN Terminate(r, "converged") ELSE UNCHANGED reason
       /\ trail' = [trail EXCEPT ![r] = t]
       /\ staged' = IF measured[r].failing THEN staged \cup {index(r)} ELSE staged
       /\ baseline' = [baseline EXCEPT ![r] = BestOf(baseline[r], measured[r].primary)]
       /\ Forget(r)
       /\ UNCHANGED <<exp, seeded, applied, state, stamp, records, decisions>>

Finish(r) ==
    /\ Step(r, "finish", "completed")
    /\ state' = "completed"
    /\ UNCHANGED <<exp, seeded, applied, stamp, records, decisions, staged, working, result>>

(* A rejected proposal, an agent, grader or storage error, a dead process.  *)
RunFails(r) ==
    /\ phase[r] \notin AtRest
    /\ phase' = [phase EXCEPT ![r] = "failed"]
    /\ ForgetAll(r)
    /\ UNCHANGED <<exp, seeded, applied, store>>

(* selfevals analyze push: hypotheses arrive at any time.                   *)
RecordHypothesis(h) ==
    /\ exp.analysed /\ h \notin seeded
    /\ seeded' = seeded \cup {h}
    /\ UNCHANGED <<exp, applied, store, phase, working, result>>

Loop(r) ==
    \/ Begin(r) \/ MaxIterationsReached(r) \/ SearchSpaceExhausted(r) \/ Propose(r) \/ Consume(r)
    \/ RunIteration(r) \/ PutIterationRecord(r) \/ RecordRefused(r) \/ PutDecisionRecord(r)
    \/ Conclude(r) \/ Finish(r)

Next ==
    \/ \E r \in Runs : Loop(r) \/ RunFails(r) \/ LaunchRun(r)
    \/ \E h \in Hypotheses : RecordHypothesis(h)

Spec == Init /\ [][Next]_vars

(* A run that started keeps executing its program.                          *)
FairSpec == Spec /\ \A r \in Runs : WF_vars(Loop(r))

-----------------------------------------------------------------------------
(* ConvergenceSpec: for the grid, "enumerating the full cartesian product is *)
(* its whole contract".  A run that completes without early_stop being asked *)
(* for tried every combination once, unless max_iterations cut it short.     *)
GridCovered ==
    \A r \in Runs :
       phase[r] = "completed" /\ exp.strategy = "grid" /\ exp.early_stop # "true"
           /\ exp.max_iterations >= GridSize(exp)
       => \A c \in Grid(exp) :
             \E i \in 1..Len(trail[r]) :
                /\ trail[r][i].proposal = c
                /\ \A j \in 1..Len(trail[r]) : trail[r][j].proposal = c => j = i

(* A candidate is kept after the first iteration if and only if it respects  *)
(* the guardrails and beats every earlier iteration of the run, those that   *)
(* were rejected or sent to review included.                                 *)
KeptBeats(t) ==
    \A i \in 2..Len(t) :
        t[i].outcome = "keep_candidate" <=>
            /\ t[i].guarded
            /\ \A j \in 1..(i - 1) : t[j].primary < t[i].primary
KeptBeatsAll == \A r \in Runs : KeptBeats(trail[r])

Executed(h) == \E i \in 1..Len(applied) : applied[i].hypothesis = h
ExecutedBy(r, h) == \E i \in 1..Len(applied) : applied[i] = [run |-> r, hypothesis |-> h]

Takes(r) == phase[r] = "propose" /\ phase'[r] = "consume" /\ exp.strategy = "llm_proposer"

(* Whatever fails and however often the experiment is launched: a run takes  *)
(* the oldest hypothesis, and one that nobody has executed; it executes none *)
(* twice, and none that was executed before it took it, except by runs that  *)
(* had taken it as well and not stamped it yet.  So runs that follow each    *)
(* other never execute a hypothesis twice.                                   *)
HypothesesInTurn ==
    [][\A r \in Runs :
          /\ Takes(r) => /\ ~Executed(proposal'[r][2])
                         /\ \A g \in seeded : g < proposal'[r][2] => Executed(g)
          /\ \A h \in Hypotheses : Executes(r, h) =>
                /\ ~ExecutedBy(r, h)
                /\ exp.launched = "in_turn" => ~Executed(h)]_vars

(* HypothesisRecord.consumed_by_iteration is "set once a proposer has used   *)
(* this hypothesis, so it isn't re-applied".                                 *)
(* The code does not keep it of runs that overlap: both read the hypothesis  *)
(* as pending, and the stamp is put without a look at the one there.         *)
NeverReapplied ==
    [][\A r \in Runs, h \in Hypotheses : Executes(r, h) => ~Executed(h)]_vars

(* A decision belongs to an iteration that is recorded, and error analysis is *)
(* only staged for iterations that have both, wherever a run is cut off.      *)
StoredInOrder == staged \subseteq decisions /\ decisions \subseteq records

(* A run that begins comes to an end.                                        *)
RunEnds == \A r \in Runs : phase[r] = "propose" ~> phase[r] \in AtRest

-----------------------------------------------------------------------------
(* CHANGELOG: "Convergence = no improvement above `min_delta` for `patience` *)
(* consecutive iterations."                                                  *)
(* The code does not keep it: has_converged compares the latest value with   *)
(* the best of the ones before.                                              *)
PatienceIsTaken ==
    \A r \in Runs : reason[r] = "converged" =>
        \A i \in (index(r) - exp.patience + 1)..index(r) :
            \E j \in 1..(i - 1) : trail[r][i].primary - trail[r][j].primary < exp.min_delta
=============================================================================
