----------------------------- MODULE Baselines -----------------------------
(* The regression baseline of one dataset and the gate that grades against   *)
(* it: runner/baseline.py, ci/regression.py, api/baseline_ops.py,            *)
(* cli/baseline_commands.py and the runs that register a baseline.  A client *)
(* reads the row, decides and puts it back, in separate statements.  The put *)
(* is that of the entity store: a SELECT of the version, without a lock, and *)
(* an upsert that compares nothing; other clients write in between.  Values  *)
(* of metrics are integers (points).                                         *)
EXTENDS Integers, FiniteSets

CONSTANTS
    Clients,      \* processes that hold a storage scope
    Iterations,   \* iteration records
    Labels,       \* labels of the confusion report
    Metrics,      \* iteration -> its metrics, once it is completed
    Over,         \* iteration -> the dataset its run was over
    Dataset,      \* the dataset whose baseline is modelled
    Offered,      \* what clients do: "cli", "http", "timeout", "set", "check"
    Serial,       \* one client at a time
    Drop, F1Drop, Rise,   \* RegressionThresholds
    MaxVersion,   \* bound: writes of the row
    None

VARIABLES
    row,        \* the DatasetBaseline, or None; "by" remembers who wrote it
    completed,  \* iterations that have metrics
    pc, job,    \* of a client: where it is, and the iteration it wants to pin
    seen,       \* of a client: the version set_baseline read, 0 for no row
    verdict     \* of the last regression check, or None

vars == <<row, completed, pc, job, seen, verdict>>

-----------------------------------------------------------------------------
(* The gate.                                                                 *)

(* The F1 of a label in percent: None when precision or recall is undefined, *)
(* and also when both are zero.                                              *)
per_class_f1(m, l) ==
    LET c == m.confusion[l]
    IN IF c.tp = 0 THEN None ELSE (200 * c.tp) \div (2 * c.tp + c.fp + c.fn)

PrimaryRegressed(b, c) == b.primary # c.primary \/ c.value < b.value - Drop

ErrorRegressed(b, c) == c.error_rate > b.error_rate + Rise

(* Only a label that has an F1 on both sides is compared.                    *)
LabelRegressed(b, c, l) ==
    /\ per_class_f1(b, l) # None /\ per_class_f1(c, l) # None
    /\ per_class_f1(c, l) < per_class_f1(b, l) - F1Drop

evaluate_regression(b, c) ==
    \/ PrimaryRegressed(b, c)
    \/ ErrorRegressed(b, c)
    \/ \E l \in Labels : LabelRegressed(b, c, l)

-----------------------------------------------------------------------------

Init ==
    /\ row = None
    /\ completed = {}
    /\ pc = [c \in Clients |-> "idle"]
    /\ job = [c \in Clients |-> None]
    /\ seen = [c \in Clients |-> 0]
    /\ verdict = None

Idle(c) == pc[c] = "idle" /\ (Serial => \A d \in Clients : pc[d] = "idle")

Step(c, at) == pc' = [pc EXCEPT ![c] = at]

(* A run over its dataset completes.  `selfevals run` waited for it and goes *)
(* on to the baseline; when it gave up waiting, and when the run came over   *)
(* HTTP, the worker's end of the run is all there is.                        *)
RunCompletes(c, i) ==
    /\ Idle(c) /\ i \notin completed
    /\ completed' = completed \cup {i}
    /\ \/ /\ "cli" \in Offered /\ Over[i] = Dataset
          /\ Step(c, "check") /\ job' = [job EXCEPT ![c] = i]
       \/ /\ (Offered \cap {"http", "timeout"} # {} \/ Over[i] # Dataset)
          /\ UNCHANGED <<pc, job>>
    /\ UNCHANGED <<row, seen, verdict>>

\* Slip: the row is not looked up before it is written.
AutosetUnchecked(c) ==
    /\ pc[c] = "check"
    /\ Step(c, "load")
    /\ UNCHANGED <<row, completed, job, seen, verdict>>

(* The first look of the automatic path: a dataset that has a baseline keeps *)
(* it.                                                                       *)
maybe_autoset_baseline(c) ==
    /\ pc[c] = "check"
    /\ Step(c, IF row = None THEN "load" ELSE "idle")
    /\ UNCHANGED <<row, completed, job, seen, verdict>>

(* The explicit path, from the command line or over HTTP: the iteration must *)
(* have metrics, and nothing asks which dataset it ran over.                 *)
set_dataset_baseline(c, i) ==
    /\ "set" \in Offered /\ Idle(c) /\ i \in completed
    /\ Step(c, "set_load") /\ job' = [job EXCEPT ![c] = i]
    /\ UNCHANGED <<row, completed, seen, verdict>>

(* set_baseline reads the row for its version.                               *)
load_baseline(c) ==
    /\ pc[c] \in {"load", "set_load"}
    /\ Step(c, IF pc[c] = "load" THEN "put" ELSE "set_put")
    /\ seen' = [seen EXCEPT ![c] = IF row = None THEN 0 ELSE row.version]
    /\ UNCHANGED <<row, completed, job, verdict>>

Row(c) == [iteration |-> job[c], version |-> seen[c] + 1, metrics |-> Metrics[job[c]],
           by |-> IF pc[c] = "write" THEN "auto" ELSE "set"]

Leave(c) ==
    /\ Step(c, "idle")
    /\ job' = [job EXCEPT ![c] = None] /\ seen' = [seen EXCEPT ![c] = 0]

(* The SELECT of put_entity: a stored version that is neither the one before *)
(* nor the same is an OptimisticConcurrencyError, which the automatic path   *)
(* swallows and the explicit one reports.                                    *)
put_entity(c) ==
    /\ pc[c] \in {"put", "set_put"} /\ seen[c] < MaxVersion
    /\ \/ /\ row # None /\ row.version \notin {seen[c], seen[c] + 1}
          /\ Leave(c)
       \/ /\ row # None => row.version \in {seen[c], seen[c] + 1}
          /\ Step(c, IF pc[c] = "put" THEN "write" ELSE "set_write")
          /\ UNCHANGED <<job, seen>>
    /\ UNCHANGED <<row, completed, verdict>>

(* Its upsert, which takes whatever is there by now.                         *)
upsert(c) ==
    /\ pc[c] \in {"write", "set_write"}
    /\ row' = Row(c) /\ Leave(c)
    /\ UNCHANGED <<completed, verdict>>

(* `selfevals regression check` and its route: one read of the baseline, one *)
(* of the iteration.                                                         *)
run_regression_check(c, i) ==
    /\ "check" \in Offered /\ Idle(c)
    /\ row # None /\ i \in completed
    /\ verdict' = [iteration |-> i, against |-> row.iteration,
                   regressed |-> evaluate_regression(row.metrics, Metrics[i])]
    /\ UNCHANGED <<row, completed, pc, job, seen>>

Next ==
    \E c \in Clients :
       \/ maybe_autoset_baseline(c) \/ load_baseline(c) \/ put_entity(c) \/ upsert(c)
       \/ \E i \in Iterations : \/ RunCompletes(c, i) \/ set_dataset_baseline(c, i)
                                \/ run_regression_check(c, i)

Spec == Init /\ [][Next]_vars

-----------------------------------------------------------------------------

(* The automatic path never takes the place of a baseline that exists        *)
(* ("once a baseline exists it is never silently overwritten"): holds one    *)
(* client at a time and not when two clients' reads and puts interleave.     *)
OverwrittenByHand ==
    row # None /\ row' # row => row'.by = "set"
AutoNeverOverwrites == [][OverwrittenByHand]_vars

(* No write takes the row back behind a version that was there ("Atomic CAS: *)
(* [...] anything else is a concurrency violation"): holds one client at a   *)
(* time.  The code does not keep it when clients interleave: a client that   *)
(* has compared may sleep through any number of writes before its own.       *)
VersionKeptOrRaised ==
    row # None => row' # None /\ row'.version >= row.version
VersionsNeverFall == [][VersionKeptOrRaised]_vars

(* When nothing is under way, a dataset some run has completed over has a    *)
(* baseline, however the clients' reads and puts raced: a run that loses     *)
(* its put lost it to a row.  It is about clients that live and a database   *)
(* that answers.                                                             *)
CompletedRunIsAnchored ==
    (\E i \in completed : Over[i] = Dataset) /\ (\A c \in Clients : pc[c] = "idle")
        => row # None

(* The gate passes the baseline's own iteration: what set_baseline copies is *)
(* what the check compares, and no threshold is crossed by no change.        *)
SelfCheckPasses ==
    row # None => ~evaluate_regression(row.metrics, Metrics[row.iteration])

NoWorse(c, d) ==
    /\ c.primary = d.primary /\ c.value >= d.value /\ c.error_rate <= d.error_rate
    /\ \A l \in Labels : per_class_f1(d, l) # None
                            => /\ per_class_f1(c, l) # None
                               /\ per_class_f1(c, l) >= per_class_f1(d, l)

(* A run no worse in every signal than one the gate passed passes as well,   *)
(* as long as it defines no further F1.                                      *)
GateIsMonotone ==
    \A i, j \in completed :
       /\ row # None
       /\ NoWorse(Metrics[i], Metrics[j])
       /\ \A l \in Labels : (per_class_f1(Metrics[i], l) = None)
                               = (per_class_f1(Metrics[j], l) = None)
       /\ ~evaluate_regression(row.metrics, Metrics[j])
       => ~evaluate_regression(row.metrics, Metrics[i])

HasCases(m, l) == m.confusion[l].tp + m.confusion[l].fn > 0

(* A class that has cases on both sides and whose F1 is defined on both and  *)
(* falls by more than the threshold is a regression even when the primary    *)
(* metric held.                                                              *)
ClassDropFails ==
    verdict # None /\ ~verdict.regressed =>
       \A l \in Labels :
          LET b == per_class_f1(Metrics[verdict.against], l)
              c == per_class_f1(Metrics[verdict.iteration], l)
          IN b # None /\ c # None => c >= b - F1Drop

(* The same of a class that was sometimes right and now never is: the cases  *)
(* are there on both sides, so the case mix has not shifted.                 *)
(* The code does not keep it: the class has no F1 any more and counts as     *)
(* vanished.                                                                 *)
CollapsedClassFails ==
    verdict # None /\ ~verdict.regressed =>
       \A l \in Labels :
          /\ HasCases(Metrics[verdict.against], l) /\ HasCases(Metrics[verdict.iteration], l)
          /\ per_class_f1(Metrics[verdict.against], l) # None
          => per_class_f1(Metrics[verdict.iteration], l) # None

(* A verdict compares two runs over the dataset ("did the agent regress on   *)
(* this fixed set of cases?").                                               *)
(* The code does not keep it: neither side of the check asks for the dataset *)
(* of the iteration.                                                         *)
VerdictIsAboutTheDataset ==
    verdict # None => Over[verdict.iteration] = Dataset /\ Over[verdict.against] = Dataset
=============================================================================
