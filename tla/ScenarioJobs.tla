---------------------------- MODULE ScenarioJobs ----------------------------
(***************************************************************************)
(* The sharded execution of one run's iterations: a coordinator plans one  *)
(* scenario job per case, drains them through transactional claims in its  *)
(* own process, waits for the barrier and aggregates the iteration from    *)
(* the persisted outcomes.  There is one coordinator per lease of the run  *)
(* job, so several when the run job is leased again (see RunJobs).         *)
(*                                                                         *)
(* An outcome is abstracted to the attempt that wrote it.                  *)
(***************************************************************************)
EXTENDS Integers, FiniteSets, TLC

CONSTANTS
    Cases,          \* the cases of the optimization set
    Coordinators,   \* processes that execute the run job
    MaxIterations,  \* Experiment.run.max_iterations
    MaxAttempts,    \* ScenarioJob.max_attempts, the run job's
    Batch,          \* DEFAULT_BATCH
    MaxFaults,      \* bound: crashes and errors outside a case
    NoCase,
    NoReport,
    Open

ASSUME ConstantsAssumption ==
    /\ IsFiniteSet(Cases)
    /\ MaxIterations \in Nat \ {0}
    /\ MaxAttempts \in Nat \ {0}
    /\ Batch \in Nat \ {0}
    /\ MaxFaults \in Nat
    /\ NoCase \notin Cases
    /\ NoReport \notin Coordinators
    /\ Open \notin Nat

Iterations == 0..(MaxIterations - 1)
Slots      == Iterations \X Cases

VARIABLES
    status,   \* scenario_jobs: the status of every (iteration, case)
    attempt,  \* scenario_jobs: how often it has been claimed
    outcome,  \* scenario_outcomes: the attempt that wrote the row, 0 for none
    pc,       \* control state of every coordinator
    iter,     \* the iteration a coordinator is in
    locked,   \* rows locked by the open claim transaction of a coordinator
    claimed,  \* the attempt of its in-memory ScenarioJob of a case, 0 for none
    current,  \* the case a coordinator runs
    report,   \* the outcomes a coordinator aggregated an iteration from
    record,   \* iteration_records: the coordinator that wrote the row, if any
    faults    \* faults so far

tables == <<status, attempt, outcome>>
vars   == <<tables, pc, iter, locked, claimed, current, report, record, faults>>

-----------------------------------------------------------------------------
(* ScenarioJob.  The code never writes running, failed or cancelled.        *)
Status  == {"absent", "pending", "claimed", "succeeded", "dead_lettered"}
Settled == {"succeeded", "dead_lettered"}
Ended   == {"done", "failed", "dead"}

TypeOK ==
    /\ status \in [Slots -> Status]
    /\ attempt \in [Slots -> Nat]
    /\ outcome \in [Slots -> Nat]
    /\ pc \in [Coordinators -> {"idle", "plan", "claim", "commit", "build", "case",
                                "finalize", "fail", "barrier", "aggregate", "record"} \cup Ended]
    /\ iter \in [Coordinators -> Iterations]
    /\ locked \in [Coordinators -> SUBSET Cases]
    /\ claimed \in [Coordinators -> [Cases -> Nat]]
    /\ current \in [Coordinators -> Cases \cup {NoCase}]
    /\ report \in [Coordinators \X Iterations -> [Cases -> Nat] \cup {NoReport}]
    /\ record \in [Iterations -> Coordinators \cup {NoReport}]
    /\ faults \in 0..MaxFaults

Init ==
    /\ status = [s \in Slots |-> "absent"]
    /\ attempt = [s \in Slots |-> 0]
    /\ outcome = [s \in Slots |-> 0]
    /\ pc = [k \in Coordinators |-> "idle"]
    /\ iter = [k \in Coordinators |-> 0]
    /\ locked = [k \in Coordinators |-> {}]
    /\ claimed = [k \in Coordinators |-> [c \in Cases |-> 0]]
    /\ current = [k \in Coordinators |-> NoCase]
    /\ report = [q \in Coordinators \X Iterations |-> NoReport]
    /\ record = [i \in Iterations |-> NoReport]
    /\ faults = 0

Goto(k, label) == pc' = [pc EXCEPT ![k] = label]

(* The rows of k's iteration that are in one of the states.                 *)
In(k, states) == {c \in Cases : status[<<iter[k], c>>] \in states}

-----------------------------------------------------------------------------
Start(k) ==   \* execute_run_job leased the run job to this process
    /\ pc[k] = "idle"
    /\ Goto(k, "plan")
    /\ UNCHANGED <<tables, iter, locked, claimed, current, report, record, faults>>

(* plan_scenario_jobs: one INSERT for all cases; rows that exist stay.      *)
Plan(k) ==
    /\ pc[k] = "plan"
    /\ status' = [s \in Slots |->
          IF s[1] = iter[k] /\ status[s] = "absent" THEN "pending" ELSE status[s]]
    /\ Goto(k, "claim")
    /\ UNCHANGED <<attempt, outcome, iter, locked, claimed, current, report, record, faults>>

(* Rows of k's iteration that another open claim transaction has locked.    *)
LockedByOthers(k) == UNION {locked[l] : l \in {m \in Coordinators \ {k} : iter[m] = iter[k]}}

(* Slip: the rows are not locked until the update. *)
ClaimSelectUnlocked(k) ==
    /\ pc[k] = "claim"
    /\ \E S \in SUBSET In(k, {"pending"}) :
        /\ S # {} /\ Cardinality(S) <= Batch
        /\ locked' = [locked EXCEPT ![k] = S]
        /\ Goto(k, "commit")
    /\ UNCHANGED <<tables, iter, claimed, current, report, record, faults>>

(* claim_scenario_jobs, SELECT ... FOR UPDATE SKIP LOCKED LIMIT batch.       *)
ClaimSelect(k) ==
    /\ pc[k] = "claim"
    /\ \E S \in SUBSET (In(k, {"pending"}) \ LockedByOthers(k)) :
        /\ S # {} /\ Cardinality(S) <= Batch
        /\ Cardinality(S) = Batch \/ S = In(k, {"pending"}) \ LockedByOthers(k)
        /\ locked' = [locked EXCEPT ![k] = S]
        /\ Goto(k, "commit")
    /\ UNCHANGED <<tables, iter, claimed, current, report, record, faults>>

ClaimCommit(k) ==   \* the UPDATE and the commit that releases the locks
    /\ pc[k] = "commit"
    /\ status' = [s \in Slots |->
          IF s[1] = iter[k] /\ s[2] \in locked[k] THEN "claimed" ELSE status[s]]
    /\ attempt' = [s \in Slots |->
          IF s[1] = iter[k] /\ s[2] \in locked[k] THEN attempt[s] + 1 ELSE attempt[s]]
    /\ claimed' = [claimed EXCEPT ![k] =
          [c \in Cases |-> IF c \in locked[k] THEN attempt[<<iter[k], c>>] + 1 ELSE 0]]
    /\ locked' = [locked EXCEPT ![k] = {}]
    /\ Goto(k, "build")
    /\ UNCHANGED <<outcome, iter, current, report, record, faults>>

DrainEnds(k) ==   \* nothing to claim: the drain is over
    /\ pc[k] = "claim"
    /\ In(k, {"pending"}) \subseteq LockedByOthers(k)
    /\ Goto(k, "barrier")
    /\ UNCHANGED <<tables, iter, locked, claimed, current, report, record, faults>>

BuildLoop(k) ==
    /\ pc[k] = "build"
    /\ Goto(k, "case")
    /\ UNCHANGED <<tables, iter, locked, claimed, current, report, record, faults>>

-----------------------------------------------------------------------------
(* _run_one_scenario_job.                                                   *)

Batched(k) == {c \in Cases : claimed[k][c] > 0}

(* Slip: the job is finalized before its outcome is written. *)
RunCaseFinalizing(k, c) ==
    /\ pc[k] = "case"
    /\ c \in Batched(k)
    /\ current' = [current EXCEPT ![k] = c]
    /\ status' = [status EXCEPT ![<<iter[k], c>>] = "succeeded"]
    /\ Goto(k, "finalize")
    /\ UNCHANGED <<attempt, outcome, iter, locked, claimed, report, record, faults>>

RunCase(k, c) ==   \* the case ran and graded, its outcome is upserted
    /\ pc[k] = "case"
    /\ c \in Batched(k)
    /\ current' = [current EXCEPT ![k] = c]
    /\ outcome' = [outcome EXCEPT ![<<iter[k], c>>] = claimed[k][c]]
    /\ Goto(k, "finalize")
    /\ UNCHANGED <<status, attempt, iter, locked, claimed, report, record, faults>>

CaseRaises(k, c) ==
    /\ pc[k] = "case"
    /\ c \in Batched(k)
    /\ current' = [current EXCEPT ![k] = c]
    /\ Goto(k, "fail")
    /\ UNCHANGED <<tables, iter, locked, claimed, report, record, faults>>

(* finalize_scenario_job by id alone, and on to the next of the batch.      *)
Finalize(k, to) ==
    /\ status' = [status EXCEPT ![<<iter[k], current[k]>>] = to]
    /\ claimed' = [claimed EXCEPT ![k][current[k]] = 0]
    /\ current' = [current EXCEPT ![k] = NoCase]
    /\ Goto(k, "case")
    /\ UNCHANGED <<attempt, outcome, iter, locked, report, record, faults>>

FinalizeSucceeded(k) ==
    /\ pc[k] = "finalize"
    /\ Finalize(k, "succeeded")

FinalizeRaises(k) ==   \* the statement fails; the except clause takes over
    /\ pc[k] = "finalize"
    /\ Goto(k, "fail")
    /\ UNCHANGED <<tables, iter, locked, claimed, current, report, record, faults>>

(* Slip: the status a failed run job takes. *)

(* Slip: one attempt too many. *)
MarkFailedOneMore(tries) ==
    IF tries > MaxAttempts THEN "dead_lettered" ELSE "pending"

MarkFailedOrDeadLettered(tries) ==
    IF tries >= MaxAttempts THEN "dead_lettered" ELSE "pending"

FinalizeFailed(k) ==
    /\ pc[k] = "fail"
    /\ Finalize(k, MarkFailedOrDeadLettered(claimed[k][current[k]]))

BatchDone(k) ==   \* processed > 0: the drain claims again
    /\ pc[k] = "case"
    /\ Batched(k) = {}
    /\ Goto(k, "claim")
    /\ UNCHANGED <<tables, iter, locked, claimed, current, report, record, faults>>

-----------------------------------------------------------------------------
(* RunCoordinator._await_barrier and the rest of the iteration.             *)

(* Slip: claimed rows are not counted. *)
PendingOnly(k) == In(k, {"pending"})

InFlight(k) == In(k, {"pending", "claimed"})

BarrierClears(k) ==
    /\ pc[k] = "barrier"
    /\ InFlight(k) = {}
    /\ Goto(k, "aggregate")
    /\ UNCHANGED <<tables, iter, locked, claimed, current, report, record, faults>>

BarrierTimeout(k) ==   \* TimeoutError fails the run
    /\ pc[k] = "barrier"
    /\ InFlight(k) # {}
    /\ Goto(k, "failed")
    /\ UNCHANGED <<tables, iter, locked, claimed, current, report, record, faults>>

Aggregate(k) ==   \* aggregate_iteration_from_storage
    /\ pc[k] = "aggregate"
    /\ report' = [report EXCEPT ![<<k, iter[k]>>] = [c \in Cases |-> outcome[<<iter[k], c>>]]]
    /\ Goto(k, "record")
    /\ UNCHANGED <<tables, iter, locked, claimed, current, record, faults>>

(* Slip: a second record of an iteration replaces the first one. *)
RecordUpserting(k) ==
    /\ pc[k] = "record"
    /\ record' = [record EXCEPT ![iter[k]] = k]
    /\ \/ iter[k] + 1 \in Iterations /\ iter' = [iter EXCEPT ![k] = @ + 1] /\ Goto(k, "plan")
       \/ Goto(k, "done") /\ UNCHANGED iter
    /\ UNCHANGED <<tables, locked, claimed, current, report, faults>>

(* The iteration record, a new row under a new id, and its decision; then   *)
(* the loop converges or goes on.                                           *)
Record(k) ==
    /\ pc[k] = "record"
    /\ record[iter[k]] = NoReport
    /\ record' = [record EXCEPT ![iter[k]] = k]
    /\ \/ iter[k] + 1 \in Iterations /\ iter' = [iter EXCEPT ![k] = @ + 1] /\ Goto(k, "plan")
       \/ Goto(k, "done") /\ UNCHANGED iter
    /\ UNCHANGED <<tables, locked, claimed, current, report, faults>>

(* iteration_records is unique on the experiment and the iteration, and the *)
(* upsert only expects its id to conflict: the run fails.                   *)
RecordRefused(k) ==
    /\ pc[k] = "record"
    /\ record[iter[k]] # NoReport
    /\ Goto(k, "failed")
    /\ UNCHANGED <<tables, iter, locked, claimed, current, report, record, faults>>

-----------------------------------------------------------------------------
(* The process forgets its batch; open claim transactions roll back.  Rows  *)
(* it had claimed stay claimed: no heartbeat or sweeper looks at them.      *)
Leave(k, label) ==
    /\ faults < MaxFaults
    /\ faults' = faults + 1
    /\ Goto(k, label)
    /\ locked' = [locked EXCEPT ![k] = {}]
    /\ claimed' = [claimed EXCEPT ![k] = [c \in Cases |-> 0]]
    /\ current' = [current EXCEPT ![k] = NoCase]
    /\ UNCHANGED <<tables, iter, report, record>>

(* An error outside the try of _run_one_scenario_job: opening the storage,  *)
(* planning, claiming, build_loop, the except clause's own finalize, reads. *)
DrainRaises(k) ==
    /\ pc[k] \in {"plan", "claim", "commit", "build", "fail", "barrier", "aggregate", "record"}
    /\ Leave(k, "failed")

Crash(k) ==
    /\ pc[k] \notin {"idle"} \cup Ended
    /\ Leave(k, "dead")

Work(k) ==
    \/ Plan(k) \/ ClaimSelect(k) \/ ClaimCommit(k) \/ DrainEnds(k) \/ BuildLoop(k)
    \/ (\E c \in Cases : RunCase(k, c) \/ CaseRaises(k, c))
    \/ FinalizeSucceeded(k) \/ FinalizeRaises(k) \/ FinalizeFailed(k) \/ BatchDone(k)
    \/ BarrierClears(k) \/ BarrierTimeout(k) \/ Aggregate(k)
    \/ Record(k) \/ RecordRefused(k)

Next == \E k \in Coordinators : Start(k) \/ Work(k) \/ DrainRaises(k) \/ Crash(k)

Spec == Init /\ [][Next]_vars

(* A process that started keeps executing its program.                      *)
FairSpec == Spec /\ \A k \in Coordinators : WF_vars(Work(k))

-----------------------------------------------------------------------------
(* README: the claim splits an iteration's cases "with no double-runs".  A  *)
(* case is in the batch of one process at a time, and the row it will        *)
(* finalize blindly, by id, is still the claim it was given.                 *)
ClaimsAreExclusive ==
    \A k \in Coordinators : \A c \in Batched(k) :
        /\ status[<<iter[k], c>>] = "claimed"
        /\ attempt[<<iter[k], c>>] = claimed[k][c]
        /\ \A l \in Coordinators \ {k} : iter[l] = iter[k] => c \notin Batched(l) \cup locked[l]

(* max_attempts bounds the runs of a case across all processes: a claimable *)
(* case has attempts left and a dead letter has used them all.              *)
AttemptsDecide ==
    \A s \in Slots :
        /\ attempt[s] <= MaxAttempts
        /\ status[s] = "absent" => attempt[s] = 0
        /\ status[s] = "pending" => attempt[s] < MaxAttempts
        /\ status[s] = "dead_lettered" => attempt[s] = MaxAttempts

(* scenario_outcomes is authoritative for metrics: a succeeded case has its  *)
(* outcome, and it is the one of the attempt that succeeded.                 *)
SucceededHasOutcome ==
    \A s \in Slots : status[s] = "succeeded" => outcome[s] = attempt[s]

(* The tables and the aggregates implement the ledger: cases settle once,    *)
(* for good, and the barrier lets an aggregate see settled results only.     *)
Result == [s \in Slots |-> IF status[s] \in Settled THEN outcome[s] ELSE Open]

Ledger == INSTANCE IterationLedger WITH
    Reporters <- Coordinators, Results <- 0..MaxAttempts, result <- Result

ImplementsLedger == Ledger!Spec

ReportsAgree == Ledger!ReportsAgree

(* The iterations of an experiment are recorded without gaps and by one      *)
(* process, however many execute its run: a history is never stitched        *)
(* together from two proposers (UNIQUE of m0003_run_entities.py 128).        *)
OneHistory ==
    \A i \in Iterations : record[i] # NoReport => \A j \in 0..i : record[j] = record[i]

(* Without crashes and storage errors every planned case settles, whatever  *)
(* cases raise: each retry goes back to a process that is still draining.    *)
CasesSettle ==
    [](faults = 0) =>
        \A s \in Slots : status[s] \in {"pending", "claimed"} ~> status[s] \in Settled

(* A process that executes the run comes to an end even when another one    *)
(* died with cases claimed: the barrier times out.                           *)
CoordinatorEnds ==
    \A k \in Coordinators : pc[k] = "plan" ~> pc[k] \in Ended

-----------------------------------------------------------------------------
(* schemas/job.py, ScenarioJob: "the same heartbeat + sweeper reap a dead    *)
(* worker's claim", so no claim lasts for ever.                              *)
(* The code does not keep it: nothing calls expired_scenario_job_leases.     *)
ClaimsAreReaped ==
    \A s \in Slots : status[s] = "claimed" ~> status[s] # "claimed"

-----------------------------------------------------------------------------
(* In what is safe, cases and coordinators are interchangeable.              *)
Interchangeable == Permutations(Cases) \cup Permutations(Coordinators)
=============================================================================
