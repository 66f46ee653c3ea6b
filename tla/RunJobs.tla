------------------------------- MODULE RunJobs -------------------------------
(***************************************************************************)
(* The durable execution of experiment runs: the API that launches and     *)
(* cancels them, the Redis stream that announces them, the run workers     *)
(* that lease and execute them, the heartbeat that keeps a lease fresh and *)
(* the sweeper that reaps lapsed ones.                                     *)
(*                                                                         *)
(* Every actor works on its own in-memory copy of a run_jobs row: it reads *)
(* the row in one statement and writes the whole copy back in another      *)
(* (autocommit, no lock between the two), so every read and every write is *)
(* a step of its own.  All jobs belong to one experiment.                  *)
(***************************************************************************)
EXTENDS Integers, Sequences, FiniteSets, TLC

CONSTANTS
    Jobs,         \* run jobs, one per launch request
    Workers,      \* run workers, and run threads of the API
    Sweeper,      \* the one lease sweeper
    Api,          \* the request handler of the cancel route
    None,         \* no job, no owner
    MaxAttempts,  \* RunJob.max_attempts
    LeaseTicks,   \* DEFAULT_LEASE_SECONDS, in ticks of the clock
    UseRedis,     \* whether SELFEVALS_REDIS_URL is configured: the answers of the API's processes
    MaxCrashes,   \* bound: process crashes in a behaviour
    MaxCancels,   \* bound: cancel requests in a behaviour
    MaxLeases     \* bound: workers fetch no job after so many leases

Procs == Workers \cup {Sweeper, Api}

ASSUME ConstantsAssumption ==
    /\ MaxAttempts \in Nat \ {0}
    /\ LeaseTicks \in Nat \ {0}
    /\ UseRedis \subseteq BOOLEAN
    /\ MaxCrashes \in Nat
    /\ MaxCancels \in Nat
    /\ MaxLeases \in Nat
    /\ None \notin Jobs \cup Procs
    /\ Sweeper \notin Workers \cup {Api}
    /\ Api \notin Workers

VARIABLES
    row,        \* run_jobs: the stored row of every job
    newest,     \* the job created last (the order of created_at)
    exp,        \* experiments: the stored state of the experiment
    stream,     \* the Redis stream of job announcements, append-only
    delivered,  \* the consumer group's last delivered entry
    pel,        \* the group's pending entries: delivered, not acknowledged
    request,    \* control state of every launch request
    pc,         \* control state of every process
    held,       \* the job a process works on
    msg,        \* the stream entry a worker handles, 0 when there is none, InThread for a run
                \* thread of the API
    copy,       \* the in-memory RunJob of a process
    beating,    \* workers whose heartbeat thread is alive
    todo,       \* the expired jobs the sweeper has listed
    cancels,    \* cancel requests so far
    crashes,    \* crashes so far
    leases      \* leases written so far

db    == <<row, newest, exp>>
redis == <<stream, delivered, pel>>
mem   == <<pc, held, msg, copy, beating, todo>>
tally == <<cancels, crashes, leases>>
vars  == <<db, redis, request, mem, tally>>

InThread == -1   \* _run_in_thread: no queue and no entry of it

-----------------------------------------------------------------------------
(* RunJob (schemas/job.py).  lease is the time left until lease_expires_at: *)
(* positive while it lies in the future, 0 once it has passed, NoLease when *)
(* the column is NULL.                                                      *)

NoLease == -1

InFlight == {"leased", "running"}
Terminal == {"succeeded", "failed", "cancelled", "dead_lettered"}
Status   == {"absent", "queued"} \cup InFlight \cup Terminal

Row == [status  : Status,
        attempt : Nat,
        owner   : Workers \cup {None},
        lease   : NoLease..LeaseTicks,
        cancel  : BOOLEAN]

Blank == [status |-> "absent", attempt |-> 0, owner |-> None,
          lease |-> NoLease, cancel |-> FALSE]

FreshRow == [Blank EXCEPT !.status = "queued"]

Release(r) == [r EXCEPT !.owner = None, !.lease = NoLease]

(* Slip: the request is recorded for jobs in flight only. *)
MarkCancelRequestedInFlight(r) ==
    IF r.status \notin InFlight THEN r ELSE [r EXCEPT !.cancel = TRUE]

MarkCancelRequested(r) ==
    IF r.status \in Terminal THEN r ELSE [r EXCEPT !.cancel = TRUE]

MarkLeased(r, w) ==
    [r EXCEPT !.status = "leased", !.owner = w, !.lease = LeaseTicks]

MarkRunning(r, w) ==
    [r EXCEPT !.status = "running", !.owner = w, !.lease = LeaseTicks]

MarkSucceeded(r) == [Release(r) EXCEPT !.status = "succeeded"]

MarkCancelled(r) == [Release(r) EXCEPT !.status = "cancelled"]

(* Slip: a failed job keeps its lease. *)
MarkFailedKeepingLease(r) ==
    [r EXCEPT !.status =
        IF r.attempt >= MaxAttempts THEN "dead_lettered" ELSE "failed"]

(* Slip: off by one in the retry budget. *)
MarkFailedOneMore(r) ==
    [Release(r) EXCEPT !.status =
        IF r.attempt > MaxAttempts THEN "dead_lettered" ELSE "failed"]

MarkFailedOrDeadLettered(r) ==
    [Release(r) EXCEPT !.status =
        IF r.attempt >= MaxAttempts THEN "dead_lettered" ELSE "failed"]

(* Experiment states and the ones a stored experiment is launched over.    *)
ExpStates    == {"absent", "draft", "queued", "running", "paused",
                 "completed", "aborted", "superseded"}
ActiveStates == {"queued", "running", "paused"}
ClosedStates == {"completed", "aborted", "superseded"}

-----------------------------------------------------------------------------
TypeOK ==
    /\ row \in [Jobs -> Row]
    /\ newest \in Jobs \cup {None}
    /\ exp \in ExpStates
    /\ stream \in Seq(Jobs)
    /\ delivered \in 0..Len(stream)
    /\ pel \subseteq 1..delivered
    /\ request \in [Jobs -> {"new", "put_exp", "put_job", "dispatch", "done"}]
    /\ pc \in [Procs -> {"idle", "lease", "lease_put", "leased", "build",
                         "start", "iterate", "succeed", "abort_read",
                         "abort_put", "put", "requeue", "return", "scan"}]
    /\ held \in [Procs -> Jobs \cup {None}]
    /\ msg \in [Workers -> Nat \cup {InThread}]
    /\ copy \in [Procs -> Row]
    /\ beating \subseteq Workers
    /\ todo \subseteq Jobs
    /\ cancels \in 0..MaxCancels
    /\ crashes \in 0..MaxCrashes
    /\ leases \in Nat

Init ==
    /\ row = [j \in Jobs |-> Blank]
    /\ newest = None
    /\ exp = "absent"
    /\ stream = <<>>
    /\ delivered = 0
    /\ pel = {}
    /\ request = [j \in Jobs |-> "new"]
    /\ pc = [p \in Procs |-> "idle"]
    /\ held = [p \in Procs |-> None]
    /\ msg = [w \in Workers |-> 0]
    /\ copy = [p \in Procs |-> Blank]
    /\ beating = {}
    /\ todo = {}
    /\ cancels = 0
    /\ crashes = 0
    /\ leases = 0

Goto(p, label) == pc' = [pc EXCEPT ![p] = label]

Forget(p) ==   \* p has no more use for the job it worked on
    /\ held' = [held EXCEPT ![p] = None]
    /\ copy' = [copy EXCEPT ![p] = Blank]

-----------------------------------------------------------------------------
(* launch_experiment_run: one request per job.                             *)

LaunchCheck(j) ==   \* 409 when the stored experiment is in an active state
    /\ request[j] = "new"
    /\ request' = [request EXCEPT ![j] =
                      IF exp \in ActiveStates THEN "done" ELSE "put_exp"]
    /\ UNCHANGED <<db, redis, mem, tally>>

LaunchPutExperiment(j) ==
    /\ request[j] = "put_exp"
    /\ exp' = "draft"
    /\ request' = [request EXCEPT ![j] = "put_job"]
    /\ UNCHANGED <<row, newest, redis, mem, tally>>

CreateRunJob(j) ==
    /\ request[j] = "put_job"
    /\ row' = [row EXCEPT ![j] = FreshRow]
    /\ newest' = j
    /\ request' = [request EXCEPT ![j] = "dispatch"]
    /\ UNCHANGED <<exp, redis, mem, tally>>

DispatchToRedis(j) ==
    /\ request[j] = "dispatch"
    /\ TRUE \in UseRedis
    /\ stream' = Append(stream, j)
    /\ request' = [request EXCEPT ![j] = "done"]
    /\ UNCHANGED <<db, delivered, pel, mem, tally>>

DispatchPending(j) ==   \* Redis refuses the entry: the durable row is all
    /\ request[j] = "dispatch"
    /\ TRUE \in UseRedis
    /\ request' = [request EXCEPT ![j] = "done"]
    /\ UNCHANGED <<db, redis, mem, tally>>

DispatchToThread(j, w) ==
    /\ request[j] = "dispatch"
    /\ FALSE \in UseRedis
    /\ pc[w] = "idle"
    /\ Goto(w, "lease")
    /\ held' = [held EXCEPT ![w] = j]
    /\ msg' = [msg EXCEPT ![w] = InThread]
    /\ request' = [request EXCEPT ![j] = "done"]
    /\ UNCHANGED <<db, redis, copy, beating, todo, tally>>

-----------------------------------------------------------------------------
(* run_worker: where a worker finds its next job.                          *)

Take(w, j, m) ==
    /\ pc[w] = "idle"
    /\ TRUE \in UseRedis
    /\ leases < MaxLeases
    /\ Goto(w, "lease")
    /\ held' = [held EXCEPT ![w] = j]
    /\ msg' = [msg EXCEPT ![w] = m]
    /\ UNCHANGED <<db, request, copy, beating, todo, tally>>

Consume(w) ==   \* xreadgroup: the next entry nobody was given
    /\ delivered < Len(stream)
    /\ delivered' = delivered + 1
    /\ pel' = pel \cup {delivered'}
    /\ Take(w, stream[delivered'], delivered')
    /\ UNCHANGED stream

ReclaimStale(w) ==   \* xautoclaim: an entry left pending for a minute,
    \E m \in pel :   \* whether its consumer died or is merely still busy
        /\ Take(w, stream[m], m)
        /\ UNCHANGED redis

(* Slip: the recovery poll looks for failed rows. *)
PollFailed(w) ==
    \E j \in Jobs :
        /\ row[j].status = "failed"
        /\ Take(w, j, 0)
        /\ UNCHANGED redis

PollQueued(w) ==   \* queued_run_jobs: the durable recovery path
    \E j \in Jobs :
        /\ row[j].status = "queued"
        /\ Take(w, j, 0)
        /\ UNCHANGED redis

-----------------------------------------------------------------------------
(* execute_run_job, statement by statement.                                *)

LeaseRead(w) ==
    /\ pc[w] = "lease"
    /\ IF row[held[w]].status \in Terminal \/ row[held[w]].lease > 0
         THEN Goto(w, "return") /\ Forget(w)
         ELSE /\ Goto(w, "lease_put")
              /\ copy' = [copy EXCEPT ![w] = row[held[w]]]
              /\ UNCHANGED held
    /\ UNCHANGED <<db, redis, request, msg, beating, todo, tally>>

LeasePut(w) ==
    /\ pc[w] = "lease_put"
    /\ LET leased == MarkLeased([copy[w] EXCEPT !.attempt = @ + 1], w)
       IN  /\ copy' = [copy EXCEPT ![w] = leased]
           /\ row' = [row EXCEPT ![held[w]] = leased]
    /\ leases' = leases + 1
    /\ Goto(w, "leased")
    /\ UNCHANGED <<newest, exp, redis, request, held, msg, beating, todo, cancels, crashes>>

ObserveCancel(w) ==
    /\ pc[w] = "leased"
    /\ copy[w].cancel
    /\ copy' = [copy EXCEPT ![w] = MarkCancelled(@)]
    /\ Goto(w, "abort_read")
    /\ UNCHANGED <<db, redis, request, held, msg, beating, todo, tally>>

PutRunning(w) ==
    /\ pc[w] = "leased"
    /\ ~copy[w].cancel
    /\ copy' = [copy EXCEPT ![w] = MarkRunning(@, w)]
    /\ row' = [row EXCEPT ![held[w]] = MarkRunning(copy[w], w)]
    /\ Goto(w, "build")
    /\ UNCHANGED <<newest, exp, redis, request, held, msg, beating, todo, tally>>

BuildLoop(w) ==   \* build_loop persists the experiment of the payload, a draft
    /\ pc[w] = "build"
    /\ exp' = "draft"
    /\ beating' = beating \cup {w}
    /\ Goto(w, "start")
    /\ UNCHANGED <<row, newest, redis, request, held, msg, copy, todo, tally>>

StartRun(w) ==   \* draft -> queued -> running in memory, then persisted
    /\ pc[w] = "start"
    /\ exp' = "running"
    /\ Goto(w, "iterate")
    /\ UNCHANGED <<row, newest, redis, request, held, msg, copy, beating, todo, tally>>

DrainBatch(w) ==   \* a claimed batch of scenario jobs builds its own loop
    /\ pc[w] = "iterate"
    /\ exp' = "draft"
    /\ UNCHANGED <<row, newest, redis, request, mem, tally>>

CompleteRun(w) ==   \* the heartbeat ends with the run
    /\ pc[w] = "iterate"
    /\ exp' = "completed"
    /\ beating' = beating \ {w}
    /\ Goto(w, "succeed")
    /\ UNCHANGED <<row, newest, redis, request, held, msg, copy, todo, tally>>

SucceedRun(w) ==
    /\ pc[w] = "succeed"
    /\ row' = [row EXCEPT ![held[w]] = MarkSucceeded(copy[w])]
    /\ Goto(w, "return")
    /\ Forget(w)
    /\ UNCHANGED <<newest, exp, redis, request, msg, beating, todo, tally>>

(* mark_run_job_failed, shared by the worker and the sweeper: the copy is   *)
(* failed in memory; only a dead letter goes on to abort the experiment.    *)
FailCopy(p, r) ==
    /\ copy' = [copy EXCEPT ![p] = MarkFailedOrDeadLettered(r)]
    /\ Goto(p, IF r.attempt >= MaxAttempts THEN "abort_read" ELSE "put")

RunRaises(w) ==   \* any exception inside the try of execute_run_job
    /\ pc[w] \in {"build", "start", "iterate", "succeed"}
    /\ FailCopy(w, copy[w])
    /\ beating' = beating \ {w}
    /\ UNCHANGED <<db, redis, request, held, msg, todo, tally>>

(* _abort_experiment_in_scope, read and write.                             *)
AbortRead(p) ==
    /\ pc[p] = "abort_read"
    /\ Goto(p, IF exp \in ClosedStates \cup {"absent"} THEN "put" ELSE "abort_put")
    /\ UNCHANGED <<db, redis, request, held, msg, copy, beating, todo, tally>>

AbortPut(p) ==
    /\ pc[p] = "abort_put"
    /\ exp' = "aborted"
    /\ Goto(p, "put")
    /\ UNCHANGED <<row, newest, redis, request, held, msg, copy, beating, todo, tally>>

(* Who puts a job that is to be retried back on the stream: run_worker and  *)
(* sweep_once; a run thread of the API has no queue.                        *)
Requeues(p) == p # Api /\ TRUE \in UseRedis /\ (p \in Workers => msg[p] # InThread)

(* The closing put_entity(job) of mark_run_job_cancelled, mark_run_job_failed *)
(* and request_cancel_run_job.                                              *)
PutJob(p) ==
    /\ pc[p] = "put"
    /\ row' = [row EXCEPT ![held[p]] = copy[p]]
    /\ IF copy[p].status = "failed" /\ Requeues(p)
         THEN Goto(p, "requeue") /\ UNCHANGED <<held, copy>>
         ELSE Goto(p, "return") /\ Forget(p)
    /\ UNCHANGED <<newest, exp, redis, request, msg, beating, todo, tally>>

Requeue(p) ==
    /\ pc[p] = "requeue"
    /\ stream' = Append(stream, held[p])
    /\ Goto(p, "return")
    /\ Forget(p)
    /\ UNCHANGED <<db, delivered, pel, request, msg, beating, todo, tally>>

(* Back in the loop: the worker acknowledges the entry it was given,       *)
(* whatever came of it.                                                    *)
WorkerReturn(w) ==
    /\ pc[w] = "return"
    /\ pel' = pel \ {msg[w]}
    /\ msg' = [msg EXCEPT ![w] = 0]
    /\ Goto(w, "idle")
    /\ UNCHANGED <<db, stream, delivered, request, held, copy, beating, todo, tally>>

Heartbeat(w) ==   \* touch_run_job_lease, guarded by the status alone
    /\ w \in beating
    /\ IF row[held[w]].status \in InFlight
         THEN /\ row' = [row EXCEPT ![held[w]] =
                           [@ EXCEPT !.owner = w, !.lease = LeaseTicks]]
              /\ UNCHANGED beating
         ELSE /\ beating' = beating \ {w}
              /\ UNCHANGED row
    /\ UNCHANGED <<newest, exp, redis, request, pc, held, msg, copy, todo, tally>>

-----------------------------------------------------------------------------
(* sweep_once.                                                             *)

(* Slip: jobs that died between lease and start are not listed. *)
ExpiredRunning(j) == row[j].status = "running" /\ row[j].lease = 0

Expired(j) == row[j].status \in InFlight /\ row[j].lease = 0

SweepList ==
    /\ pc[Sweeper] = "idle"
    /\ \E j \in Jobs : Expired(j)
    /\ todo' = {j \in Jobs : Expired(j)}
    /\ Goto(Sweeper, "scan")
    /\ UNCHANGED <<db, redis, request, held, msg, copy, beating, tally>>

SweepReload(j) ==
    /\ pc[Sweeper] = "scan"
    /\ j \in todo
    /\ todo' = todo \ {j}
    /\ IF row[j].status \in Terminal
         THEN UNCHANGED <<pc, held, copy>>
         ELSE /\ held' = [held EXCEPT ![Sweeper] = j]
              /\ FailCopy(Sweeper, row[j])
    /\ UNCHANGED <<db, redis, request, msg, beating, tally>>

SweepReturn ==
    /\ pc[Sweeper] = "return"
    /\ Goto(Sweeper, "scan")
    /\ UNCHANGED <<db, redis, request, held, msg, copy, beating, todo, tally>>

SweepDone ==
    /\ pc[Sweeper] = "scan"
    /\ todo = {}
    /\ Goto(Sweeper, "idle")
    /\ UNCHANGED <<db, redis, request, held, msg, copy, beating, todo, tally>>

-----------------------------------------------------------------------------
(* request_cancel_run_job: the job with the latest updated_at.  Puts keep   *)
(* the updated_at of creation; a heartbeat replaces it by the future expiry, *)
(* so a job in flight, or one the sweeper reaped, may come before the newest. *)
Listed == {newest} \cup {k \in Jobs : row[k].status \in InFlight \cup {"failed", "dead_lettered"}}

CancelRead ==
    /\ pc[Api] = "idle"
    /\ cancels < MaxCancels
    /\ cancels' = cancels + 1
    /\ \E j \in Listed :
        /\ j # None
        /\ held' = [held EXCEPT ![Api] = j]
        /\ LET asked == MarkCancelRequested(row[j])
           IN  IF row[j].status = "queued"
                 THEN /\ copy' = [copy EXCEPT ![Api] = MarkCancelled(asked)]
                      /\ Goto(Api, "abort_read")
                 ELSE /\ copy' = [copy EXCEPT ![Api] = asked]
                      /\ Goto(Api, "put")
    /\ UNCHANGED <<db, redis, request, msg, beating, todo, crashes, leases>>

CancelReturn ==
    /\ pc[Api] = "return"
    /\ Goto(Api, "idle")
    /\ UNCHANGED <<db, redis, request, held, msg, copy, beating, todo, tally>>

-----------------------------------------------------------------------------
(* Failures and time.                                                      *)

(* A process dies between two statements (SIGKILL, an exception outside the *)
(* try, Redis refusing a requeue).  Its entry stays pending in the stream.  *)
Crash(p) ==
    /\ pc[p] # "idle"
    /\ crashes < MaxCrashes
    /\ crashes' = crashes + 1
    /\ Goto(p, "idle")
    /\ Forget(p)
    /\ msg' = [w \in Workers |-> IF w = p THEN 0 ELSE msg[w]]
    /\ beating' = beating \ {p}
    /\ todo' = IF p = Sweeper THEN {} ELSE todo
    /\ UNCHANGED <<db, redis, request, cancels, leases>>

LaunchDies(j) ==   \* the API process dies inside a launch request
    /\ request[j] \in {"put_exp", "put_job", "dispatch"}
    /\ crashes < MaxCrashes
    /\ crashes' = crashes + 1
    /\ request' = [request EXCEPT ![j] = "done"]
    /\ UNCHANGED <<db, redis, mem, cancels, leases>>

(* Slip: rows without a lease age too. *)
AgeAll(r) == [r EXCEPT !.lease = IF @ = 0 THEN 0 ELSE @ - 1]

Age(r) == IF r.lease > 0 THEN [r EXCEPT !.lease = @ - 1] ELSE r

(* Of the copies only the cancel route's is written back with the expiry it *)
(* was read with; all others overwrite or clear the expiry first.           *)
Tick ==
    /\ \E j \in Jobs : row[j].lease > 0
    /\ row' = [j \in Jobs |-> Age(row[j])]
    /\ copy' = [copy EXCEPT ![Api] = Age(@)]
    /\ UNCHANGED <<newest, exp, redis, request, pc, held, msg, beating, todo, tally>>

-----------------------------------------------------------------------------
Launch(j) ==
    \/ LaunchCheck(j) \/ LaunchPutExperiment(j) \/ CreateRunJob(j)
    \/ DispatchToRedis(j) \/ DispatchPending(j)
    \/ \E w \in Workers : DispatchToThread(j, w)

Fetch(w) == Consume(w) \/ ReclaimStale(w) \/ PollQueued(w)

Finish(p) == AbortRead(p) \/ AbortPut(p) \/ PutJob(p) \/ Requeue(p)

Execute(w) ==
    \/ LeaseRead(w) \/ LeasePut(w) \/ ObserveCancel(w) \/ PutRunning(w)
    \/ BuildLoop(w) \/ StartRun(w) \/ CompleteRun(w) \/ SucceedRun(w)
    \/ RunRaises(w) \/ Finish(w) \/ WorkerReturn(w)

Sweep ==
    \/ SweepList \/ (\E j \in Jobs : SweepReload(j)) \/ SweepReturn
    \/ SweepDone \/ Finish(Sweeper)

Cancel == CancelRead \/ CancelReturn \/ Finish(Api)

Next ==
    \/ \E j \in Jobs : Launch(j) \/ LaunchDies(j)
    \/ \E w \in Workers : Fetch(w) \/ Execute(w) \/ DrainBatch(w) \/ Heartbeat(w)
    \/ Sweep
    \/ Cancel
    \/ \E p \in Procs : Crash(p)
    \/ Tick

Spec == Init /\ [][Next]_vars

(* Every request and every loop body runs on; an idle worker keeps looking  *)
(* for jobs in all three places; the sweeper wakes up every interval; time   *)
(* passes.  Nothing promises that a client launches or cancels, that Redis   *)
(* accepts an entry, or that a heartbeat gets through.                       *)
Fairness ==
    /\ \A j \in Jobs : WF_vars(request[j] # "new" /\ Launch(j))
    /\ \A w \in Workers : WF_vars(Fetch(w)) /\ WF_vars(Execute(w))
    /\ WF_vars(Sweep)
    /\ WF_vars(CancelReturn \/ Finish(Api))
    /\ WF_vars(Tick)

FairSpec == Spec /\ Fairness

-----------------------------------------------------------------------------
(* A row in flight always carries an owner and an expiry, so the sweeper's   *)
(* "lease_expires_at IS NOT NULL" filter hides no zombie; a row that is not  *)
(* in flight carries neither, so no heartbeat and no stale write leaves a    *)
(* lease behind that would keep lease_run_job from taking the job.           *)
LeaseMatchesStatus ==
    \A j \in Jobs :
        /\ row[j].status \in InFlight <=> row[j].lease # NoLease
        /\ row[j].status \in InFlight <=> row[j].owner # None

(* The retry-vs-dead-letter decision agrees with the attempts the row shows, *)
(* whichever worker or sweeper wrote it from whatever stale copy: only a job *)
(* that used up max_attempts is a dead letter, a failed one has attempts     *)
(* left, and a queued one was never leased.                                  *)
RetryBudgetDecides ==
    \A j \in Jobs :
        /\ row[j].status = "dead_lettered" => row[j].attempt >= MaxAttempts
        /\ row[j].status = "failed" => row[j].attempt \in 1..(MaxAttempts - 1)
        /\ row[j].status = "queued" => row[j].attempt = 0

(* A job is cancelled only if its row records the request for it, although  *)
(* workers and the cancel route overwrite each other's copies.              *)
CancelWasRequested ==
    \A j \in Jobs : row[j].status = "cancelled" => row[j].cancel

(* A persisted job is picked up even if its dispatch to Redis failed or the *)
(* API died before it: the durable poll of the workers recovers it.         *)
QueuedIsPickedUp ==
    \A j \in Jobs : row[j].status = "queued" ~> row[j].status # "queued"

(* No zombies: a job in flight ends, because its worker finishes it or the  *)
(* sweeper reaps it after the lease of a dead worker lapsed.                *)
InFlightEnds ==
    \A j \in Jobs : row[j].status \in InFlight ~> row[j].status \in Terminal

-----------------------------------------------------------------------------
(* Claims of comments and docs that the code does not keep.                 *)

Running(w, j) == held[w] = j /\ pc[w] \in {"build", "start", "iterate"}

(* queries.py, queued_run_jobs: polling workers "let lease_run_job arbitrate *)
(* ownership", so no two of them execute a job at the same time.             *)
OneRunnerPerJob ==
    \A j \in Jobs : \A v, w \in Workers : Running(v, j) /\ Running(w, j) => v = w

(* lease_sweeper.py: a retryable job the sweeper or the worker failed is      *)
(* re-enqueued, and with the stream consumed somebody takes it again.         *)
RetryIsTaken ==
    \A j \in Jobs : row[j].status = "failed" ~> row[j].status # "failed"

(* launch_experiment_run: "409 - the target experiment already has an active *)
(* run", so no job is created beside one that is queued or in flight.        *)
OneActiveRun ==
    [][\A j, k \in Jobs :
          j # k /\ row[j].status = "absent" /\ row'[j].status = "queued"
              => row[k].status \notin {"queued"} \cup InFlight]_vars

(* execute_run_job: "On failure we still move it to `aborted` ourselves", so *)
(* when nobody works any more, no failed job leaves an open experiment.      *)
AbortedOnFailure ==
    (\A p \in Procs : pc[p] = "idle") =>
        \A j \in Jobs : row[j].status = "failed" => exp \in ClosedStates

(* lease_sweeper.py: "the heartbeat and the sweeper cannot both act on the   *)
(* same job", so the sweeper never fails a job whose worker is beating and   *)
(* has moved the lease into the future.                                      *)
SweepsOnlyLapsedLeases ==
    [][\A j \in Jobs :
          row[j].lease > 0 /\ row[j].owner \in beating /\ row'[j].status \in Terminal
              => ~(held[Sweeper] = j /\ pc[Sweeper] = "put" /\ pc'[Sweeper] # "put")]_vars

-----------------------------------------------------------------------------
(* In what is safe, workers are interchangeable.                            *)
WorkerSymmetry == Permutations(Workers)
=============================================================================
