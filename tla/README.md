# A TLA+ development of selfevals

selfevals runs evaluation experiments over LLM agents: an experiment proposes
candidate parameters, runs every case of its dataset against each candidate,
grades and aggregates the results, decides what to keep and iterates. It runs
as a command line, as an HTTP service with run workers, and as several
processes over one Postgres database and an optional Redis.

This directory models the parts of it where several actors share state, where a
long history decides what is right, and the computations the verdicts rest on.
TLC checks the models on small instances; TLAPS proves the main safety
properties for all values of the constants. Source paths below are relative to
`src/src/selfevals/`.

## 1. The system

| Component | State it keeps | Operations | Modelled in |
|---|---|---|---|
| Durable run jobs (`api/run_jobs.py`, `api/run_launcher.py`, `api/run_queue.py`, `worker/runs.py`, `worker/lease_sweeper.py`) | rows of `run_jobs`, the experiment's state, the Redis stream and its pending entries, every process's in-memory `RunJob` | launch, dispatch, fetch, lease, heartbeat, run, fail or retry, cancel, sweep | `RunJobs`, `LeaseHeartbeat` |
| Sharded iterations (`optimization/coordinator.py`, `worker/scenario_runner.py`, `optimization/scenario_outcomes.py`, `storage/postgres/queries.py`) | rows of `scenario_jobs`, `scenario_outcomes`, `iteration_records`; the batch of every process | plan, claim, run a case, finalize, barrier, aggregate, record | `ScenarioJobs`, `IterationLedger` |
| Optimization loop, proposers, decision matrix (`optimization/loop.py`, `optimization/proposers.py`, `decision/matrix.py`) | the run's trail and baseline; iteration and decision records, hypotheses, staging markers | propose, consume, run, decide, record, stage, converge, finish, fail, launch again | `OptimizationLoop` |
| Live spans (`api/recorder_sink.py`, `api/broker.py`, `api/sse.py`) | channels, bounded queues, callbacks posted to the event loop, connections | mark, publish, close, snapshot, subscribe, receive, disconnect, detach | `SpanBroker` |
| Redis span broker (`api/redis_broker.py`) | a trimmed stream, a closed key and an active set per run | append, close in four commands, subscribe from the start, expire | `RedisBroker` |
| Trace recorder (`trace/recorder.py`, `trace/context.py`, `schemas/trace.py`) | one stack of open spans, the spans, counters, live sinks | open and close blocks, point spans, build | `TraceRecording` |
| OpenTelemetry (`trace/otel_importer.py`, `runner/otlp_to_recorder.py`, `api/trace_ingest.py`, `runner/otlp_receiver.py`) | imported spans, the receiver's slot and buffer | classify, link, import, feed, post, bind, drain | `OtelImport`, `CaseExecution` |
| Executor, adapters (`runner/executor.py`, `runner/adapters.py`) | repetitions in flight under a semaphore | bind, invoke, retry, drain, end | `CaseExecution` |
| Conversations (`runner/multiturn.py`, `runner/simulator.py`) | the thread of turns, the simulator's count | turn, simulate, judge, collapse | `Conversation` |
| Rate limiting and retry (`runner/throttle.py`, `runner/redis_throttle.py`, `runner/retry.py`) | token buckets, attempts | acquire, sleep, request, back off, fail open | `Throttle` |
| Loop building (`runner/launch/`) | the process-wide grader registry, receivers and ports | register, build, unregister, start and stop a receiver | `LoopBuilding` |
| Specifications (`repo/loader/`, `runner/launch/graders.py`, `runner/launch/datasets.py`) | none, but a queued job carries one as JSON | load, validate, dump, load again, build | `SpecLoading` |
| Entity store, mappers (`storage/postgres/storage.py`, `mappers/`) | one versioned row per entity, child rows | put with a version compare, get, delete | `EntityStore` |
| Migrations (`storage/postgres/migrations/`) | the schema and the applied versions | open, apply, record | `Migrations` |
| Payload files (`storage/filesystem.py`, `trace/payload_router.py`, `runner/trace_response_writer.py`, `api/span_replay.py`) | content-addressed files, pointers and previews on spans | route, put in place, get, resolve | `Payloads` |
| Datasets (`api/dataset_writer.py`, `repo/datasets.py`, `runner/launch/datasets.py`) | datasets with refs, manifest and statistics; cases | create, append, freeze, run over | `Datasets` |
| Workspaces and members (`storage/seed.py`, `api/routes/members.py`) | workspaces, member rows | create, invite, change, remove | `Membership` |
| Aggregation (`optimization/aggregator.py`, `optimization/scenario_outcomes.py`) | none: functions of outcomes | aggregate, from memory or from rows | `Aggregation` |
| Graders (`graders/`) | none, or the calls of a panel in flight | grade | `Funnel`, `JudgePanel`, `DeterministicGrading`, `SetMatching`, `Trajectory`, `ArtifactGrading`, `Confusion` |
| Pairwise (`runner/pairwise_tournament.py`, `runner/pairwise_ops.py`) | stored verdicts and tournaments | plan, judge, rank, ingest, calibrate | `Tournament`, `Calibration` |
| Sampling (`optimization/sampling.py`) | none | select | `Sampling` |
| Arena (`arena/`) | arenas, variants, rounds; git worktrees and preparing threads | register, prepare, launch a round, refresh, promote, clean up, collect; bundle and forecast | `Arena`, `ArenaBundle` |
| Regression gate (`runner/baseline.py`, `ci/regression.py`) | one baseline row per dataset | set, set automatically, evaluate | `Baselines` |
| Reports and comparison (`reporter/`, `cli/_common.py`) | none: rows of earlier runs | rebuild a run, compare iterations | `RunReport`, `Compare` |
| HTTP routes, command line, SDK, web interface, landing page | none, or rows they write with one put | | no, except where a command or route changes what the modules above hold |

How the parts interact. The API creates a run job and announces it (Redis
stream, or a thread of its own without Redis). A worker leases the job, builds
the `OptimizationLoop` from the specification the job carries and runs it as a
`RunCoordinator`, whose iterations insert one scenario job per case, drain them
by claims under `FOR UPDATE SKIP LOCKED`, wait at a barrier and aggregate from
the tables. A case runs as repetitions of an executor or as a conversation; its
calls pass a rate limiter; its spans go to the recorder directly or through the
OTLP receiver; its graders give verdicts. Meanwhile a heartbeat thread renews
the lease, the sweeper fails lapsed jobs, the cancel route marks jobs, and the
recorder posts spans to a broker that fans them out to SSE connections. Error
analysis inserts hypotheses that a later iteration takes up; the regression gate,
the arena and the reports read what the iterations left in the store.

What is hard about it:

- every actor reads a row into memory and later writes the *whole row* back, in
  separate statements and without a version that changes, so stale writes of
  workers, sweeper, routes and arena requests meet (`api/run_jobs.py`,
  `api/dataset_writer.py`, `arena/service.py`, `runner/baseline.py`);
- the connection commits every statement by itself, so a handler that dies or
  loses a race leaves the first of its writes (`storage/seed.py`, migrations);
- messages are announced at least once and jobs are also found by polling;
- processes die between any two statements; the claims of a dead process stay;
- several processes may execute the same run job and must still agree;
- spans, closes and subscriptions interleave; queues are bounded; a channel may
  be forgotten while somebody still wants it; Redis commands fail one by one;
- concurrent repetitions and tasks share one receiver slot, one recorder stack,
  one token bucket, one grader registry;
- baseline, convergence, proposer position and hypothesis stamps carry meaning
  across iterations, and across launches over what earlier runs stored;
- verdicts are made of rates with different denominators, gates in trees, votes
  of judges that may fail, and comparisons that must not depend on an order.

`PROJECT.json` lists the hazards at their lines with the properties that would
catch them going wrong.

## 2. Modules

Definitions keep the names of the code, in CamelCase for actions of a process,
as they are written for functions. A definition introduced by the comment *Slip*
is a plausible bug, an alternative body of the definition after it; no
specification uses it. Replacing the one by the other makes a named property
fail, which is how we know the property says something.

### The core

| Module | Contents |
|---|---|
| `RunJobs`, `RunJobsProofs` | durable run jobs, with crashes, stale copies and a clock; the proofs, and those of `LeaseHeartbeat` and `LoopBuilding`: what a worker process relies on |
| `IterationLedger` | abstract: what the sharded execution of an iteration promises |
| `ScenarioJobs`, `ScenarioJobsProofs` | claims, cases, barrier, aggregation, records; the proofs that it implements `IterationLedger` and that the ledger's reports agree, and those of what runs within a case: `Conversation`, `CaseExecution`, `TraceRecording` |
| `SpanBroker`, `SpanBrokerProofs` | the live stream of one repetition; the proofs, and those of `RedisBroker` and `Payloads`: the other ways of a span to its reader |
| `OptimizationLoop`, `OptimizationLoopProofs` | iterations of an experiment; the proofs, and those of `Arena`, which launches experiments in rounds, and of `Baselines`, which a run registers at its end |

**RunJobs.** A row is a record of status, attempt, owner, time left on the lease
and the cancel flag. `copy[p]` is the in-memory `RunJob` of process `p`; a read
copies the row, a write stores the copy. Each statement that reads or writes
Postgres or Redis is one action, in the order of the code, with `pc[p]` in
between:

- launch (`request[j]`): `LaunchCheck`, `LaunchPutExperiment`, `CreateRunJob`,
  then one of `DispatchToRedis`, `DispatchPending`, `DispatchToThread`; the API
  may die in between (`LaunchDies`). `UseRedis` holds what the API's processes
  answer when asked for a Redis URL; a run thread of a process without one has
  `InThread` in place of a stream entry and requeues nothing (`Requeues`);
- a worker's `Fetch`: `Consume`, `ReclaimStale` or `PollQueued`; then
  `LeaseRead`, `LeasePut`, `ObserveCancel`, `PutRunning`, `BuildLoop`,
  `StartRun`, `DrainBatch`, `CompleteRun`, `SucceedRun` or `RunRaises`, and on
  failure `AbortRead`, `AbortPut`, `PutJob`, `Requeue`, `WorkerReturn` (the ack);
- `Heartbeat` is the guarded `UPDATE` of `touch_run_job_lease`;
- the sweeper: `SweepList`, `SweepReload`, the same failure path, `SweepDone`;
- `CancelRead`, `CancelReturn` and the writes of the cancel route;
- `Tick` ages every lease by one; `Crash` stops a worker or the sweeper with
  all it has in memory.

Abstracted: all jobs belong to one experiment; the payload of a job; errors'
text; how a run computes (that is `OptimizationLoop` and `ScenarioJobs`).

**ScenarioJobs and IterationLedger.** A slot is an (iteration, case) pair with a
status, an attempt count and the attempt that wrote its outcome. Claiming is two
actions, the locking sub-select (`ClaimSelect`, which skips rows locked by other
open claims) and the update with its commit (`ClaimCommit`). `RunCase` upserts
the outcome, `Finalize*` writes the status by id alone; any error inside a case
goes through `mark_failed_or_dead_lettered`. Errors outside of the try block and
crashes (`DrainRaises`, `Crash`) forget the batch and leave its rows claimed.
`BarrierTimeout` is the `TimeoutError` after an hour; the model lets it happen
whenever rows are in flight. `Record` is the insert of the iteration record;
`RecordRefused` is what the table's unique constraint makes of a second one.
`IterationLedger` knows neither rows nor processes: a case settles once, for
good, and an iteration is aggregated from the settled results of all its cases.
The mapping takes a slot's result to be the attempt of its outcome row once its
status is terminal, and `Open` before.

**SpanBroker.** One run, its recorder in the run thread and any number of SSE
connections, each opened once. An action is what the event loop does between two
suspensions, or one call of the run thread. A queue is kept as all that was ever
put in it and a count of what was taken, so that properties can speak of what a
viewer has seen. `Full` is `QueueFull`; the flag and the dropped second put of
`_publish_sync` are kept as they are. `joined` and `missed` are history
variables. Viewers' disconnects, late subscriptions, forgotten channels and
subscribers leaked on a closed channel are all there.

**OptimizationLoop.** One experiment out of a set and up to `MaxRuns` runs of it,
numbered in the order of their launches. The store (state, records, decisions,
stamps, staging markers) is shared, everything else belongs to a run. Nothing in
the code keeps a run from being launched while another one works, so `LaunchRun`
does not either; the field `launched` of an experiment tells callers that wait for
the run before (`"in_turn"`) from those that do not (`"freely"`). The phases are the
stretches of `_run_iterations` between two writes to the store; `RunFails` may end a
run in each of them. A proposal is an (agent,
parameters) pair of numbers, the aggregate is a primary value and two flags
(guardrails hold, failure rate above the staging threshold). The four strategies
of `build_proposer`, the decision matrix, `_early_stop_enabled` and
`has_converged` are operators. `applied` is a history of executed hypotheses and
of the runs that executed them. Abstracted: floating point values are integers compared in the same
way; a random sample is its number; the adapter mode of `LLMProposer`, which
`build_proposer` never constructs. Primary metrics are pass-type, higher is
better, as `best_iteration` and the baseline assume.

### Around a run

| Module | What is a step, and what is abstracted |
|---|---|
| `RedisBroker` | one Redis command of worker or viewer; each may fail, whereupon the broker drops the rest of its call. The stream is trimmed at `MaxLen`; keys expire; the trace is stored after the run was closed |
| `LeaseHeartbeat` | one running job, its beats and the sweeps on one clock: a beat starts an interval after the last one *ended*. `RunJobs` leaves open when a beat gets through; here one can ask how many may be missed |
| `Throttle` | a call's pass through limiter and retry: `Acquire` is the critical section (a lock, or one Lua script), the sleep is outside of it. Tokens are counted in periods; `granted` and `sent` are eager buckets beside the lazy one, history variables that measure grants and physical requests |
| `CaseExecution` | repetitions under the semaphore; binding and unbinding the receiver's slot, posts that arrive early, in time, late or never; what `drain` finds |
| `Conversation` | one turn of a thread, the simulator's next message, the judge's stop, the collapse of graded turns. A message is its role and who wrote it; of a script only the roles matter, which say where its turns end |
| `LoopBuilding` | the stretches of `build_loop` between which another thread's build may run; the lock is the code's; names replace each other in one registry |
| `SpecLoading` | no concurrency: the same specification is built locally and through the payload of a job; the two are compared. A funnel that leads back to itself crashes the build |
| `Migrations` | one statement of `apply_migrations`; a process may die between the DDL and the row, and is started again |

### What is stored

| Module | What is a step, and what is abstracted |
|---|---|
| `EntityStore` | a put is the SELECT of the version and then the writes with their commit; a get is one SELECT for each table. Fields are those of entities with optional parts and lists |
| `Payloads` | a put is look, open (truncates), write; a writer may die in between. Texts are their lengths, as characters and as bytes, because the two limits measure different ones: the router counts the bytes of the canonical JSON, the span the characters of the text |
| `TraceRecording` | open and close of a block by a task, also by an exception, which leaves the next block or is caught before it; point spans; counters; what the live sink was told. `within` remembers in which block of its own task a span was opened |
| `OtelImport` | exported spans in any order, sent once or twice; linking a tool call mutates the parent the way the code does |
| `Datasets` | a handler's reads are one step, each of its puts is one; a handler may die between puts |
| `Membership` | every statement of a route commits by itself; requests interleave between the check and the write |
| `Arena` | reads and writes of a request that are far apart are steps of their own; the preparing thread is a process; git's worktrees are external |

### What is computed

`Aggregation`, `Confusion`, `Compare`, `Sampling`, `Calibration`, `Tournament`,
`RunReport`, `ArenaBundle`, `Baselines`, `Funnel`, `JudgePanel`,
`DeterministicGrading`, `SetMatching`, `Trajectory`, `ArtifactGrading` translate
the functions they are named after as operators. The state is their input (and,
where several writers or calls are involved, what they have stored so far), and
the properties compare the operators with independent definitions: with a second
path through the code (aggregates from memory and from rows, a live report and a
rebuilt one), with a symmetry (swapped sides, order and repetition of elements),
with monotonicity (a better answer, a longer window, a worse run), or with what
the figure is said to be. Floating point is exact arithmetic on fractions
[num, den] or integer points. Texts are the sets of phrases they contain.

### The suites

TLC runs several modules in one run. `MCCoordination`, `MCExecution`,
`MCServices`, `MCStores`, `MCGraders` and `MCEvaluation` hold one instance (or
several) of every module they are about. A behaviour chooses one component at its
start, named by `part`; the registers `s1`, `s2`, ... hold that component's
variables and the others are `Off`. Nothing is shared between the parts: the
state space is the sum of theirs, and a property of a part is asked whenever
`part` is that one. Five suites extend one component's module (`SpanBroker`,
`Throttle`, `Migrations`, `Membership`, `Datasets`) and keep its variables as they
are, so the run lists that module's own property. `Membership` and `Datasets` have
their proofs behind the model. `MCExecution` and `MCServices` begin with the proofs
about `Throttle` and `Migrations`, take their other parts through the modules in
which those are proved, and end with the theorems that the suite itself keeps what
its run lists. At the end of a suite the properties of its parts
are taken together by what they are about, and these conjunctions are what the
run lists; each conjunct is a definition of the suite with its own comment, and
is a property of the component module, where it is stated and explained.

## 3. Runs

Deadlock is not an error in any run: with a bounded number of launches, crashes,
requests and iterations the system comes to rest. The numbers are distinct
states.

| Run | Instance | States |
|---|---|---|
| `run_jobs_workers` | 1 job, 2 workers, 1 crash, 2 attempts, 1 lease (bound on fetching), with Redis | 614,083 |
| `run_jobs_recovery` | 1 job, 1 worker, 1 crash, 1 cancel, 2 leases, API processes with and without Redis, fair | 108,821 |
| `scenario_jobs` | 2 cases, 2 coordinators, 2 iterations, 2 attempts, batches of 1, 1 fault | 121,872 |
| `optimization_loop` | 16 experiments, values {0, 1}, 2 hypotheses, 2 runs, fair | 303,849 |
| `coordination` | live spans in process and through Redis, two coordinators, fair | 48,545 |
| `execution` | rate limiter, repetitions, conversations, traces, fair | 380,463 |
| `services` | migrations, loop building, lease heartbeat, run threads, arena, regression gate, Redis streams, fair | 195,653 |
| `stores` | payloads, entities, specifications, workspaces, imported traces | 1,149,737 |
| `graders` | the graders of a trace, the funnel over them and the panel | 286,162 |
| `evaluation` | datasets, aggregation, reports, samples, tournaments | 469,080 |

**run_jobs_workers**: `TypeOK`, `LeaseMatchesStatus`, `RetryBudgetDecides`. Two
workers reach every conflict of stale copies (fetch by poll and by stream,
reclaim, heartbeat against sweep); a third would repeat them. Workers are
symmetric; the run has no liveness property.

**run_jobs_recovery**: `CancelWasRequested`, `QueuedIsPickedUp`, `InFlightEnds`.
The job whose
dispatch failed and the job whose worker died. Some processes of the API have
Redis and some have not, so a launch may be announced on the stream, left to the
poll or run in a thread of the API.

**scenario_jobs**: `ClaimsAreExclusive`, `AttemptsDecide`, `SucceededHasOutcome`,
`OneHistory`, `ReportsAgree`, and the refinement `ImplementsLedger`. Two
iterations let the coordinators be in different ones.

**optimization_loop** (`MCOptimizationLoop`): `GridCovered`, `KeptBeatsAll`, `StoredInOrder`,
`HypothesesInTurn`, `RunEnds`. Grids with one, two and no axes, smaller and
larger than `max_iterations`; each early-stop setting; each proposer; two runs, in
turn for most strategies, in turn and overlapping for the manual proposer and for
hypotheses. `RunEnds` is asked of overlapping runs too.

**coordination**: the in-process broker (`NoSilentGap`, `CompleteIsWhole`), and
liveness of it, of Redis that answers and of two coordinators
(`WaitersAreReleased`: attached viewers are told of the end, runs leave the
active set, planned cases settle without a fault, coordinators end). Three spans
overflow a queue of two, one of them while the other viewer keeps up.

**execution**: three calls of two workers through one bucket with a burst of one,
of which Redis may be away once (`GrantsConform`, `BackoffWithinLease`);
repetitions one at a time with an agent in another process, two at once with an
embedded agent and with an agent that exports after its reply
(`SpansReachTheirTrace`); three threads of a conversation, whose script has leading,
assistant and trailing messages around its two turns, with a simulator that has a
judge and with one that has replies of its own (`ThreadsAreWhole`); traces of one
task, five spans three deep, and of two tasks, four spans (`TracesAreTrue`); and
`EverybodyEnds`.

**services**: three processes migrating three steps, one of which dies
(`UpIsMigrated`); three runs building loops, two with a grader of the same name
and one that is refused (`LoopsDoNotLeak`); a lease of three beats with a miss and
a killed worker, and run threads without Redis (`LeasesAreKept`); the arena with
one caller, with two that register, with one that archives under another's hands,
and with two that collect and die (`RoundsAreSound`); the baseline of a dataset, moved
by one client at a time and by two clients whose statements interleave, among them
runs that the command line waits for, over five iterations whose metrics differ in the headline, in
a class or in the error rate (`AnchorsHold`); Redis with failing commands
and with a stream shorter than the run (`RedisViewersSeeTheRun`); `ServicesSettle`
is the liveness of the others.

**stores**: one, several and dying writers of payloads, one of which is too small
for a pointer and too long for a span; entities with all, none and some of their
parts; every agent and dataset block of a specification, and lists of graders with
funnels that name themselves and each other; exported spans in any order (`WhatIsStoredComesBack`, which also asks it of the roles in one
workspace with two requests at once); two workspaces with one request at a time
(`WorkspacesStayGoverned`). Clients, users, workspaces and member ids are symmetric; the
properties of this suite are invariants and step properties only.

**graders**: every tree of three levels with every gate and result; panels of
three judges under every rule and of two with two paraphrases; phrases and all
other rules; sets of up to three items; traces of up to four spans; artifacts of
two keys and one nested level. `VerdictsAreRight` and `VerdictsAreStable`.

**evaluation**: datasets of three cases with one request at a time
(`DatasetsStayTrue`), and of two cases with two clients that overlap, share cases
and die (a conjunct of `StoredIsComputed`); two graded cases of up to three repetitions, trees, percentiles;
two classes, one in two spellings; pairs of records; pools of three features in
fifths; three candidates and, for Swiss rounds, five; one and two runs that may
die; two and three variants. `FiguresAreRight`, `StoredIsComputed`.

Two runs show where the code departs from what its comments say of it; each has
a finding in `PROJECT.json`.

| Run | Property | What happens |
|---|---|---|
| `run_jobs_double_lease` | `OneRunnerPerJob` | two workers read the row unleased, both write their lease, both run the job |
| `run_jobs_retry` | `RetryIsTaken` | a re-enqueued `failed` job counts as terminal, so it is acknowledged and never leased |

Bounds. The constants marked `bound` in the modules (`MaxCrashes`, `MaxCancels`,
`MaxLeases`, `MaxFaults`, `MaxSpans`, `MaxRuns`, `MaxDeaths`, `MaxFailures`,
`MaxOutages`, `Misses`, `MaxPuts`, `MaxCalls`, `MaxPosts`, `RoundBound`,
`VerdictBound`, `CaseBound`, and so on) bound the instances, in the guards of the
actions they limit. `MaxLeases` stops workers from fetching; it does not stop a
fetched job from being leased, which is how the double lease shows with one.
Everything else is a parameter of the code (`max_attempts`, batch size, queue
size, lease in ticks, `max_iterations`). The bounds are small because the faults
the properties are about need two actors and one bad moment: a stale write needs
one reader and one writer, a lost span one queue that is full, a wrong
denominator one case of each kind. They are large enough that each case happens:
every property has a Slip that breaks it in the instance of its run.

Fairness. Weak fairness of each process that the code keeps running: a started
launch request, a worker's fetch loop and its current job, the sweeper's periodic
loop, the clock; the coordinators' program; the event loop's callbacks and tasks;
the loop of a started run; sleeping callers and those that wake; repetitions in
flight and the exporter of an agent; migrations that started and the restart of a
process that died; preparing threads and the requests of the arena. Strong
fairness is assumed once, of the one client that waits for a round: it looks
again and again, between its other requests. Nothing is assumed of clients
(launch, cancel, connect, disconnect), of Redis accepting an entry, of heartbeats
getting through, of a trace being stored or of hypotheses arriving. A crash
disables the crashed process's actions, so liveness never rests on it.

## 4. Proofs

Every theorem is proved with TLAPS from the constants' assumption of its module,
for all numbers of processes, jobs, cases, spans, iterations, migrations, payloads
and calls, and all limits. The shape is the same throughout: an inductive
invariant, one lemma per action (or group of actions alike) that it is kept, and
the properties as its consequences. Each invariant was first checked by TLC on an
instance of its component.

Eight modules hold the theorems. A component whose proofs are elsewhere is there as
an `INSTANCE` over variables and constants of the host, and its constants'
conditions (`HeartConstants`, `ArenaConstants`, ...) are an assumption of each of
its lemmas. `MCExecution` and `MCServices` discharge them: their suite theorems cite
the components' lemmas, show that the constants of every instance fit, and so speak
of the very property and the very specification TLC runs.

| What a run lists | Theorem | Rests on |
|---|---|---|
| `TypeOK`, `LeaseMatchesStatus`, `RetryBudgetDecides`, `CancelWasRequested` | `RunJobsProofs` `TypeCorrect`, `LeasesMatchStatuses`, `RetryBudgetKept`, `CancelsWereRequested` | `IInv` |
| `ClaimsAreExclusive`, `AttemptsDecide`, `SucceededHasOutcome`, `OneHistory` | `ScenarioJobsProofs` `NoDoubleClaim`, `AttemptsBounded`, `OutcomesAuthoritative`, `HistoryHasOneAuthor` | `IInv` |
| `ImplementsLedger`, `ReportsAgree` | `ScenarioJobsProofs` `Implements`, `CoordinatorsAgree` | the refinement |
| `NoSilentGap`, `CompleteIsWhole` | `SpanBrokerProofs` `NothingIsSkipped`, `CompletesAreWhole` | `IInv` |
| `GridCovered`, `KeptBeatsAll`, `StoredInOrder`, `HypothesesInTurn` | `OptimizationLoopProofs` `GridIsCovered`, `KeptIsBest`, `StoreIsInOrder`, `HypothesesOnceInTurn` | `IInv` |
| `GrantsConform`, `BackoffWithinLease` | `MCExecution` `RateIsKept`, `BackoffIsBounded` | `LazyIsEager`, `CallInv` |
| `SpansReachTheirTrace` | `MCExecution` `SuiteKeepsSpans` | `ExecInv`, `SerialInv` |
| `ThreadsAreWhole` | `MCExecution` `SuiteKeepsThreads` | `TalkInv` |
| `TracesAreTrue` | `MCExecution` `SuiteKeepsTraces` | `RecordingInv`, `NestingInv` |
| `UpIsMigrated` | `MCServices` `OpenMeansMigrated` | `RecordedIsPrefix`, `Knows` |
| `LeasesAreKept` | `MCServices` `SuiteKeepsLeases` | `HeartInv`, `ThreadsInv` |
| `LoopsDoNotLeak` | `MCServices` `SuiteKeepsLoopsApart` | `GradersInv`, `PortsInv` |
| `RoundsAreSound` | `MCServices` `SuiteKeepsRounds` | `RoundsSound` |
| `AnchorsHold` | `MCServices` `SuiteKeepsAnchors` | `BaseInv`, `TurnsInv`, `AnchorInv` |
| `RedisViewersSeeTheRun` | `MCServices` `SuiteKeepsStreams` | `OrderInv`, `WholeInv` |
| `WorkspacesStayGoverned` | `Membership` `GovernedForever` | `GrantsFit`, `AdminFit` |
| `DatasetsStayTrue` | `Datasets` `DatasetsTrueForever` | `DatasetsSound` |

`RunJobsProofs`. The properties speak of stored rows, but any process may later
store its copy, so a row is only as sound as all copies. `IInv` therefore says
`RowSound` of rows *and* copies, and with `HeldOK` what status a copy has at each
place of its program: the code's guards were evaluated on the copy, several
steps ago. `KnownOK` says that whatever is announced, listed or newest has been
created, so that no process writes a row that does not exist. From it:
`LeasesMatchStatuses`, `RetryBudgetKept`, `CancelsWereRequested`, `TypeCorrect`.

With Redis two workers may run one job (section 5). `OneThreadPerJob` says that
without it they do not: `ThreadsApart` adds that the request of a job that a thread
works on is over, and it is the request that started the thread, so there is no
second one.

*Heartbeat.* `AliveIsNotReaped` is about a worker that lives: its job is running and
was not failed by a sweep. A beat starts an interval after the last one ended and
may take its time, so the invariant (`HeartInv`) measures what is left of the lease
against `Due`: the time until the next beat can have renewed it, for each way of
spending the misses that are still allowed (`Spare`). The assumption is that the
lease has room for them and the time of the statements (`MissesFit`); with the two
misses the code speaks of it has not (section 5).

*Loops.* Runs that a process builds at the same time share one registry of graders.
`GradersNeverLeak` needs `UsesAreOwn`: no run uses, without declaring it, a name
that another run declares. `RegistryShape` then says who is behind a name, and
`DeclaredInOrder` that a build that raises takes back what it had registered and
nothing else; one build is inside the lock at a time (`OneInside`).
`PortsFollowRuns` needs `AgentsAreBare`, because the test of `build_loop` does not
see an agent out of process once it is wrapped, and `Sandboxed`, because an executor
that is refused leaves its port behind; then a port that is held belongs to a run
that received it or is running (`PortsInv`).

`ScenarioJobsProofs`. Finalize is blind, so exclusiveness needs that a batch's
row still is the claim the process was given, with the same attempt; that needs
disjoint locks on pending rows only (`LocksOK`), and that nobody claims or
finalizes rows outside its batch (`BatchOK`). `BarrierOK` carries "all settled"
from the barrier to the aggregation. `Authored` says a process recorded all
iterations behind it and none ahead; `HistoryHasOneAuthor` follows without
induction over iterations. `Implements` is the refinement: every step settles
one case, aggregates or stutters. `CoordinatorsAgree` is then not proved from the
tables at all, it is the ledger's theorem `LedgerReportsAgree` through the
refinement.

*Conversations.* The properties speak of the inputs that turns were given, the code
of one history that grows. `HistoryIsWhole` says of the history between two turns
what a turn's input must satisfy: the script up to the message that drove the last
turn, in order, and one reply of the agent for each turn. That the script's slices,
one for each turn, fit together needs the k-th driving message to exist and to come
after the one before it (`DriverExists`, `DriverOrder`, from the rank of a message as
a bijection). `ThreadSoFar` says that the running thread has as many turns as its
position, none of which failed, and that the simulator's count is what is beyond the
script; with it `ThreadsAreNumbered` gets a position exactly once. `TalksAreWhole`
assumes what the code asks of a case before it starts: a script with a turn in it.

*Repetitions.* `SpansAreKept` holds however late an agent in another process exports.
A span is new if its number is above those of the repetition's calls, so the
invariant bounds every span wherever it is (`SpansWereMade`); the executor's own span
is added once, at the reply (`NotReplied`); and an embedded agent's count is what it
called since its last attempt began or less (`Counting`). `SerialSpansAreTheirs` is
about the case in which the one slot of the receiver is enough: one repetition at a
time, of an agent that exports before it replies (`OneAtATime`). Then the slot is
bound to the repetition that runs, nothing waits in the buffer, and every call's span
is on its way to it or in its trace (`SerialInv`).

*Traces.* Tasks pop whatever is last on the shared stack, so which id is popped says
nothing; what the invariant can say is how long it is: the stack has one place for
each span that some task holds, besides the case's turn, and every id so far is held
once, or recorded once (`HeldOrRecorded`). Hence no pop meets an empty stack, and at
the end, when no task holds a block, as many spans were recorded as opened
(`TracesAreWhole`). With one task (`OneTask`) the stack *is* its blocks
(`StackIsTheTasks`), and parents are what they should be (`OneTaskNests`).

`SpanBrokerProofs`. `LogShape` says what the run thread has posted: the mark,
the spans in order, the close. `Position` turns the number of callbacks run into
the number of spans fanned out. `Attached` says who is still subscribed, the
crux being that only a viewer that overflowed or left can be dropped by another
viewer's detach. `Delivered` and `Finished` then describe a queue's history
exactly. From it: `NothingIsSkipped`, `CompletesAreWhole`, and with `TypeCorrect`
that no queue exceeds its maximum.

*Redis.* The worker's calls and the viewers' reads are Redis commands that fail one
by one. `CallShape` says what is still to be sent in each phase, `StreamShape` that
the entries are in the order of the run with no span after the end, and `InOrder`
that a viewer has read what is behind its position, in order and none of it twice:
that is `ViewersReadInOrder`, whatever is trimmed or lost. Where the stream holds
the run (`MaxSpans < MaxLen`), `Kept` says that nothing that was appended is
missing, so a viewer that read the end from the stream has read all of it (`Whole`).
`RedisViewersDo` is both.

*Payload files.* `ClipsAlwaysHavePointers` and `NoReadIsEverCut` need no assumption.
The router and the span measure a payload on different encodings, so one that is too
small for a pointer may be too long for the span (`LostInBetween`); that one is cut,
and the theorem says that no other is. `FieldsOK` says of every recorded span that it has a pointer or is a
payload the router left inline; what is behind a pointer is read from the file,
whole or not at all. With one writer (`OneWriter`) a pointer always finds the whole
file (`RecordedStaysReadable`, of all payloads but those `LostInBetween`, from
`FilesGood`: the writer opens only files that are not whole), and if that writer does not die equal payloads have equal pointers
(`EqualBytesEqualPointers`, from `NoneTorn`).

`OptimizationLoopProofs`. `BaselineOK` says the baseline is the maximum over the
*whole* trail, attained in it, which makes one comparison with the baseline a
comparison with all earlier iterations (`KeptIsBest`). `WrittenOK` relates records
and decisions to the phase of each run, which only needs that no other run takes
them away. `StampsOK` says that the stamped hypotheses are the executed ones, and
`TakenOK` what a run knows of the one it has chosen: that it has not executed it
itself, and, when launches wait for each other (`TurnsOK`), that nobody has.
`HypothesesOnceInTurn` is an action property from the two: with overlapping runs it
is all that is left of "never re-applied" (section 5). `GridIsCovered` rests on
`Digits` and `DigitsUnique`: quotient and remainder enumerate agents times
parameters without repetition.

*Arena.* What holds depends on who calls. `ClosedRoundsAreOver` holds for everybody:
`RoundsFit` says that a round being launched is in no other request's hands as
recorded, and that the row a refresh will write back, however old, has only entries
that are over if it is closed. `ReadyVariantsAreUsable` holds unless orphans are
collected (`ReadyFit` relates a variant's row, its worktree, the preparing thread
and the rows a cleanup has read). `ExperimentsAreRecorded` and `BudgetKept` hold for
one caller whose requests are not cut off (`RecordFit`: an experiment is in one
round or in the hands of the launch that made it; `BudgetFit`: what a request has
counted is still so when it writes). `RoundsStaySound` is the four with their
conditions.

*Baselines.* Clients read the row, decide and put it, in separate statements.
`GateIsSound` needs only that the row holds the figures of the run it names and the
last verdict is the gate's on two runs (`BaseInv`), whoever interleaves; the rest is
about the gate itself: it passes what it was set from, it passes a run that is no
worse than one it passed and in which the same classes have an F1, and it fails a
class whose F1 fell. `RunsAreAnchored` assumes that the command
line waits for its runs (`Awaited`: a run over HTTP, or one that is timed out, sets no
baseline): a run that completed leaves the row or somebody on the way to it, and
whoever loses the put lost it to a row (`AnchorInv`). `ReplacedByHand` is for one
client at a time (`Serial`), where a missing row is still missing when it is written
and the version that was compared is still there (`TurnsInv`): the automatic path
replaces no row, and no write takes the version back. Of clients that interleave
neither holds (section 5).

`MCExecution`. *Throttle*: `RateIsKept` says the limiter never grants more than an *eager* token
bucket holds, although the code's bucket is refilled lazily, waiters sleep outside
of the lock and wake together, and Redis drops an idle key. The strengthening is
`LazyIsEager`: the lazy bucket, read at any moment, is the eager one. A grant needs
a whole token of the former and takes it from the latter; `StoreReading` is why
writing a reading back changes nothing. An expired key starts full, which is no
gift when its time to live is at least the time to fill it: the code's is a fixed
hour (`key_ttl_seconds`), so the assumption is on the configured rate and burst,
which must fill a bucket within it. `BackoffIsBounded`: the waits of a call are at most its attempts times
`MaxDelay` (`CallInv`), and a call has at most `MaxRetries` of them, whatever the
jitter and the provider's Retry-After. *The suite*: `SuiteKeepsSpans`,
`SuiteKeepsThreads` and `SuiteKeepsTraces` lift the invariants of repetitions,
conversations and traces to the specification of the run.

`MCServices`. *Migrations*: `RecordIsTrue` says that what is recorded is applied,
and `OpenMeansMigrated` that a process whose storage is open has the whole schema
under it, with any number of processes that race and die. `IInv` needs that the
record is always a prefix of the migrations (`RecordedIsPrefix`), which no
statement of the code checks: it follows from what each process knows (`Knows`),
that all it skipped was recorded and what it applied last is applied. *The suite*:
`SuiteKeepsLeases`, `SuiteKeepsLoopsApart`, `SuiteKeepsRounds`, `SuiteKeepsAnchors`
and `SuiteKeepsStreams` lift the components' invariants to the specification of the
run; a step of another part leaves a part's variables alone (`PartSteps`). The value
that stands for no row is a constant of the suite, and assumed to be none of the rows,
verdicts and figures (`NoneIsNothing`); TLC has it as a model value.

`Membership`. Statements of requests interleave. `GrantsStayUnique` holds anyway,
because the table refuses a second equal row; `GrantsFit` says besides that members
are of workspaces that exist and that one request at most seeds one. One request at
a time, what was checked still holds when it is written: `AdmittedFit` that the
caller is an admin (`ChangesByAdmins`, a property of every step), and `Looked` what
a request knows of the row it read, among it that another admin remains when the
row of one is removed or demoted. `AdminsAlwaysThere` needs in addition that no
request dies between the two rows of a create. `GovernedForever` is the three with
their conditions.

`Datasets`. A handler that raises or dies leaves the rows it wrote, so the proof is
about what is still *to be written*: `PlanFits` says that cases come first and one
dataset last, which names cases that are stored or come before it, and that its
manifest and statistics are of the cases it names. `RefsAlwaysResolve` and
`ManifestsNameTheirRefs` follow for every interleaving. One request at a time and
without inline runs (`OneRequest`), no write of a dataset drops a case that it has
(`Keeps`) and none changes the list of a frozen one (`Replaces`): `AppendsStay`, and
`FrozenStays` of every step. Without shared cases and without launches, which stamp
them (`NoStamps`), the hashes in a plan are those of the cases as they will be
(`PlanHashes`): `ManifestsAreCurrent`. `DatasetsTrueForever` is all of it.

Only model-checked:

- liveness (`QueuedIsPickedUp`, `InFlightEnds`, `RunEnds`, `WaitersAreReleased`,
  `EverybodyEnds`, `ServicesSettle`): fairness and `ENABLED` are out of the
  prover's reach;
- what recursive definitions and folds compute for every input, which takes
  induction over data: trees of levels in `Funnel`, schemas in `ArtifactGrading`,
  blocks in `SpecLoading`, sums and rankings in `Aggregation`, `Tournament` and
  `RunReport` (`VerdictsAreRight`, `VerdictsAreStable`, `FiguresAreRight`,
  `StoredIsComputed`, and the parts of `WhatIsStoredComesBack` about specifications
  and imported spans; its parts about payloads and roles are `SpanBrokerProofs`' and
  `Membership`'s theorems);
- entities that are read while they are put (`EntityStore`, in
  `WhatIsStoredComesBack`), whose children are numbered by such definitions.

## 5. What the code does not promise

A property of a comment, a docstring or a document that the code does not keep is
stated beside the component's other properties, with the comment *The code does
not keep it* and the reason. Two of them have runs of their own (section 3); the
rest are listed in no run, since a passing run must not contain them. Any of them
can be checked by adding its name to a configuration of the instance that is
given.

Of shared rows and processes:

| Module, property | What is said | What happens |
|---|---|---|
| `RunJobs` `SweepsOnlyLapsedLeases` | heartbeat and sweeper cannot both act on a job (`worker/lease_sweeper.py` 11) | a renewal between the sweeper's list and its write is overwritten |
| `RunJobs` `OneActiveRun` | 409 when the experiment has an active run (`api/run_launcher.py` 83) | the launch itself puts the experiment as a draft, which is not active |
| `RunJobs` `AbortedOnFailure` | on failure the experiment is aborted (`api/run_launcher.py` 288) | only a dead letter aborts it |
| `ScenarioJobs` `ClaimsAreReaped` | heartbeat and sweeper reap a dead worker's claim (`schemas/job.py` 114) | the queries of scenario leases have no caller |
| `LeaseHeartbeat` `TwoMissesBeatExpiry` | two consecutive misses still beat expiry (`api/run_launcher.py` 238) | beats are an interval plus the statement's time apart: the third comes late (with `Misses` 2) |
| `OptimizationLoop` `NeverReapplied` | a hypothesis that was used is never re-applied (`analysis/hypothesis.py` 26, `optimization/proposers.py` 328) | two overlapping runs read the same pending hypothesis, each puts its stamp over the other's and executes it (with `launched` "freely") |
| `Baselines` `VersionsNeverFall` | an atomic compare-and-set of the version (`storage/postgres/storage.py` 302) | a client compares the version, others write the next ones, and its upsert takes the row back to an older version (with clients that interleave) |
| `EntityStore` `OneWinner` | two concurrent writers cannot both win (`storage/postgres/storage.py` 8) | the version is compared in an earlier SELECT |
| `Migrations` `NothingHalfApplied` | a failure leaves the last good version (`migrations/__init__.py` 8) | on autocommit, DDL and record commit separately |
| `Membership` `CreateReturnsAdmin` | create-or-fetch a workspace and member rows (`storage/seed.py` 83) | two commits; a later call returns the workspace without an admin |
| `Datasets` `RunKeepsItsCases` | which cases an experiment ran (`runner/launch/datasets.py` 44) | a later run stamps them with its own experiment |
| `Arena` `ArchivedIsClean` | every variant's worktree is removed (`arena/service.py` 473) | one that is being prepared names no path yet and comes back as ready |
| `Arena` `OwnedIsNotCollected` | an owned worktree is never touched (`cli/arena_commands.py` 270) | the same variant is collected as an orphan |
| `LoopBuilding` `RegistryIsHermetic` | the registry stays hermetic (`runner/launch/graders.py` 67) | what was registered before a grader that does not resolve stays |
| `Payloads` `ReadableWhenQuiet` | writing the same bytes twice is one object (`storage/filesystem.py` 18) | the second writer truncates the complete file and may die |

Of what is streamed and recorded:

| Module, property | What is said | What happens |
|---|---|---|
| `SpanBroker` `SlowIsDisconnected` | the slowest subscriber is disconnected (`api/broker.py` 58) | the notice goes to the queue that is full |
| `SpanBroker` `LateViewersEnd` | the closed state is recorded for late subscribers (`api/broker.py` 204) | the channel is forgotten with its last viewer |
| `RedisBroker` `CompleteMeansSeen` | in-flight spans are not lost before going live (`api/redis_broker.py` 143) | the closed key is looked at before the stream is read |
| `OtelImport` `NothingIsDropped` | unknown attributes are kept (`trace/otel_importer.py` 5) | tool, retrieval and agent spans have no place for them |
| `OtelImport` `CountersMatchSpans` | counters stay accurate (`runner/otlp_to_recorder.py` 136) | feeding counts no tool call |
| `OtelImport` `FedLikeImported` | the same builders as the importer (`runner/otlp_to_recorder.py` 131) | a fed tool span is not linked, so its trace does not validate |
| `Conversation` `TraceNamesTheAgent` | the trace names the agent that ran (`runner/executor.py` 207) | conversations take the reference without the overrides (with `Override`) |
| `Throttle` `RequestsConform` | every physical request passes the bucket (`runner/launch/adapters.py` 162) | retries are inside the limiter and take no token |

Of specifications and verdicts:

| Module, property | What is said | What happens |
|---|---|---|
| `OptimizationLoop` `PatienceIsTaken` | no improvement for `patience` iterations (`CHANGELOG.md` 1002) | the latest value alone is compared with the best before it |
| `SpecLoading` `DatasetRoundTrips` | the dataset block round-trips (`repo/loader/__init__.py` 84) | only the cases of an inline dataset are written |
| `SpecLoading` `AgentRoundTrips` | a wall-clock cap per case (`repo/loader/models.py` 51) | the dump leaves the embedded agent's timeout out |
| `SpecLoading` `AcceptedIsNeverACrash` | no level gets past the loader only to crash at launch (`repo/loader/graders.py` 411) | a level may name its own funnel, or one that names it back: the loader accepts it, and resolving it at launch recurses without an end |
| `SpecLoading` `PrimaryGraderRuns` | the primary grader runs (`repo/loader/__init__.py` 193) | a declared grader no case names is accepted |
| `Funnel` `GuardedNeedsAPass` | only graded if the gate passed (`docs/eval_config.md` 388) | partial and skipped levels do not close a gate |
| `JudgePanel` `VotesGiveAVerdict` | the heaviest label wins (`graders/judge_panel.py` 23) | votes that weigh nothing raise (with a weight of 0) |
| `JudgePanel` `AdviceIsHarmless` | variance is advisory only (`graders/judge_panel.py` 28) | an exception while a paraphrase is judged discards the verdict |
| `DeterministicGrading` `FailShowsInFunnel` | a branch per declared rule (`graders/deterministic.py` 111) | the structured output has none |
| `DeterministicGrading` `ContradictionsAreNotGraded` | raised for contradictory rules (`graders/deterministic.py` 38) | nothing raises it |
| `SetMatching` `CaseIsIgnored` | comparison is consistent (`graders/set_match.py` 81) | the alias is looked up before folding |
| `Trajectory` `InvokedInOrderOfStart` | chronological spans (`graders/trajectory_checks.py` 46) | a span is appended when it ends |
| `Aggregation` `GraderMirrorsWorstOf` | mirrors the worst-of logic (`optimization/aggregator.py` 621) | errored verdicts stay in one of the denominators |
| `Confusion` `F1IsDefined`, `OneSidedIsUndefined` | `None` when precision or recall is (`graders/_confusion.py` 52, `graders/calibration.py` 12) | also when both are zero; each ratio has its own denominator |
| `Compare` `ChangedIsMarked` | every key that differs (`reporter/compare.py` 13) | a missing and a null parameter are not marked |
| `Sampling` `SpansEveryFeature` | spans every feature present (`optimization/sampling.py` 150) | a small feature may get no seat |
| `Tournament` `BadRequestsAreRefused` | a bad baseline is a bad request (`api/pairwise_ops.py` 228) | it is looked up outside the try (with a baseline that is no candidate) |
| `RunReport` `LatestDecisionWins` | the latest wins on duplicates (`cli/_common.py` 105) | the list is newest first, the oldest stays |
| `RunReport` `OrphansAreSkipped` | orphans are skipped (`cli/_common.py` 192) | decisions are matched by number alone |
| `ArenaBundle` `RepeatCostsTheSame` | the average cost of a round (`arena/service.py` 249) | it already sums over the repetitions it is multiplied by |
| `Baselines` `CollapsedClassFails` | a traded class is caught (`ci/regression.py` 17) | a class never right has no F1 and counts as vanished |
| `Baselines` `VerdictIsAboutTheDataset` | this fixed set of cases (`schemas/dataset.py` 118) | nobody asks which dataset the iteration ran over (with iterations over another) |

Some properties of passing runs are kept by the code only in the instance they
are listed for, and the instance is part of what the run says:

- with one caller, or one request at a time: `WithinBudget`, `EveryRoundCloses`
  (two launches share a counter; a refresh writes back a round it read before the
  launch), `Administrable` (two admins leave together), `AutoNeverOverwrites` and
  `VersionsNeverFall` (a put compares the version in a statement before the write),
  `AppendedIsThere`, `FrozenStaysAsIs`, `ManifestIsCurrent` (also without
  launches: a launch stamps the cases, which changes their hash);
- with one writer: `RecordedIsReadable` and `SameBytesSamePointer`;
- with runs in turn: that no hypothesis is executed twice, the last conjunct of
  `HypothesesInTurn`; the others hold of overlapping runs too;
- with one task, or one repetition at a time: `NestsCorrectly` (tasks share one
  stack), `SpansDrainIntoTheirCase` (repetitions share the receiver's slot);
- with an embedded agent: `CountedOnce` (an agent in another process gets a
  synthetic span besides its own); with a service that stays up:
  `EveryVariantSettles` (a command exits with its preparing thread);
- with Redis that answers: `ViewersEnd`; without Redis: `OneThreadPerJob`;
- with names that hide no built-in grader: `KnownGradersResolve`; with retries
  off: `OutOfProcessHasReceiver` (the type test looks at the adapter after it is
  wrapped); without a failing executor: `PortsAreReleased`;
- with class names without the arrow: `MatrixHoldsEveryVerdict`; with verdicts in
  one order under one rubric version: `AgreementIsAboutTheOutput`,
  `JudgedByBothIsCompared`; with advice that answers: `AdviceNeverFlips`; without
  skipped grades: `ReasonsMatchInline`; with tool calls under models of their own:
  `UnmixedIsImported`; with the command line in the run: `CompletedRunIsAnchored`.

## 6. Not modelled

- HTTP routes and read models: thin handlers over the store; those that change
  state are in the modules of what they change. Authentication has no state of its
  own beyond what a request carries.
- Command line: parsing and printing. The commands that report, anchor, register
  and collect are in `RunReport`, `Baselines` and `Arena`.
- SDK, web interface, landing page: clients of the service.
- Partly modelled: the text of prompts, judges' answers and documents; the
  transport of adapters; voice spans; the columns and the lists of the store; the
  taxonomy of failure modes and the bundles of error analysis; validators of single
  fields. `PROJECT.json` says for each component what is left out.
- Git, Redis, Postgres and the models behind adapters and judges are external:
  their commands do what the code relies on, may fail where it handles failures,
  and nothing more is said of them.

## 7. What could come next

1. `ScenarioJobs` under `OptimizationLoop`: two coordinators with proposals of
   their own share rows planned with one of them; what a record then describes.
2. `EntityStore` as the store under `RunJobs`, `Datasets`, `Arena` and
   `Baselines`, in place of their own puts.
3. An abstract stream that `SpanBroker` and `RedisBroker` both implement.
4. Proofs: loads of `EntityStore`, links and counters of `OtelImport`, the votes of
   `JudgePanel` and the rules of `DeterministicGrading` over finite sets.
