---------------------------- MODULE RunJobsProofs ----------------------------
(***************************************************************************)
(* The rows stay consistent for any number of jobs and workers, any        *)
(* max_attempts and any interleaving of stale writes: Spec keeps TypeOK,   *)
(* LeaseMatchesStatus, RetryBudgetDecides and CancelWasRequested.  Where   *)
(* no launch goes to Redis, a job has one thread.  Below, the heartbeat    *)
(* (LeaseHeartbeat): a job whose worker lives is not reaped, for any lease *)
(* with room for the beats that are missed.  At the end, the loops that    *)
(* the runs of a process build (LoopBuilding): nothing of one reaches      *)
(* another.                                                                *)
(***************************************************************************)
EXTENDS RunJobs, TLAPS

(* What the columns of one row (or of one in-memory copy) have to do with  *)
(* each other.                                                             *)
RowSound(r) ==
    /\ r.status \in InFlight <=> r.lease # NoLease
    /\ r.status \in InFlight <=> r.owner # None
    /\ r.status \in InFlight \cup {"failed", "dead_lettered"} => r.attempt >= 1
    /\ r.status = "dead_lettered" => r.attempt >= MaxAttempts
    /\ r.status = "failed" => r.attempt < MaxAttempts
    /\ r.status = "queued" => r.attempt = 0
    /\ r.status = "cancelled" => r.cancel

Created == {j \in Jobs : row[j].status # "absent"}
Begun   == {j \in Jobs : row[j].status \notin {"absent", "queued"}}

RowsSound   == \A j \in Jobs : RowSound(row[j])
CopiesSound == \A p \in Procs : RowSound(copy[p])

(* A process past its fetch works on a job that exists, and its copy has   *)
(* the status the program has given it by then; heartbeats run inside a run. *)
HeldOK ==
    \A p \in Procs :
        /\ pc[p] \notin {"idle", "return", "scan"} => held[p] \in Created
        /\ pc[p] = "leased" => copy[p].status = "leased"
        /\ pc[p] \in {"build", "start", "iterate", "succeed"} => copy[p].status = "running"
        /\ pc[p] \in {"abort_read", "abort_put", "put"}
              => copy[p].status \notin {"absent", "queued"}
        /\ p \in beating => pc[p] \in {"start", "iterate"}

(* Jobs that are announced, listed or newest exist; a request that has not *)
(* yet created its job finds no row.                                       *)
KnownOK ==
    /\ newest \in Created \cup {None}
    /\ todo \subseteq Begun
    /\ \A i \in 1..Len(stream) : stream[i] \in Created
    /\ \A j \in Jobs :
        /\ request[j] \in {"new", "put_exp", "put_job"} => j \notin Created
        /\ request[j] = "dispatch" => j \in Created

(* The inductive invariant. *)
IInv == TypeOK /\ RowsSound /\ CopiesSound /\ HeldOK /\ KnownOK

-----------------------------------------------------------------------------
(* The operators on rows keep rows sound.                                   *)

LEMMA ConstantFacts ==
    /\ LeaseTicks \in NoLease..LeaseTicks
    /\ NoLease \in NoLease..LeaseTicks
    /\ LeaseTicks # NoLease
    /\ MaxAttempts \in Nat /\ MaxAttempts >= 1
    /\ None \notin Workers /\ None \notin Jobs
BY ConstantsAssumption DEF NoLease, Procs

LEMMA StatusValues ==
    \A s \in {"absent", "queued", "leased", "running", "succeeded", "failed",
              "cancelled", "dead_lettered"} : s \in Status
BY DEF Status, InFlight, Terminal

LEMMA LeasedSound ==
    ASSUME NEW r \in Row, RowSound(r), NEW w \in Workers
    PROVE  LET q == MarkLeased([r EXCEPT !.attempt = @ + 1], w)
           IN  q \in Row /\ RowSound(q) /\ q.status = "leased"
<1> DEFINE a == [r EXCEPT !.attempt = @ + 1]
           q == MarkLeased(a, w)
<1>1. a \in Row /\ a.attempt >= 1
  BY DEF Row
<1>2. q \in Row /\ q.attempt >= 1
  BY <1>1, ConstantFacts, StatusValues DEF Row, MarkLeased
<1>3. RowSound(q) /\ q.status = "leased"
  BY <1>1, <1>2, ConstantFacts DEF Row, RowSound, InFlight, Terminal, MarkLeased
<1>. QED  BY <1>2, <1>3

LEMMA RunningSound ==
    ASSUME NEW r \in Row, RowSound(r), NEW w \in Workers, r.status \in InFlight
    PROVE  LET q == MarkRunning(r, w)
           IN  q \in Row /\ RowSound(q) /\ q.status = "running"
<1> DEFINE q == MarkRunning(r, w)
<1>1. q \in Row
  BY ConstantFacts, StatusValues DEF Row, MarkRunning
<1>2. RowSound(q) /\ q.status = "running"
  BY ConstantFacts DEF Row, RowSound, InFlight, Terminal, MarkRunning
<1>. QED  BY <1>1, <1>2

LEMMA SucceededSound ==
    ASSUME NEW r \in Row, RowSound(r)
    PROVE  LET q == MarkSucceeded(r)
           IN  q \in Row /\ RowSound(q) /\ q.status = "succeeded"
<1> DEFINE q == MarkSucceeded(r)
<1>1. q \in Row
  BY ConstantFacts, StatusValues DEF Row, MarkSucceeded, Release
<1>2. RowSound(q) /\ q.status = "succeeded"
  BY ConstantFacts DEF Row, RowSound, InFlight, Terminal, MarkSucceeded, Release
<1>. QED  BY <1>1, <1>2

LEMMA CancelledSound ==
    ASSUME NEW r \in Row, RowSound(r), r.cancel
    PROVE  LET q == MarkCancelled(r)
           IN  q \in Row /\ RowSound(q) /\ q.status = "cancelled"
<1> DEFINE q == MarkCancelled(r)
<1>1. q \in Row
  BY ConstantFacts, StatusValues DEF Row, MarkCancelled, Release
<1>2. RowSound(q) /\ q.status = "cancelled"
  BY ConstantFacts DEF Row, RowSound, InFlight, Terminal, MarkCancelled, Release
<1>. QED  BY <1>1, <1>2

LEMMA FailedSound ==
    ASSUME NEW r \in Row, RowSound(r), r.status \in InFlight
    PROVE  LET q == MarkFailedOrDeadLettered(r)
           IN  q \in Row /\ RowSound(q) /\ q.status \in {"failed", "dead_lettered"}
<1> DEFINE q == MarkFailedOrDeadLettered(r)
<1>1. q \in Row
  BY ConstantFacts, StatusValues DEF Row, MarkFailedOrDeadLettered, Release
<1>2. RowSound(q) /\ q.status \in {"failed", "dead_lettered"}
  BY ConstantFacts DEF Row, RowSound, InFlight, Terminal, MarkFailedOrDeadLettered, Release
<1>. QED  BY <1>1, <1>2

LEMMA RequestedSound ==
    ASSUME NEW r \in Row, RowSound(r)
    PROVE  LET q == MarkCancelRequested(r)
           IN  /\ q \in Row /\ RowSound(q) /\ q.status = r.status
               /\ r.status \notin Terminal => q.cancel
BY ConstantsAssumption DEF Row, RowSound, MarkCancelRequested, InFlight, Terminal, Status, NoLease

LEMMA AgeSound ==
    ASSUME NEW r \in Row, RowSound(r)
    PROVE  Age(r) \in Row /\ RowSound(Age(r)) /\ Age(r).status = r.status
BY ConstantsAssumption DEF Row, RowSound, Age, InFlight, Terminal, Status, NoLease

LEMMA BlankSound == Blank \in Row /\ RowSound(Blank)
BY ConstantsAssumption DEF Blank, Row, RowSound, InFlight, Terminal, Status, NoLease

LEMMA FreshSound == FreshRow \in Row /\ RowSound(FreshRow) /\ FreshRow.status = "queued"
<1>1. FreshRow \in Row
  BY ConstantFacts, StatusValues DEF Row, FreshRow, Blank
<1>2. RowSound(FreshRow) /\ FreshRow.status = "queued"
  BY ConstantFacts DEF RowSound, FreshRow, Blank, InFlight
<1>. QED  BY <1>1, <1>2

-----------------------------------------------------------------------------
(* What a write to one row, or to one copy, preserves.                      *)

LEMMA RowWrite ==
    ASSUME IInv, NEW j \in Created, NEW r \in Row, RowSound(r),
           r.status \notin {"absent", "queued"}, row' = [row EXCEPT ![j] = r]
    PROVE  row' \in [Jobs -> Row] /\ RowsSound' /\ Created' = Created /\ Begun \subseteq Begun'
BY DEF IInv, TypeOK, RowsSound, Created, Begun

LEMMA CopyWrite ==
    ASSUME IInv, NEW p \in Procs, NEW r \in Row, RowSound(r), copy' = [copy EXCEPT ![p] = r]
    PROVE  copy' \in [Procs -> Row] /\ CopiesSound' /\ copy'[p] = r
BY DEF IInv, TypeOK, CopiesSound

LEMMA SameRows ==
    ASSUME IInv, row' = row
    PROVE  row' \in [Jobs -> Row] /\ RowsSound' /\ Created' = Created /\ Begun' = Begun
BY DEF IInv, TypeOK, RowsSound, Created, Begun

LEMMA SameCopies ==
    ASSUME IInv, copy' = copy
    PROVE  copy' \in [Procs -> Row] /\ CopiesSound'
BY DEF IInv, TypeOK, CopiesSound

LEMMA InitIInv == Init => IInv
<1> SUFFICES ASSUME Init PROVE IInv
  OBVIOUS
<1>1. TypeOK
  BY BlankSound, ConstantsAssumption DEF Init, TypeOK, ExpStates
<1>2. RowsSound /\ CopiesSound
  BY BlankSound DEF Init, RowsSound, CopiesSound
<1>3. HeldOK /\ KnownOK
  BY DEF Init, HeldOK, KnownOK, Created, Begun, Blank
<1>. QED  BY <1>1, <1>2, <1>3 DEF IInv

-----------------------------------------------------------------------------
(* One lemma per action.                                                    *)

LEMMA LaunchCheckStep ==
    ASSUME IInv, NEW j \in Jobs, LaunchCheck(j)
    PROVE  IInv'
<1>1. row' \in [Jobs -> Row] /\ RowsSound' /\ Created' = Created /\ Begun \subseteq Begun'
  BY SameRows DEF LaunchCheck, db
<1>2. copy' \in [Procs -> Row] /\ CopiesSound'
  BY SameCopies DEF LaunchCheck, mem
<1>3. TypeOK'
  BY <1>1, <1>2 DEF IInv, TypeOK, LaunchCheck, db, redis, mem, tally
<1>4. HeldOK'
  BY <1>1 DEF IInv, TypeOK, HeldOK, LaunchCheck, db, redis, mem, tally
<1>5. KnownOK'
  BY <1>1 DEF IInv, TypeOK, KnownOK, LaunchCheck, db, redis, mem, tally
<1>. QED  BY <1>1, <1>2, <1>3, <1>4, <1>5 DEF IInv

LEMMA DispatchPendingStep ==
    ASSUME IInv, NEW j \in Jobs, DispatchPending(j)
    PROVE  IInv'
<1>1. row' \in [Jobs -> Row] /\ RowsSound' /\ Created' = Created /\ Begun \subseteq Begun'
  BY SameRows DEF DispatchPending, db
<1>2. copy' \in [Procs -> Row] /\ CopiesSound'
  BY SameCopies DEF DispatchPending, mem
<1>3. TypeOK'
  BY <1>1, <1>2 DEF IInv, TypeOK, DispatchPending, db, redis, mem, tally
<1>4. HeldOK'
  BY <1>1 DEF IInv, TypeOK, HeldOK, DispatchPending, db, redis, mem, tally
<1>5. KnownOK'
  BY <1>1 DEF IInv, TypeOK, KnownOK, DispatchPending, db, redis, mem, tally
<1>. QED  BY <1>1, <1>2, <1>3, <1>4, <1>5 DEF IInv

LEMMA LaunchDiesStep ==
    ASSUME IInv, NEW j \in Jobs, LaunchDies(j)
    PROVE  IInv'
<1>1. row' \in [Jobs -> Row] /\ RowsSound' /\ Created' = Created /\ Begun \subseteq Begun'
  BY SameRows DEF LaunchDies, db
<1>2. copy' \in [Procs -> Row] /\ CopiesSound'
  BY SameCopies DEF LaunchDies, mem
<1>3. TypeOK'
  BY <1>1, <1>2, ConstantsAssumption DEF IInv, TypeOK, LaunchDies, db, redis, mem, tally
<1>4. HeldOK'
  BY <1>1 DEF IInv, TypeOK, HeldOK, LaunchDies, db, redis, mem, tally
<1>5. KnownOK'
  BY <1>1 DEF IInv, TypeOK, KnownOK, LaunchDies, db, redis, mem, tally
<1>. QED  BY <1>1, <1>2, <1>3, <1>4, <1>5 DEF IInv

LEMMA LaunchPutExperimentStep ==
    ASSUME IInv, NEW j \in Jobs, LaunchPutExperiment(j)
    PROVE  IInv'
<1>1. row' \in [Jobs -> Row] /\ RowsSound' /\ Created' = Created /\ Begun \subseteq Begun'
  BY SameRows DEF LaunchPutExperiment, db
<1>2. copy' \in [Procs -> Row] /\ CopiesSound'
  BY SameCopies DEF LaunchPutExperiment, mem
<1>3. TypeOK'
  BY <1>1, <1>2 DEF IInv, TypeOK, LaunchPutExperiment, ExpStates, db, redis, mem, tally
<1>4. HeldOK'
  BY <1>1 DEF IInv, TypeOK, HeldOK, LaunchPutExperiment, ExpStates, db, redis, mem, tally
<1>5. KnownOK'
  BY <1>1 DEF IInv, TypeOK, KnownOK, LaunchPutExperiment, ExpStates, db, redis, mem, tally
<1>. QED  BY <1>1, <1>2, <1>3, <1>4, <1>5 DEF IInv

LEMMA DispatchToRedisStep ==
    ASSUME IInv, NEW j \in Jobs, DispatchToRedis(j)
    PROVE  IInv'
<1>0. j \in Created /\ stream \in Seq(Jobs)
  BY DEF IInv, TypeOK, KnownOK, DispatchToRedis
<1>1. row' \in [Jobs -> Row] /\ RowsSound' /\ Created' = Created /\ Begun \subseteq Begun'
  BY SameRows DEF DispatchToRedis, db
<1>2. copy' \in [Procs -> Row] /\ CopiesSound'
  BY SameCopies DEF DispatchToRedis, mem
<1>3. TypeOK'
  BY <1>1, <1>2 DEF IInv, TypeOK, DispatchToRedis, db, redis, mem, tally
<1>4. HeldOK'
  BY <1>1 DEF IInv, TypeOK, HeldOK, DispatchToRedis, db, redis, mem, tally
<1>5. KnownOK'
  BY <1>1, <1>0 DEF IInv, TypeOK, KnownOK, DispatchToRedis, db, redis, mem, tally
<1>. QED  BY <1>1, <1>2, <1>3, <1>4, <1>5 DEF IInv

LEMMA DispatchToThreadStep ==
    ASSUME IInv, NEW j \in Jobs, NEW w \in Workers, DispatchToThread(j, w)
    PROVE  IInv'
<1>0. j \in Created /\ w \in Procs
  BY DEF IInv, KnownOK, DispatchToThread, Procs
<1>1. row' \in [Jobs -> Row] /\ RowsSound' /\ Created' = Created /\ Begun \subseteq Begun'
  BY SameRows DEF DispatchToThread, db
<1>2. copy' \in [Procs -> Row] /\ CopiesSound'
  BY SameCopies DEF DispatchToThread
<1>3. TypeOK'
  BY <1>0, <1>1, <1>2 DEF IInv, TypeOK, DispatchToThread, Goto, db, redis, tally
<1>4. HeldOK'
  BY <1>0, <1>1 DEF IInv, TypeOK, HeldOK, DispatchToThread, Goto, db
<1>5. KnownOK'
  BY <1>0, <1>1 DEF IInv, TypeOK, KnownOK, DispatchToThread, db, redis
<1>. QED  BY <1>1, <1>2, <1>3, <1>4, <1>5 DEF IInv

LEMMA CreateRunJobStep ==
    ASSUME IInv, NEW j \in Jobs, CreateRunJob(j)
    PROVE  IInv'
<1>0. j \notin Created /\ row' = [row EXCEPT ![j] = FreshRow]
  BY DEF IInv, KnownOK, CreateRunJob
<1>1. row' \in [Jobs -> Row] /\ RowsSound' /\ Created' = Created \cup {j} /\ Begun' = Begun
  BY <1>0, FreshSound DEF IInv, TypeOK, RowsSound, Created, Begun
<1>2. copy' \in [Procs -> Row] /\ CopiesSound'
  BY SameCopies DEF CreateRunJob, mem
<1>3. TypeOK'
  BY <1>1, <1>2 DEF IInv, TypeOK, CreateRunJob, redis, mem, tally
<1>4. HeldOK'
  BY <1>1 DEF IInv, HeldOK, CreateRunJob, mem
<1>5. KnownOK'
  BY <1>0, <1>1 DEF IInv, TypeOK, KnownOK, CreateRunJob, redis, mem
<1>. QED  BY <1>1, <1>2, <1>3, <1>4, <1>5 DEF IInv

(* A worker that takes an existing job, whatever the stream does meanwhile. *)
LEMMA TakeStep ==
    ASSUME IInv, NEW w \in Workers, NEW j \in Created, NEW m \in Nat, Take(w, j, m),
           stream' = stream, delivered' \in 0..Len(stream'), pel' \subseteq 1..delivered'
    PROVE  IInv'
<1>0. j \in Jobs /\ w \in Procs
  BY DEF Created, Procs
<1>1. row' \in [Jobs -> Row] /\ RowsSound' /\ Created' = Created /\ Begun \subseteq Begun'
  BY SameRows DEF Take, db
<1>2. copy' \in [Procs -> Row] /\ CopiesSound'
  BY SameCopies DEF Take
<1>3. TypeOK'
  BY <1>0, <1>1, <1>2 DEF IInv, TypeOK, Take, Goto, db, tally
<1>4. HeldOK'
  BY <1>0, <1>1 DEF IInv, TypeOK, HeldOK, Take, Goto, db
<1>5. KnownOK'
  BY <1>0, <1>1 DEF IInv, TypeOK, KnownOK, Take, db
<1>. QED  BY <1>1, <1>2, <1>3, <1>4, <1>5 DEF IInv

LEMMA ConsumeStep ==
    ASSUME IInv, NEW w \in Workers, Consume(w)
    PROVE  IInv'
<1>1. delivered' \in 1..Len(stream) /\ delivered' \in Nat /\ stream[delivered'] \in Created
  BY DEF IInv, TypeOK, KnownOK, Consume
<1>2. pel' \subseteq 1..delivered'
  BY <1>1 DEF IInv, TypeOK, Consume
<1>3. Take(w, stream[delivered'], delivered') /\ stream' = stream
  BY DEF Consume
<1>4. delivered' \in 0..Len(stream')
  BY <1>1, <1>3
<1>. QED  BY <1>1, <1>2, <1>3, <1>4, TakeStep

LEMMA ReclaimStaleStep ==
    ASSUME IInv, NEW w \in Workers, ReclaimStale(w)
    PROVE  IInv'
<1>1. PICK m \in pel : Take(w, stream[m], m) /\ UNCHANGED redis
  BY DEF ReclaimStale
<1>2. m \in Nat /\ stream[m] \in Created
  BY DEF IInv, TypeOK, KnownOK
<1>3. stream' = stream /\ delivered' \in 0..Len(stream') /\ pel' \subseteq 1..delivered'
  BY <1>1 DEF IInv, TypeOK, redis
<1>. QED  BY <1>1, <1>2, <1>3, TakeStep

LEMMA PollQueuedStep ==
    ASSUME IInv, NEW w \in Workers, PollQueued(w)
    PROVE  IInv'
<1>1. PICK j \in Jobs : row[j].status = "queued" /\ Take(w, j, 0) /\ UNCHANGED redis
  BY DEF PollQueued
<1>2. j \in Created
  BY <1>1 DEF Created
<1>3. stream' = stream /\ delivered' \in 0..Len(stream') /\ pel' \subseteq 1..delivered'
  BY <1>1 DEF IInv, TypeOK, redis
<1>. QED  BY <1>1, <1>2, <1>3, TakeStep

LEMMA BuildLoopStep ==
    ASSUME IInv, NEW w \in Workers, BuildLoop(w)
    PROVE  IInv'
<1>1. row' \in [Jobs -> Row] /\ RowsSound' /\ Created' = Created /\ Begun \subseteq Begun'
  BY SameRows DEF BuildLoop, db
<1>2. copy' \in [Procs -> Row] /\ CopiesSound'
  BY SameCopies DEF BuildLoop, mem
<1>3. TypeOK'
  BY <1>1, <1>2 DEF IInv, TypeOK, BuildLoop, Goto, ExpStates, Procs, db, redis, mem, tally
<1>4. HeldOK'
  BY <1>1 DEF IInv, TypeOK, HeldOK, BuildLoop, Goto, ExpStates, Procs, db, redis, mem, tally
<1>5. KnownOK'
  BY <1>1 DEF IInv, TypeOK, KnownOK, BuildLoop, Goto, ExpStates, Procs, db, redis, mem, tally
<1>. QED  BY <1>1, <1>2, <1>3, <1>4, <1>5 DEF IInv

LEMMA StartRunStep ==
    ASSUME IInv, NEW w \in Workers, StartRun(w)
    PROVE  IInv'
<1>1. row' \in [Jobs -> Row] /\ RowsSound' /\ Created' = Created /\ Begun \subseteq Begun'
  BY SameRows DEF StartRun, db
<1>2. copy' \in [Procs -> Row] /\ CopiesSound'
  BY SameCopies DEF StartRun, mem
<1>3. TypeOK'
  BY <1>1, <1>2 DEF IInv, TypeOK, StartRun, Goto, ExpStates, Procs, db, redis, mem, tally
<1>4. HeldOK'
  BY <1>1 DEF IInv, TypeOK, HeldOK, StartRun, Goto, ExpStates, Procs, db, redis, mem, tally
<1>5. KnownOK'
  BY <1>1 DEF IInv, TypeOK, KnownOK, StartRun, Goto, ExpStates, Procs, db, redis, mem, tally
<1>. QED  BY <1>1, <1>2, <1>3, <1>4, <1>5 DEF IInv

LEMMA DrainBatchStep ==
    ASSUME IInv, NEW w \in Workers, DrainBatch(w)
    PROVE  IInv'
<1>1. row' \in [Jobs -> Row] /\ RowsSound' /\ Created' = Created /\ Begun \subseteq Begun'
  BY SameRows DEF DrainBatch, db
<1>2. copy' \in [Procs -> Row] /\ CopiesSound'
  BY SameCopies DEF DrainBatch, mem
<1>3. TypeOK'
  BY <1>1, <1>2 DEF IInv, TypeOK, DrainBatch, ExpStates, db, redis, mem, tally
<1>4. HeldOK'
  BY <1>1 DEF IInv, TypeOK, HeldOK, DrainBatch, ExpStates, db, redis, mem, tally
<1>5. KnownOK'
  BY <1>1 DEF IInv, TypeOK, KnownOK, DrainBatch, ExpStates, db, redis, mem, tally
<1>. QED  BY <1>1, <1>2, <1>3, <1>4, <1>5 DEF IInv

LEMMA CompleteRunStep ==
    ASSUME IInv, NEW w \in Workers, CompleteRun(w)
    PROVE  IInv'
<1>1. row' \in [Jobs -> Row] /\ RowsSound' /\ Created' = Created /\ Begun \subseteq Begun'
  BY SameRows DEF CompleteRun, db
<1>2. copy' \in [Procs -> Row] /\ CopiesSound'
  BY SameCopies DEF CompleteRun, mem
<1>3. TypeOK'
  BY <1>1, <1>2 DEF IInv, TypeOK, CompleteRun, Goto, ExpStates, Procs, db, redis, mem, tally
<1>4. HeldOK'
  BY <1>1 DEF IInv, TypeOK, HeldOK, CompleteRun, Goto, ExpStates, Procs, db, redis, mem, tally
<1>5. KnownOK'
  BY <1>1 DEF IInv, TypeOK, KnownOK, CompleteRun, Goto, ExpStates, Procs, db, redis, mem, tally
<1>. QED  BY <1>1, <1>2, <1>3, <1>4, <1>5 DEF IInv

LEMMA WorkerReturnStep ==
    ASSUME IInv, NEW w \in Workers, WorkerReturn(w)
    PROVE  IInv'
<1>1. row' \in [Jobs -> Row] /\ RowsSound' /\ Created' = Created /\ Begun \subseteq Begun'
  BY SameRows DEF WorkerReturn, db
<1>2. copy' \in [Procs -> Row] /\ CopiesSound'
  BY SameCopies DEF WorkerReturn, mem
<1>3. TypeOK'
  BY <1>1, <1>2 DEF IInv, TypeOK, WorkerReturn, Goto, Procs, db, redis, mem, tally
<1>4. HeldOK'
  BY <1>1 DEF IInv, TypeOK, HeldOK, WorkerReturn, Goto, Procs, db, redis, mem, tally
<1>5. KnownOK'
  BY <1>1 DEF IInv, TypeOK, KnownOK, WorkerReturn, Goto, Procs, db, redis, mem, tally
<1>. QED  BY <1>1, <1>2, <1>3, <1>4, <1>5 DEF IInv

LEMMA AbortReadStep ==
    ASSUME IInv, NEW p \in Procs, AbortRead(p)
    PROVE  IInv'
<1>1. row' \in [Jobs -> Row] /\ RowsSound' /\ Created' = Created /\ Begun \subseteq Begun'
  BY SameRows DEF AbortRead, db
<1>2. copy' \in [Procs -> Row] /\ CopiesSound'
  BY SameCopies DEF AbortRead, mem
<1>3. TypeOK'
  BY <1>1, <1>2 DEF IInv, TypeOK, AbortRead, Goto, db, redis, mem, tally
<1>4. HeldOK'
  BY <1>1 DEF IInv, TypeOK, HeldOK, AbortRead, Goto, db, redis, mem, tally
<1>5. KnownOK'
  BY <1>1 DEF IInv, TypeOK, KnownOK, AbortRead, Goto, db, redis, mem, tally
<1>. QED  BY <1>1, <1>2, <1>3, <1>4, <1>5 DEF IInv

LEMMA AbortPutStep ==
    ASSUME IInv, NEW p \in Procs, AbortPut(p)
    PROVE  IInv'
<1>1. row' \in [Jobs -> Row] /\ RowsSound' /\ Created' = Created /\ Begun \subseteq Begun'
  BY SameRows DEF AbortPut, db
<1>2. copy' \in [Procs -> Row] /\ CopiesSound'
  BY SameCopies DEF AbortPut, mem
<1>3. TypeOK'
  BY <1>1, <1>2 DEF IInv, TypeOK, AbortPut, Goto, ExpStates, db, redis, mem, tally
<1>4. HeldOK'
  BY <1>1 DEF IInv, TypeOK, HeldOK, AbortPut, Goto, ExpStates, db, redis, mem, tally
<1>5. KnownOK'
  BY <1>1 DEF IInv, TypeOK, KnownOK, AbortPut, Goto, ExpStates, db, redis, mem, tally
<1>. QED  BY <1>1, <1>2, <1>3, <1>4, <1>5 DEF IInv

LEMMA SweepListStep ==
    ASSUME IInv, SweepList
    PROVE  IInv'
<1>1. row' \in [Jobs -> Row] /\ RowsSound' /\ Created' = Created /\ Begun \subseteq Begun'
  BY SameRows DEF SweepList, db
<1>2. copy' \in [Procs -> Row] /\ CopiesSound'
  BY SameCopies DEF SweepList, mem
<1>3. TypeOK'
  BY <1>1, <1>2 DEF IInv, TypeOK, SweepList, Goto, Expired, Begun, InFlight, Procs, db, redis, mem, tally
<1>4. HeldOK'
  BY <1>1 DEF IInv, TypeOK, HeldOK, SweepList, Goto, Expired, Begun, InFlight, Procs, db, redis, mem, tally
<1>5. KnownOK'
  BY <1>1 DEF IInv, TypeOK, KnownOK, SweepList, Goto, Expired, Begun, InFlight, Procs, db, redis, mem, tally
<1>. QED  BY <1>1, <1>2, <1>3, <1>4, <1>5 DEF IInv

LEMMA SweepReturnStep ==
    ASSUME IInv, SweepReturn
    PROVE  IInv'
<1>1. row' \in [Jobs -> Row] /\ RowsSound' /\ Created' = Created /\ Begun \subseteq Begun'
  BY SameRows DEF SweepReturn, db
<1>2. copy' \in [Procs -> Row] /\ CopiesSound'
  BY SameCopies DEF SweepReturn, mem
<1>3. TypeOK'
  BY <1>1, <1>2 DEF IInv, TypeOK, SweepReturn, Goto, Procs, db, redis, mem, tally
<1>4. HeldOK'
  BY <1>1 DEF IInv, TypeOK, HeldOK, SweepReturn, Goto, Procs, db, redis, mem, tally
<1>5. KnownOK'
  BY <1>1 DEF IInv, TypeOK, KnownOK, SweepReturn, Goto, Procs, db, redis, mem, tally
<1>. QED  BY <1>1, <1>2, <1>3, <1>4, <1>5 DEF IInv

LEMMA SweepDoneStep ==
    ASSUME IInv, SweepDone
    PROVE  IInv'
<1>1. row' \in [Jobs -> Row] /\ RowsSound' /\ Created' = Created /\ Begun \subseteq Begun'
  BY SameRows DEF SweepDone, db
<1>2. copy' \in [Procs -> Row] /\ CopiesSound'
  BY SameCopies DEF SweepDone, mem
<1>3. TypeOK'
  BY <1>1, <1>2 DEF IInv, TypeOK, SweepDone, Goto, Procs, db, redis, mem, tally
<1>4. HeldOK'
  BY <1>1 DEF IInv, TypeOK, HeldOK, SweepDone, Goto, Procs, db, redis, mem, tally
<1>5. KnownOK'
  BY <1>1 DEF IInv, TypeOK, KnownOK, SweepDone, Goto, Procs, db, redis, mem, tally
<1>. QED  BY <1>1, <1>2, <1>3, <1>4, <1>5 DEF IInv

LEMMA CancelReturnStep ==
    ASSUME IInv, CancelReturn
    PROVE  IInv'
<1>1. row' \in [Jobs -> Row] /\ RowsSound' /\ Created' = Created /\ Begun \subseteq Begun'
  BY SameRows DEF CancelReturn, db
<1>2. copy' \in [Procs -> Row] /\ CopiesSound'
  BY SameCopies DEF CancelReturn, mem
<1>3. TypeOK'
  BY <1>1, <1>2 DEF IInv, TypeOK, CancelReturn, Goto, Procs, db, redis, mem, tally
<1>4. HeldOK'
  BY <1>1 DEF IInv, TypeOK, HeldOK, CancelReturn, Goto, Procs, db, redis, mem, tally
<1>5. KnownOK'
  BY <1>1 DEF IInv, TypeOK, KnownOK, CancelReturn, Goto, Procs, db, redis, mem, tally
<1>. QED  BY <1>1, <1>2, <1>3, <1>4, <1>5 DEF IInv

LEMMA LeaseReadStep ==
    ASSUME IInv, NEW w \in Workers, LeaseRead(w)
    PROVE  IInv'
<1>0. w \in Procs /\ held[w] \in Created /\ held[w] \in Jobs
  BY DEF IInv, TypeOK, HeldOK, LeaseRead, Procs, Created
<1>1. row' \in [Jobs -> Row] /\ RowsSound' /\ Created' = Created /\ Begun \subseteq Begun'
  BY SameRows DEF LeaseRead, db
<1>2. PICK r \in Row : RowSound(r) /\ copy' = [copy EXCEPT ![w] = r]
  BY <1>0, BlankSound DEF IInv, TypeOK, RowsSound, LeaseRead, Forget
<1>3. copy' \in [Procs -> Row] /\ CopiesSound'
  BY <1>0, <1>2, CopyWrite
<1>4. TypeOK'
  BY <1>0, <1>1, <1>3 DEF IInv, TypeOK, LeaseRead, Goto, Forget, db, redis, tally
<1>5. HeldOK'
  BY <1>0, <1>1 DEF IInv, TypeOK, HeldOK, LeaseRead, Goto, Forget, db
<1>6. KnownOK'
  BY <1>1 DEF IInv, TypeOK, KnownOK, LeaseRead, db, redis
<1>. QED  BY <1>1, <1>3, <1>4, <1>5, <1>6 DEF IInv

LEMMA LeasePutStep ==
    ASSUME IInv, NEW w \in Workers, LeasePut(w)
    PROVE  IInv'
<1> DEFINE q == MarkLeased([copy[w] EXCEPT !.attempt = @ + 1], w)
<1>0. w \in Procs /\ held[w] \in Created /\ copy[w] \in Row /\ RowSound(copy[w])
  BY DEF IInv, TypeOK, HeldOK, CopiesSound, LeasePut, Procs
<1>1. q \in Row /\ RowSound(q) /\ q.status = "leased"
  BY <1>0, LeasedSound
<1>2. row' = [row EXCEPT ![held[w]] = q] /\ copy' = [copy EXCEPT ![w] = q]
  BY DEF LeasePut
<1> HIDE DEF q
<1>3. row' \in [Jobs -> Row] /\ RowsSound' /\ Created' = Created /\ Begun \subseteq Begun'
  BY <1>0, <1>1, <1>2, RowWrite
<1>4. copy' \in [Procs -> Row] /\ CopiesSound' /\ copy'[w] = q
  BY <1>0, <1>1, <1>2, CopyWrite
<1>5. TypeOK'
  BY <1>0, <1>3, <1>4 DEF IInv, TypeOK, LeasePut, Goto, redis
<1>6. HeldOK'
  BY <1>0, <1>1, <1>2, <1>3, <1>4 DEF IInv, TypeOK, HeldOK, LeasePut, Goto
<1>7. KnownOK'
  BY <1>3 DEF IInv, TypeOK, KnownOK, LeasePut, redis
<1>. QED  BY <1>3, <1>4, <1>5, <1>6, <1>7 DEF IInv

LEMMA ObserveCancelStep ==
    ASSUME IInv, NEW w \in Workers, ObserveCancel(w)
    PROVE  IInv'
<1> DEFINE q == MarkCancelled(copy[w])
<1>0. w \in Procs /\ copy[w] \in Row /\ RowSound(copy[w]) /\ copy[w].cancel
  BY DEF IInv, TypeOK, CopiesSound, ObserveCancel, Procs
<1>1. q \in Row /\ RowSound(q) /\ q.status = "cancelled"
  BY <1>0, CancelledSound
<1>2. copy' = [copy EXCEPT ![w] = q]
  BY DEF ObserveCancel
<1> HIDE DEF q
<1>3. row' \in [Jobs -> Row] /\ RowsSound' /\ Created' = Created /\ Begun \subseteq Begun'
  BY SameRows DEF ObserveCancel, db
<1>4. copy' \in [Procs -> Row] /\ CopiesSound' /\ copy'[w] = q
  BY <1>0, <1>1, <1>2, CopyWrite
<1>5. TypeOK'
  BY <1>0, <1>3, <1>4 DEF IInv, TypeOK, ObserveCancel, Goto, db, redis, tally
<1>6. HeldOK'
  BY <1>0, <1>1, <1>2, <1>3, <1>4 DEF IInv, TypeOK, HeldOK, ObserveCancel, Goto
<1>7. KnownOK'
  BY <1>3 DEF IInv, TypeOK, KnownOK, ObserveCancel, db, redis
<1>. QED  BY <1>3, <1>4, <1>5, <1>6, <1>7 DEF IInv

LEMMA PutRunningStep ==
    ASSUME IInv, NEW w \in Workers, PutRunning(w)
    PROVE  IInv'
<1> DEFINE q == MarkRunning(copy[w], w)
<1>0. /\ w \in Procs /\ held[w] \in Created
      /\ copy[w] \in Row /\ RowSound(copy[w]) /\ copy[w].status \in InFlight
  BY DEF IInv, TypeOK, HeldOK, CopiesSound, PutRunning, Procs, InFlight
<1>1. q \in Row /\ RowSound(q) /\ q.status = "running"
  BY <1>0, RunningSound
<1>2. row' = [row EXCEPT ![held[w]] = q] /\ copy' = [copy EXCEPT ![w] = q]
  BY DEF PutRunning
<1> HIDE DEF q
<1>3. row' \in [Jobs -> Row] /\ RowsSound' /\ Created' = Created /\ Begun \subseteq Begun'
  BY <1>0, <1>1, <1>2, RowWrite
<1>4. copy' \in [Procs -> Row] /\ CopiesSound' /\ copy'[w] = q
  BY <1>0, <1>1, <1>2, CopyWrite
<1>5. TypeOK'
  BY <1>0, <1>3, <1>4 DEF IInv, TypeOK, PutRunning, Goto, redis, tally
<1>6. HeldOK'
  BY <1>0, <1>1, <1>2, <1>3, <1>4 DEF IInv, TypeOK, HeldOK, PutRunning, Goto
<1>7. KnownOK'
  BY <1>3 DEF IInv, TypeOK, KnownOK, PutRunning, redis
<1>. QED  BY <1>3, <1>4, <1>5, <1>6, <1>7 DEF IInv

LEMMA SucceedRunStep ==
    ASSUME IInv, NEW w \in Workers, SucceedRun(w)
    PROVE  IInv'
<1> DEFINE q == MarkSucceeded(copy[w])
<1>0. w \in Procs /\ held[w] \in Created /\ copy[w] \in Row /\ RowSound(copy[w])
  BY DEF IInv, TypeOK, HeldOK, CopiesSound, SucceedRun, Procs
<1>1. q \in Row /\ RowSound(q) /\ q.status = "succeeded"
  BY <1>0, SucceededSound
<1>2. row' = [row EXCEPT ![held[w]] = q] /\ copy' = [copy EXCEPT ![w] = Blank]
  BY DEF SucceedRun, Forget
<1> HIDE DEF q
<1>3. row' \in [Jobs -> Row] /\ RowsSound' /\ Created' = Created /\ Begun \subseteq Begun'
  BY <1>0, <1>1, <1>2, RowWrite
<1>4. copy' \in [Procs -> Row] /\ CopiesSound'
  BY <1>0, <1>2, BlankSound, CopyWrite
<1>5. TypeOK'
  BY <1>0, <1>3, <1>4 DEF IInv, TypeOK, SucceedRun, Goto, Forget, redis, tally
<1>6. HeldOK'
  BY <1>0, <1>2, <1>3 DEF IInv, TypeOK, HeldOK, SucceedRun, Goto, Forget
<1>7. KnownOK'
  BY <1>3 DEF IInv, TypeOK, KnownOK, SucceedRun, redis
<1>. QED  BY <1>3, <1>4, <1>5, <1>6, <1>7 DEF IInv

LEMMA RunRaisesStep ==
    ASSUME IInv, NEW w \in Workers, RunRaises(w)
    PROVE  IInv'
<1> DEFINE q == MarkFailedOrDeadLettered(copy[w])
<1>0. /\ w \in Procs /\ held[w] \in Created
      /\ copy[w] \in Row /\ RowSound(copy[w]) /\ copy[w].status \in InFlight
  BY DEF IInv, TypeOK, HeldOK, CopiesSound, RunRaises, Procs, InFlight
<1>1. q \in Row /\ RowSound(q) /\ q.status \in {"failed", "dead_lettered"}
  BY <1>0, FailedSound
<1>2. copy' = [copy EXCEPT ![w] = q]
  BY DEF RunRaises, FailCopy
<1> HIDE DEF q
<1>3. row' \in [Jobs -> Row] /\ RowsSound' /\ Created' = Created /\ Begun \subseteq Begun'
  BY SameRows DEF RunRaises, db
<1>4. copy' \in [Procs -> Row] /\ CopiesSound' /\ copy'[w] = q
  BY <1>0, <1>1, <1>2, CopyWrite
<1>5. TypeOK'
  BY <1>0, <1>3, <1>4 DEF IInv, TypeOK, RunRaises, FailCopy, Goto, db, redis, tally
<1>6. HeldOK'
  BY <1>0, <1>1, <1>2, <1>3, <1>4 DEF IInv, TypeOK, HeldOK, RunRaises, FailCopy, Goto
<1>7. KnownOK'
  BY <1>3 DEF IInv, TypeOK, KnownOK, RunRaises, db, redis
<1>. QED  BY <1>3, <1>4, <1>5, <1>6, <1>7 DEF IInv

LEMMA PutJobStep ==
    ASSUME IInv, NEW p \in Procs, PutJob(p)
    PROVE  IInv'
<1>0. /\ held[p] \in Created /\ copy[p] \in Row /\ RowSound(copy[p])
      /\ copy[p].status \notin {"absent", "queued"}
  BY DEF IInv, TypeOK, HeldOK, CopiesSound, PutJob
<1>1. row' = [row EXCEPT ![held[p]] = copy[p]]
  BY DEF PutJob
<1>2. row' \in [Jobs -> Row] /\ RowsSound' /\ Created' = Created /\ Begun \subseteq Begun'
  BY <1>0, <1>1, RowWrite
<1>3. PICK r \in Row : RowSound(r) /\ copy' = [copy EXCEPT ![p] = r]
  BY <1>0, BlankSound DEF IInv, TypeOK, PutJob, Forget
<1>4. copy' \in [Procs -> Row] /\ CopiesSound'
  BY <1>3, CopyWrite
<1>5. TypeOK'
  BY <1>2, <1>4 DEF IInv, TypeOK, PutJob, Goto, Forget, redis, tally
<1>6. HeldOK'
  BY <1>0, <1>2, <1>3 DEF IInv, TypeOK, HeldOK, PutJob, Goto, Forget
<1>7. KnownOK'
  BY <1>2 DEF IInv, TypeOK, KnownOK, PutJob, redis
<1>. QED  BY <1>2, <1>4, <1>5, <1>6, <1>7 DEF IInv

LEMMA RequeueStep ==
    ASSUME IInv, NEW p \in Procs, Requeue(p)
    PROVE  IInv'
<1>0. held[p] \in Created /\ held[p] \in Jobs /\ stream \in Seq(Jobs)
  BY DEF IInv, TypeOK, HeldOK, Requeue, Created
<1>1. row' \in [Jobs -> Row] /\ RowsSound' /\ Created' = Created /\ Begun \subseteq Begun'
  BY SameRows DEF Requeue, db
<1>2. copy' \in [Procs -> Row] /\ CopiesSound'
  BY BlankSound, CopyWrite DEF Requeue, Forget
<1>3. TypeOK'
  BY <1>0, <1>1, <1>2 DEF IInv, TypeOK, Requeue, Goto, Forget, db, tally
<1>4. HeldOK'
  BY <1>1 DEF IInv, TypeOK, HeldOK, Requeue, Goto, Forget
<1>5. KnownOK'
  BY <1>0, <1>1 DEF IInv, TypeOK, KnownOK, Requeue, db
<1>. QED  BY <1>1, <1>2, <1>3, <1>4, <1>5 DEF IInv

LEMMA BeatSound ==
    ASSUME NEW r \in Row, RowSound(r), r.status \in InFlight, NEW w \in Workers
    PROVE  LET q == [r EXCEPT !.owner = w, !.lease = LeaseTicks]
           IN  q \in Row /\ RowSound(q) /\ q.status = r.status
<1> DEFINE q == [r EXCEPT !.owner = w, !.lease = LeaseTicks]
<1>1. q \in Row /\ q.status = r.status /\ q.attempt = r.attempt
  BY ConstantFacts DEF Row
<1>2. q.lease # NoLease /\ q.owner # None /\ q.cancel = r.cancel
  BY ConstantFacts DEF Row
<1> HIDE DEF q
<1>3. RowSound(q)
  BY <1>1, <1>2 DEF RowSound
<1>. QED  BY <1>1, <1>3 DEF q

LEMMA HeartbeatStep ==
    ASSUME IInv, NEW w \in Workers, Heartbeat(w)
    PROVE  IInv'
<1>0. /\ w \in Procs /\ held[w] \in Created /\ held[w] \in Jobs
      /\ row[held[w]] \in Row /\ RowSound(row[held[w]])
  BY DEF IInv, TypeOK, HeldOK, RowsSound, Heartbeat, Procs, Created
<1>1. row' \in [Jobs -> Row] /\ RowsSound' /\ Created' = Created /\ Begun \subseteq Begun'
  <2>1. CASE row[held[w]].status \in InFlight
    <3> DEFINE q == [row[held[w]] EXCEPT !.owner = w, !.lease = LeaseTicks]
    <3>1. q \in Row /\ RowSound(q) /\ q.status \in InFlight
      BY <1>0, <2>1, BeatSound
    <3>2. row' = [row EXCEPT ![held[w]] = q]
      BY <1>0, <2>1 DEF Heartbeat, IInv, TypeOK
    <3> HIDE DEF q
    <3>. QED  BY <1>0, <3>1, <3>2, RowWrite DEF InFlight
  <2>2. CASE row[held[w]].status \notin InFlight
    BY <2>2, SameRows DEF Heartbeat
  <2>. QED  BY <2>1, <2>2
<1>2. copy' \in [Procs -> Row] /\ CopiesSound'
  BY SameCopies DEF Heartbeat
<1>3. TypeOK'
  BY <1>1, <1>2 DEF IInv, TypeOK, Heartbeat, redis, tally
<1>4. HeldOK'
  BY <1>1 DEF IInv, TypeOK, HeldOK, Heartbeat
<1>5. KnownOK'
  BY <1>1 DEF IInv, TypeOK, KnownOK, Heartbeat, redis
<1>. QED  BY <1>1, <1>2, <1>3, <1>4, <1>5 DEF IInv

LEMMA SweepReloadStep ==
    ASSUME IInv, NEW j \in Jobs, SweepReload(j)
    PROVE  IInv'
<1> DEFINE q == MarkFailedOrDeadLettered(row[j])
<1>0. /\ Sweeper \in Procs /\ j \in Created /\ row[j] \in Row /\ RowSound(row[j])
      /\ row[j].status \notin Terminal => row[j].status \in InFlight
      /\ Sweeper \notin beating
  BY ConstantsAssumption
     DEF IInv, TypeOK, KnownOK, RowsSound, SweepReload, Created, Begun, Procs, Row, Status
<1>1. ASSUME row[j].status \notin Terminal
      PROVE  q \in Row /\ RowSound(q) /\ q.status \in {"failed", "dead_lettered"}
  BY <1>0, <1>1, FailedSound
<1>2. row[j].status \notin Terminal => copy' = [copy EXCEPT ![Sweeper] = q]
  BY DEF SweepReload, FailCopy
<1> HIDE DEF q
<1>3. row' \in [Jobs -> Row] /\ RowsSound' /\ Created' = Created /\ Begun \subseteq Begun'
  BY SameRows DEF SweepReload, db
<1>4. copy' \in [Procs -> Row] /\ CopiesSound'
  <2>1. CASE row[j].status \in Terminal
    BY <2>1, SameCopies DEF SweepReload
  <2>2. CASE row[j].status \notin Terminal
    BY <1>0, <1>1, <1>2, <2>2, CopyWrite
  <2>. QED  BY <2>1, <2>2
<1>5. TypeOK'
  BY <1>0, <1>3, <1>4, SMTT(30) DEF IInv, TypeOK, SweepReload, FailCopy, Goto, db, redis, tally
<1>6. HeldOK'
  <2>1. CASE row[j].status \in Terminal
    BY <1>3, <2>1 DEF IInv, HeldOK, SweepReload
  <2>2. CASE row[j].status \notin Terminal
    <3>1. copy' = [copy EXCEPT ![Sweeper] = q] /\ q.status \in {"failed", "dead_lettered"}
      BY <1>1, <1>2, <2>2
    <3>. QED  BY <1>0, <1>3, <2>2, <3>1 DEF IInv, TypeOK, HeldOK, SweepReload, FailCopy, Goto
  <2>. QED  BY <2>1, <2>2
<1>7. KnownOK'
  BY <1>3 DEF IInv, TypeOK, KnownOK, SweepReload, db, redis
<1>. QED  BY <1>3, <1>4, <1>5, <1>6, <1>7 DEF IInv

LEMMA CancelReadStep ==
    ASSUME IInv, CancelRead
    PROVE  IInv'
<1> DEFINE asked(k) == MarkCancelRequested(row[k])
           To(k) == IF row[k].status = "queued" THEN MarkCancelled(asked(k)) ELSE asked(k)
<1>1. PICK j \in Listed :
        /\ j # None
        /\ held' = [held EXCEPT ![Api] = j]
        /\ copy' = [copy EXCEPT ![Api] = To(j)]
        /\ pc' = [pc EXCEPT ![Api] = IF row[j].status = "queued" THEN "abort_read" ELSE "put"]
  BY DEF CancelRead, Goto
<1>2. Api \in Procs /\ Api \notin beating /\ j \in Created /\ j \in Jobs
  BY <1>1, ConstantsAssumption
     DEF IInv, TypeOK, KnownOK, Listed, Created, Procs, InFlight
<1>3. row[j] \in Row /\ RowSound(row[j]) /\ row[j].status # "absent"
  BY <1>2 DEF IInv, TypeOK, RowsSound, Created
<1>4. /\ asked(j) \in Row /\ RowSound(asked(j)) /\ asked(j).status = row[j].status
      /\ row[j].status \notin Terminal => asked(j).cancel
  BY <1>3, RequestedSound
<1> HIDE DEF asked
<1>5. To(j) \in Row /\ RowSound(To(j)) /\ To(j).status \notin {"absent", "queued"}
  <2>1. CASE row[j].status = "queued"
    <3>1. asked(j).cancel
      BY <1>4, <2>1 DEF Terminal
    <3>2. MarkCancelled(asked(j)) \in Row /\ RowSound(MarkCancelled(asked(j)))
          /\ MarkCancelled(asked(j)).status = "cancelled"
      BY <1>4, <3>1, CancelledSound
    <3>. QED  BY <2>1, <3>2
  <2>2. CASE row[j].status # "queued"
    BY <1>3, <1>4, <2>2
  <2>. QED  BY <2>1, <2>2
<1> HIDE DEF To
<1>6. row' \in [Jobs -> Row] /\ RowsSound' /\ Created' = Created /\ Begun \subseteq Begun'
  BY SameRows DEF CancelRead, db
<1>7. copy' \in [Procs -> Row] /\ CopiesSound' /\ copy'[Api] = To(j)
  BY <1>1, <1>2, <1>5, CopyWrite
<1>8. TypeOK'
  BY <1>1, <1>2, <1>6, <1>7, ConstantsAssumption DEF IInv, TypeOK, CancelRead, db, redis
<1>9. HeldOK'
  BY <1>1, <1>2, <1>5, <1>6, <1>7 DEF IInv, TypeOK, HeldOK, CancelRead
<1>10. KnownOK'
  BY <1>6 DEF IInv, TypeOK, KnownOK, CancelRead, db, redis
<1>. QED  BY <1>6, <1>7, <1>8, <1>9, <1>10 DEF IInv

LEMMA CrashStep ==
    ASSUME IInv, NEW p \in Procs, Crash(p)
    PROVE  IInv'
<1>1. row' \in [Jobs -> Row] /\ RowsSound' /\ Created' = Created /\ Begun \subseteq Begun'
  BY SameRows DEF Crash, db
<1>2. copy' \in [Procs -> Row] /\ CopiesSound'
  BY BlankSound, CopyWrite DEF Crash, Forget
<1>3. TypeOK'
  BY <1>1, <1>2, ConstantsAssumption DEF IInv, TypeOK, Crash, Goto, Forget, db, redis
<1>4. HeldOK'
  BY <1>1 DEF IInv, TypeOK, HeldOK, Crash, Goto, Forget
<1>5. KnownOK'
  BY <1>1 DEF IInv, TypeOK, KnownOK, Crash, db, redis
<1>. QED  BY <1>1, <1>2, <1>3, <1>4, <1>5 DEF IInv

LEMMA TickStep ==
    ASSUME IInv, Tick
    PROVE  IInv'
<1>0. Api \in Procs /\ copy[Api] \in Row /\ RowSound(copy[Api])
  BY DEF IInv, TypeOK, CopiesSound, Procs
<1>1. \A j \in Jobs : /\ row'[j] \in Row /\ RowSound(row'[j])
                      /\ row'[j].status = row[j].status
  BY AgeSound DEF IInv, TypeOK, RowsSound, Tick
<1>2. row' \in [Jobs -> Row]
  BY <1>1 DEF Tick
<1>3. RowsSound' /\ Created' = Created /\ Begun' = Begun
  BY <1>1 DEF RowsSound, Created, Begun
<1>4. Age(copy[Api]) \in Row /\ RowSound(Age(copy[Api])) /\ Age(copy[Api]).status = copy[Api].status
  BY <1>0, AgeSound
<1>5. copy' = [copy EXCEPT ![Api] = Age(copy[Api])]
  BY DEF Tick
<1>6. copy' \in [Procs -> Row] /\ CopiesSound' /\ copy'[Api] = Age(copy[Api])
  BY <1>0, <1>4, <1>5, CopyWrite
<1>7. TypeOK'
  BY <1>2, <1>6 DEF IInv, TypeOK, Tick, redis, tally
<1>8. HeldOK'
  BY <1>0, <1>3, <1>4, <1>5, <1>6 DEF IInv, TypeOK, HeldOK, Tick
<1>9. KnownOK'
  BY <1>3 DEF IInv, TypeOK, KnownOK, Tick, redis
<1>. QED  BY <1>2, <1>3, <1>6, <1>7, <1>8, <1>9 DEF IInv

LEMMA StutterStep ==
    ASSUME IInv, UNCHANGED vars
    PROVE  IInv'
<1>1. row' \in [Jobs -> Row] /\ RowsSound' /\ Created' = Created /\ Begun \subseteq Begun'
  BY SameRows DEF vars, db
<1>2. copy' \in [Procs -> Row] /\ CopiesSound'
  BY SameCopies DEF vars, mem
<1>3. TypeOK'
  BY DEF IInv, TypeOK, vars, db, redis, mem, tally
<1>4. HeldOK'
  BY <1>1 DEF IInv, HeldOK, vars, mem
<1>5. KnownOK'
  BY <1>1 DEF IInv, KnownOK, vars, db, redis, mem
<1>. QED  BY <1>1, <1>2, <1>3, <1>4, <1>5 DEF IInv

-----------------------------------------------------------------------------
LEMMA NextIInv == IInv /\ [Next]_vars => IInv'
<1> SUFFICES ASSUME IInv, [Next]_vars PROVE IInv'
  OBVIOUS
<1>1. ASSUME NEW p \in Procs, Finish(p) PROVE IInv'
  BY <1>1, AbortReadStep, AbortPutStep, PutJobStep, RequeueStep DEF Finish
<1>2. ASSUME NEW j \in Jobs, Launch(j) \/ LaunchDies(j) PROVE IInv'
  BY <1>2, LaunchCheckStep, LaunchPutExperimentStep, CreateRunJobStep, DispatchToRedisStep,
     DispatchPendingStep, DispatchToThreadStep, LaunchDiesStep DEF Launch
<1>3. ASSUME NEW w \in Workers, Fetch(w) PROVE IInv'
  BY <1>3, ConsumeStep, ReclaimStaleStep, PollQueuedStep DEF Fetch
<1>4. ASSUME NEW w \in Workers, Execute(w) PROVE IInv'
  <2>1. w \in Procs
    BY DEF Procs
  <2>. QED  BY <1>1, <1>4, <2>1, LeaseReadStep, LeasePutStep, ObserveCancelStep, PutRunningStep,
     BuildLoopStep, StartRunStep, CompleteRunStep, SucceedRunStep, RunRaisesStep,
     WorkerReturnStep DEF Execute
<1>5. ASSUME NEW w \in Workers, DrainBatch(w) \/ Heartbeat(w) PROVE IInv'
  BY <1>5, DrainBatchStep, HeartbeatStep
<1>6. ASSUME Sweep PROVE IInv'
  BY <1>1, <1>6, SweepListStep, SweepReloadStep, SweepReturnStep, SweepDoneStep DEF Sweep, Procs
<1>7. ASSUME Cancel PROVE IInv'
  BY <1>1, <1>7, CancelReadStep, CancelReturnStep DEF Cancel, Procs
<1>8. ASSUME NEW p \in Procs, Crash(p) PROVE IInv'
  BY <1>8, CrashStep
<1>. QED  BY <1>2, <1>3, <1>4, <1>5, <1>6, <1>7, <1>8, TickStep, StutterStep DEF Next

(* The inductive invariant holds in every behaviour of launches, workers,   *)
(* heartbeats, sweeps, cancel requests, crashes and passing time.           *)
THEOREM Inductive == Spec => []IInv
BY InitIInv, NextIInv, PTL DEF Spec

(* Types: the rows keep the schema of RunJob, a lease never outlives        *)
(* DEFAULT_LEASE_SECONDS and the consumer group never runs past the stream. *)
THEOREM TypeCorrect == Spec => []TypeOK
<1>1. IInv => TypeOK
  BY DEF IInv
<1>. QED  BY <1>1, Inductive, PTL

(* Whatever stale copies workers, heartbeats, sweeper and cancel route write *)
(* over each other, exactly the rows in flight carry a lease and an owner.   *)
THEOREM LeasesMatchStatuses == Spec => []LeaseMatchesStatus
<1>1. IInv => LeaseMatchesStatus
  BY DEF IInv, RowsSound, RowSound, LeaseMatchesStatus
<1>. QED  BY <1>1, Inductive, PTL

(* mark_failed_or_dead_lettered decides by max_attempts, for every value of  *)
(* it, and no later write parts the status from the attempts it stands for.  *)
THEOREM RetryBudgetKept == Spec => []RetryBudgetDecides
<1>1. IInv => RetryBudgetDecides
  <2>1. ASSUME IInv, NEW j \in Jobs
        PROVE  row[j].attempt \in Nat /\ RowSound(row[j])
    BY <2>1 DEF IInv, TypeOK, RowsSound, Row
  <2>. QED  BY <2>1, ConstantFacts DEF RowSound, RetryBudgetDecides
<1>. QED  BY <1>1, Inductive, PTL

(* No row is cancelled that does not record a request for it: neither the    *)
(* worker nor the cancel route cancels a job nobody asked it to.             *)
THEOREM CancelsWereRequested == Spec => []CancelWasRequested
<1>1. IInv => CancelWasRequested
  BY DEF IInv, RowsSound, RowSound, CancelWasRequested
<1>. QED  BY <1>1, Inductive, PTL

-----------------------------------------------------------------------------
(* Without Redis.                                                           *)

(* No two workers work on the same job, and the request of a job that is worked on is over. *)
ThreadsApart ==
    /\ \A w \in Workers : held[w] # None => request[held[w]] = "done"
    /\ \A v, w \in Workers : held[v] = held[w] /\ held[v] # None => v = w

(* What a step does to the jobs that workers hold, when nothing fetches. *)
LEMMA HeldStep ==
    ASSUME TypeOK, [Next]_vars, TRUE \notin UseRedis
    PROVE  \/ \E j \in Jobs, w \in Workers : DispatchToThread(j, w)
           \/ \A w \in Workers : held'[w] \in {held[w], None}
<1>. DEFINE Kept == \A w \in Workers : held'[w] \in {held[w], None}
<1>1. held \in [Procs -> Jobs \cup {None}] /\ Workers \subseteq Procs
  BY DEF TypeOK, Procs
<1>2. Sweeper \notin Workers /\ Api \notin Workers
  BY ConstantsAssumption
<1>3. ASSUME NEW p, Forget(p) PROVE Kept
  BY <1>1, <1>3 DEF Forget
<1>4. ASSUME UNCHANGED held PROVE Kept
  BY <1>4
<1>5. ASSUME NEW p \in Procs, Finish(p) PROVE Kept
  BY <1>3, <1>4, <1>5 DEF Finish, AbortRead, AbortPut, PutJob, Requeue
<1>6. ASSUME NEW j \in Jobs, Launch(j) \/ LaunchDies(j)
      PROVE  Kept \/ \E w \in Workers : DispatchToThread(j, w)
  BY <1>4, <1>6 DEF Launch, LaunchDies, LaunchCheck, LaunchPutExperiment, CreateRunJob,
     DispatchToRedis, DispatchPending, mem
<1>7. ASSUME NEW w \in Workers, Fetch(w) PROVE FALSE
  BY <1>7 DEF Fetch, Consume, ReclaimStale, PollQueued, Take
<1>8. ASSUME NEW w \in Workers, Execute(w) PROVE Kept
  <2>1. w \in Procs
    BY <1>1
  <2>. QED  BY <1>3, <1>4, <1>5, <1>8, <2>1 DEF Execute, LeaseRead, LeasePut, ObserveCancel,
     PutRunning, BuildLoop, StartRun, CompleteRun, SucceedRun, RunRaises, WorkerReturn
<1>9. ASSUME NEW w \in Workers, DrainBatch(w) \/ Heartbeat(w) PROVE Kept
  BY <1>4, <1>9 DEF DrainBatch, Heartbeat, mem
<1>10. ASSUME Sweep PROVE Kept
  <2>1. ASSUME NEW j \in Jobs, SweepReload(j) PROVE Kept
    BY <1>1, <1>2, <1>4, <2>1 DEF SweepReload
  <2>. QED  BY <1>4, <1>5, <1>10, <2>1 DEF Sweep, SweepList, SweepReturn, SweepDone, Procs
<1>11. ASSUME Cancel PROVE Kept
  <2>1. ASSUME CancelRead PROVE Kept
    BY <1>1, <1>2, <2>1 DEF CancelRead
  <2>. QED  BY <1>4, <1>5, <1>11, <2>1 DEF Cancel, CancelReturn, Procs
<1>12. ASSUME NEW p \in Procs, Crash(p) PROVE Kept
  BY <1>3, <1>12 DEF Crash
<1>13. ASSUME Tick \/ UNCHANGED vars PROVE Kept
  BY <1>4, <1>13 DEF Tick, vars, mem
<1>. QED  BY <1>6, <1>7, <1>8, <1>9, <1>10, <1>11, <1>12, <1>13 DEF Next

(* A launch request that is over stays over. *)
LEMMA RequestStep ==
    ASSUME TypeOK, [Next]_vars, NEW j \in Jobs, request[j] = "done"
    PROVE  request'[j] = "done"
<1>1. request \in [Jobs -> {"new", "put_exp", "put_job", "dispatch", "done"}]
  BY DEF TypeOK
<1>2. ASSUME NEW k \in Jobs, Launch(k) \/ LaunchDies(k) PROVE request'[j] = "done"
  BY <1>1, <1>2 DEF Launch, LaunchDies, LaunchCheck, LaunchPutExperiment, CreateRunJob,
     DispatchToRedis, DispatchPending, DispatchToThread
<1>3. ASSUME NEW p \in Procs, Finish(p) PROVE UNCHANGED request
  BY <1>3 DEF Finish, AbortRead, AbortPut, PutJob, Requeue
<1>4. ASSUME NEW w \in Workers, Fetch(w) \/ DrainBatch(w) \/ Heartbeat(w)
      PROVE  UNCHANGED request
  BY <1>4 DEF Fetch, Consume, ReclaimStale, PollQueued, Take, DrainBatch, Heartbeat
<1>5. ASSUME NEW w \in Workers, Execute(w) PROVE UNCHANGED request
  <2>1. w \in Procs
    BY DEF Procs
  <2>. QED  BY <1>3, <1>5, <2>1 DEF Execute, LeaseRead, LeasePut, ObserveCancel,
     PutRunning, BuildLoop, StartRun, CompleteRun, SucceedRun, RunRaises, WorkerReturn
<1>6. ASSUME Sweep \/ Cancel PROVE UNCHANGED request
  BY <1>3, <1>6 DEF Sweep, Cancel, SweepList, SweepReload, SweepReturn, SweepDone, CancelRead,
     CancelReturn, Procs
<1>7. ASSUME Tick \/ UNCHANGED vars \/ \E p \in Procs : Crash(p) PROVE UNCHANGED request
  BY <1>7 DEF Tick, Crash, vars
<1>. QED  BY <1>2, <1>4, <1>5, <1>6, <1>7 DEF Next

LEMMA ThreadsApartStep ==
    ASSUME TypeOK, ThreadsApart, [Next]_vars, TRUE \notin UseRedis
    PROVE  ThreadsApart'
<1>1. /\ held \in [Procs -> Jobs \cup {None}] /\ Workers \subseteq Procs /\ None \notin Jobs
      /\ request \in [Jobs -> {"new", "put_exp", "put_job", "dispatch", "done"}]
  BY ConstantFacts DEF TypeOK, Procs
<1>2. \A w \in Workers : held[w] # None => request'[held[w]] = "done"
  BY <1>1, RequestStep DEF ThreadsApart
<1>3. CASE \A w \in Workers : held'[w] \in {held[w], None}
  BY <1>2, <1>3 DEF ThreadsApart
<1>4. ASSUME NEW j \in Jobs, NEW w \in Workers, DispatchToThread(j, w) PROVE ThreadsApart'
  <2>1. /\ held' = [held EXCEPT ![w] = j] /\ request[j] = "dispatch" /\ request'[j] = "done"
    BY <1>1, <1>4 DEF DispatchToThread
  <2>2. \A v \in Workers : held[v] # j
    BY <1>1, <2>1 DEF ThreadsApart
  <2>. QED  BY <1>1, <1>2, <2>1, <2>2 DEF ThreadsApart
<1>. QED  BY <1>3, <1>4, HeldStep

ThreadsInv == IInv /\ ThreadsApart

LEMMA ThreadsInit == ASSUME Init PROVE ThreadsInv
BY InitIInv DEF Init, ThreadsInv, ThreadsApart, Procs

LEMMA ThreadsNext == ASSUME TRUE \notin UseRedis, ThreadsInv, [Next]_vars PROVE ThreadsInv'
BY NextIInv, ThreadsApartStep DEF ThreadsInv, IInv

LEMMA ThreadsGive == ASSUME ThreadsInv PROVE OneRunnerPerJob
BY ConstantFacts DEF ThreadsInv, ThreadsApart, OneRunnerPerJob, Running

(* queued_run_jobs promises one runner for a job.  Where no process uses Redis it is kept:
   the launch request starts one thread, and nothing else fetches.  (With Redis it is not:
   RunJobs_double_lease.cfg.) *)
THEOREM OneThreadPerJob == ASSUME TRUE \notin UseRedis PROVE Spec => []OneRunnerPerJob
<1>1. ThreadsInv /\ [Next]_vars => ThreadsInv'
  BY ThreadsNext
<1>. QED  BY <1>1, ThreadsInit, ThreadsGive, PTL DEF Spec

-----------------------------------------------------------------------------
(* The heartbeat of one job, with its times (LeaseHeartbeat).               *)
CONSTANTS Beats, Interval, Latency, SweepEvery, Misses, Kills
VARIABLES left, worker, timer, fresh, missed, sweep, job
Heart == INSTANCE LeaseHeartbeat

(* The constants of the heartbeat. *)
HeartConstants ==
    /\ Beats \in Nat /\ Interval \in Nat /\ Latency \in Nat /\ SweepEvery \in Nat
    /\ Misses \in Nat

(* The time between two beats that get through, all misses between them, and the time of the
   statement fit the lease. *)
Period == Interval + Latency
MissesFit == Latency + (Misses + 1) * Period <= Heart!Lease

Alive == worker \in {"waits", "beats"}

(* What the misses that are left may take, and what may pass until the next renewal. *)
Spare == (Misses - missed) * Period
Due == (IF worker = "waits" THEN timer + Latency ELSE timer) + Spare

HeartType ==
    /\ left \in Int /\ left >= -1
    /\ worker \in {"waits", "beats", "killed", "ended"}
    /\ timer \in Nat /\ fresh \in Nat /\ sweep \in Nat
    /\ missed \in 0..Misses
    /\ job \in {"running", "reaped", "done"}

HeartInv ==
    /\ HeartType
    /\ worker = "beats" => Heart!Lease - Latency + timer <= fresh /\ timer <= Latency
    /\ Alive => job = "running" /\ left >= Due

LEMMA Distribute == \A n, p \in Int : (n - 1) * p = n * p - p /\ (n + 1) * p = n * p + p
OBVIOUS

LEMMA HeartFacts ==
    ASSUME HeartConstants, HeartType, MissesFit
    PROVE  /\ Heart!Lease \in Nat /\ Period \in Nat /\ Period = Interval + Latency
           /\ Spare \in Nat
           /\ missed = 0 => Latency + Spare + Period <= Heart!Lease
           /\ Latency + Misses * Period + Period <= Heart!Lease
<1>1. Heart!Lease \in Nat /\ Period \in Nat /\ Period = Interval + Latency
  BY DEF HeartConstants, Heart!Lease, Period
<1>2. Misses \in Nat /\ missed \in Nat /\ Misses - missed \in Nat
  BY DEF HeartConstants, HeartType
<1>3. \A n, p \in Nat : n * p \in Nat
  OBVIOUS
<1>4. (Misses + 1) * Period = Misses * Period + Period
  BY <1>1, <1>2, Distribute
<1>5. missed = 0 => Spare = Misses * Period
  BY <1>2 DEF Spare
<1>6. Spare \in Nat
  BY <1>1, <1>2, <1>3 DEF Spare
<1>. QED  BY <1>1, <1>4, <1>5, <1>6 DEF MissesFit, HeartConstants

(* A miss uses up one period. *)
LEMMA MissSpends ==
    ASSUME HeartConstants, HeartType, missed' = missed + 1
    PROVE  Spare = Spare' + Period /\ Spare' \in Int
<1>1. Period \in Int /\ Period' = Period /\ Misses' = Misses
  BY DEF HeartConstants, Period
<1>2. Misses - missed \in Int /\ Misses - (missed + 1) = (Misses - missed) - 1
  BY DEF HeartConstants, HeartType
<1>3. ((Misses - missed) - 1) * Period = (Misses - missed) * Period - Period
  BY <1>1, <1>2, Distribute
<1>4. (Misses - missed) * Period \in Int
  BY <1>1, <1>2
<1>5. Spare' = (Misses - missed) * Period - Period
  BY <1>1, <1>2, <1>3 DEF Spare
<1>. QED  BY <1>1, <1>4, <1>5 DEF Spare

LEMMA HeartInit == ASSUME HeartConstants, MissesFit, Heart!Init PROVE HeartInv
<1>1. HeartType
  BY DEF HeartConstants, Heart!Init, HeartType, Heart!Lease
<1>2. left >= Due
  BY <1>1, HeartFacts DEF Heart!Init, Due, HeartConstants
<1>. QED  BY <1>1, <1>2 DEF Heart!Init, HeartInv, Alive

LEMMA HeartNext == ASSUME HeartConstants, MissesFit, HeartInv, [Heart!Next]_Heart!vars PROVE HeartInv'
<1>1. HeartType
  BY DEF HeartInv
<1>2. /\ Heart!Lease \in Nat /\ Period \in Nat /\ Period = Interval + Latency
      /\ Spare \in Nat /\ Latency + Misses * Period + Period <= Heart!Lease
  BY <1>1, HeartFacts
<1>3. missed' = 0 => Spare' = Misses * Period
  BY DEF Spare, Period, HeartConstants
<1>4. UNCHANGED missed => Spare' = Spare
  BY DEF Spare, Period
<1>5. CASE Heart!Beat
  <2>1. HeartType'
    BY <1>1, <1>2, <1>5 DEF HeartType, HeartConstants, Heart!Beat
  <2>2. PICK t \in 0..Latency : timer' = t
    BY <1>5 DEF Heart!Beat
  <2>3. Due = Latency + Spare /\ Due' = t + Spare /\ t \in Int /\ t <= Latency
    BY <1>1, <1>2, <1>4, <1>5, <2>2 DEF HeartType, HeartConstants, Heart!Beat, Due
  <2>4. left >= Due /\ left' = left /\ job = "running" /\ left \in Int
    BY <1>1, <1>5 DEF HeartInv, Alive, Heart!Beat, HeartType
  <2>5. left >= t + Spare
    BY <1>2, <2>3, <2>4 DEF HeartConstants
  <2>6. Heart!Lease - Latency + t <= Heart!Lease
    BY <1>2, <2>3 DEF HeartConstants
  <2>7. /\ worker' = "beats" /\ fresh' = Heart!Lease' /\ Heart!Lease' = Heart!Lease /\ job' = job /\ Latency' = Latency
    BY <1>5 DEF Heart!Beat, Heart!Lease
  <2>. QED  BY <2>1, <2>2, <2>3, <2>4, <2>5, <2>6, <2>7 DEF HeartInv, Alive
<1>6. CASE Heart!BeatFails
  <2>1. HeartType'
    BY <1>1, <1>2, <1>6 DEF HeartType, HeartConstants, Heart!BeatFails, Heart!WaitsFor
  <2>2. Spare = Spare' + Period /\ Spare' \in Int
    BY <1>1, <1>6, MissSpends DEF Heart!BeatFails
  <2>3. Due = Spare /\ Due' = Interval + Latency + Spare'
    BY <1>2, <1>6, <2>2 DEF Heart!BeatFails, Heart!WaitsFor, Due, HeartConstants
  <2>4. left >= Due /\ job = "running"
    BY <1>6 DEF HeartInv, Alive, Heart!BeatFails
  <2>5. left' >= Due'
    BY <1>1, <1>2, <1>6, <2>2, <2>3, <2>4 DEF HeartType, Heart!BeatFails
  <2>. QED  BY <1>6, <2>1, <2>4, <2>5 DEF HeartInv, Alive, Heart!BeatFails, Heart!WaitsFor
<1>7. CASE Heart!BeatRenews
  <2>1. CASE job = "running"
    <3>1. HeartType' /\ missed' = 0
      BY <1>1, <1>2, <1>7, <2>1 DEF HeartType, HeartConstants, Heart!BeatRenews, Heart!WaitsFor
    <3>2. Due' = Interval + Latency + Spare' /\ Spare' \in Int
      <4>1. Spare' \in Int
        BY <3>1 DEF Spare, Period, HeartConstants
      <4>. QED  BY <1>7, <2>1, <4>1 DEF Heart!BeatRenews, Heart!WaitsFor, Due, HeartConstants
    <3>3. left' >= Heart!Lease - Latency /\ worker' = "waits" /\ job' = "running" /\ left' \in Int
      BY <1>1, <1>2, <1>7, <2>1 DEF HeartType, HeartInv, HeartConstants, Heart!BeatRenews, Heart!WaitsFor
    <3>4. left' >= Due'
      BY <1>2, <1>3, <3>1, <3>2, <3>3 DEF HeartConstants
    <3>. QED  BY <3>1, <3>3, <3>4 DEF HeartInv, Alive
  <2>2. CASE job # "running"
    BY <1>7, <2>2 DEF HeartInv, Alive, Heart!BeatRenews
  <2>. QED  BY <2>1, <2>2
<1>8. CASE Heart!Finish \/ Heart!Kill
  BY <1>8 DEF HeartInv, HeartType, Alive, Heart!Finish, Heart!Kill
<1>9. CASE Heart!Sweep
  <2>1. HeartType'
    BY <1>1, <1>2, <1>9 DEF HeartType, HeartConstants, Heart!Sweep
  <2>2. Due' = Due
    BY <1>4, <1>9 DEF Heart!Sweep, Due
  <2>3. Alive => left >= 0
    BY <1>1, <1>2 DEF HeartInv, HeartType, HeartConstants, Due, Alive
  <2>4. Alive => job' = job
    BY <1>1, <1>9, <2>3 DEF Heart!Sweep, HeartType
  <2>. QED  BY <1>1, <1>9, <2>1, <2>2, <2>4 DEF HeartInv, Alive, Heart!Sweep
<1>10. CASE Heart!Tick
  <2>1. HeartType'
    BY <1>1, <1>2, <1>10 DEF HeartType, HeartConstants, Heart!Tick
  <2>2. Alive => timer > 0 /\ timer' = timer - 1
    BY <1>1, <1>10 DEF HeartType, Alive, Heart!Tick
  <2>3. Alive => Due' = Due - 1 /\ Due >= 1 /\ Due \in Int
    BY <1>1, <1>2, <1>4, <1>10, <2>2 DEF HeartType, HeartConstants, Due, Heart!Tick, Alive
  <2>4. left >= 1 => left' = left - 1
    BY <1>1, <1>10 DEF HeartType, Heart!Tick
  <2>5. (Heart!Lease - Latency + timer <= fresh /\ timer <= Latency /\ timer > 0 /\ timer' = timer - 1)
           => (Heart!Lease - Latency + timer' <= fresh' /\ timer' <= Latency)
    BY <1>1, <1>2, <1>10 DEF HeartType, HeartConstants, Heart!Tick, Heart!Lease
  <2>6. Alive' = Alive /\ worker' = worker /\ job' = job
    BY <1>10 DEF Alive, Heart!Tick
  <2>. QED  BY <1>1, <1>2, <2>1, <2>2, <2>3, <2>4, <2>5, <2>6 DEF HeartInv, HeartType, Alive
<1>11. CASE UNCHANGED Heart!vars
  BY <1>4, <1>11 DEF Heart!vars, HeartInv, HeartType, Alive, Due
<1>. QED  BY <1>5, <1>6, <1>7, <1>8, <1>9, <1>10, <1>11 DEF Heart!Next

LEMMA HeartGives == ASSUME HeartInv PROVE Heart!HealthyIsNotReaped
BY DEF HeartInv, Heart!HealthyIsNotReaped, Alive

(* As long as no more beats fail in a row than the lease has room for, the sweeper finds no     *)
(* lapsed lease of a worker that lives, however long its beats and its job take                *)
(* (_lease_heartbeat).                                                                          *)
THEOREM AliveIsNotReaped ==
    ASSUME HeartConstants, MissesFit PROVE Heart!Spec => []Heart!HealthyIsNotReaped
<1>1. Heart!Init => HeartInv
  BY HeartInit
<1>2. HeartInv /\ [Heart!Next]_Heart!vars => HeartInv'
  BY HeartNext
<1>. QED  BY <1>1, <1>2, HeartGives, PTL DEF Heart!Spec

(* What the lease is for.                                                   *)
LeasesAreKept == Heart!HealthyIsNotReaped /\ OneRunnerPerJob

(* A job whose worker lives is not reaped, as long as no more beats fail in a row than the     *)
(* lease has room for (_lease_heartbeat); and a job launched without Redis has one thread       *)
(* (launch_experiment_run).                              **)
THEOREM LeasesKept ==
    ASSUME HeartConstants, MissesFit, TRUE \notin UseRedis
    PROVE  Heart!Spec /\ Spec => []LeasesAreKept
BY AliveIsNotReaped, OneThreadPerJob, PTL DEF LeasesAreKept

-----------------------------------------------------------------------------
(* The loops that the runs of one process build (LoopBuilding), for any number *)
(* of runs and any specifications.                                           *)
CONSTANTS Runs, Specs, Texts   \* Texts: the names and types that a specification is made of
VARIABLES spec, building, lock, registry, declared, graders, stored, adapter, port
Loops == INSTANCE LoopBuilding WITH pc <- building

(* What a loaded specification is (loader/spec.py). *)
Specification ==
    [declares : Seq(Texts), broken : SUBSET Texts, uses : SUBSET Texts, agent : Texts,
     variants : SUBSET Texts, retries : Nat, rate : BOOLEAN, sandbox : BOOLEAN,
     port : {"fixed", "dynamic"}]

LoopConstants == Specs \subseteq [Runs -> Specification] /\ Loops!Free \notin Runs

Declares(r) == Loops!ToSet(spec[r].declares)

(* Where the code keeps its promises. A run uses, beyond what it declares itself, only names that
   nobody declares: the registry is shared, and what a failed registration leaves in it, or takes
   out of it after replacing a built-in grader, is met by whoever else uses the name. *)
UsesAreOwn ==
    \A s \in Specs : \A r, q \in Runs : \A n \in s[r].uses :
        n \in Loops!ToSet(s[r].declares) \/ n \notin Loops!ToSet(s[q].declares)

(* An agent out of process is not wrapped: the test of build_loop looks at the outermost layer. *)
AgentsAreBare ==
    \A s \in Specs : \A r \in Runs : s[r].agent \in Loops!Out => s[r].retries = 0 /\ ~s[r].rate

(* The executor is not refused: build_loop has started the receiver by then, and leaves it. *)
Sandboxed == \A s \in Specs : \A r \in Runs : s[r].sandbox

PCs == {"start", "wrapped", "registering", "resolved", "unknown", "graded", "stored", "received",
        "running", "failed", "ended"}
Inside == {"registering", "resolved", "unknown"}

LoopType ==
    /\ spec \in Specs
    /\ building \in [Runs -> PCs]
    /\ lock \in Runs \cup {Loops!Free}
    /\ DOMAIN registry = Loops!Names
    /\ declared \in [Runs -> Seq(Texts)]
    /\ DOMAIN graders = Runs /\ DOMAIN adapter = Runs
    /\ port \in [Loops!Ports -> Runs \cup {Loops!Free}]

(* One run at a time is inside the registration window. *)
OneInside == \A r \in Runs : building[r] \in Inside <=> lock = r

(* What a run has registered is the beginning of what it declares. *)
DeclaredInOrder ==
    \A r \in Runs :
        /\ Len(declared[r]) <= Len(spec[r].declares)
        /\ \A i \in 1..Len(declared[r]) : declared[r][i] = spec[r].declares[i]
        /\ building[r] \in {"start", "wrapped"} => declared[r] = <<>>

(* What the run inside has registered is in the registry; what nobody declares is as ever. *)
AtFirst(n) == IF n \in Loops!Builtins THEN "builtin" ELSE Loops!Free
RegistryShape ==
    /\ \A r \in Runs : building[r] \in Inside => \A n \in Loops!ToSet(declared[r]) : registry[n] = r
    /\ \A n \in Loops!Names : (\A q \in Runs : n \notin Declares(q)) => registry[n] = AtFirst(n)

Unmixed == LoopType /\ OneInside /\ DeclaredInOrder /\ RegistryShape
GradersInv == Unmixed /\ Loops!GradersAreItsOwn /\ Loops!KnownGradersResolve

-----------------------------------------------------------------------------
LEMMA SpecFacts ==
    ASSUME LoopConstants, LoopType, NEW r \in Runs
    PROVE  /\ spec[r] \in Specification /\ spec[r].declares \in Seq(Texts)
           /\ Len(spec[r].declares) \in Nat
           /\ Declares(r) = {spec[r].declares[i] : i \in 1..Len(spec[r].declares)}
           /\ Declares(r) \subseteq Loops!Names /\ spec[r].uses \subseteq Loops!Names
           /\ declared[r] \in Seq(Texts) /\ Len(declared[r]) \in Nat
           /\ Loops!ToSet(declared[r]) = {declared[r][i] : i \in 1..Len(declared[r])}
<1>1. spec[r] \in Specification
  BY DEF LoopConstants, LoopType
<1>2. spec[r].declares \in Seq(Texts)
  BY <1>1 DEF Specification
<1>3. declared[r] \in Seq(Texts)
  BY DEF LoopType
<1>4. Declares(r) = {spec[r].declares[i] : i \in 1..Len(spec[r].declares)}
  BY <1>2 DEF Declares, Loops!ToSet
<1>5. Loops!ToSet(declared[r]) = {declared[r][i] : i \in 1..Len(declared[r])}
  BY <1>3 DEF Loops!ToSet
<1>6. Declares(r) \subseteq Loops!Names /\ spec[r].uses \subseteq Loops!Names
  BY DEF Loops!Names, Declares
<1>. QED  BY <1>1, <1>2, <1>3, <1>4, <1>5, <1>6

LEMMA LoopInit == ASSUME LoopConstants, Loops!Init PROVE GradersInv
<1>1. LoopType
  BY DEF LoopConstants, Loops!Init, LoopType, PCs
<1>2. \A r \in Runs : Len(spec[r].declares) \in Nat /\ declared[r] = <<>> /\ building[r] = "start"
                      /\ graders[r] = <<>> /\ Loops!ToSet(declared[r]) = {}
  BY <1>1, SpecFacts DEF Loops!Init, Loops!ToSet
<1>3. OneInside /\ DeclaredInOrder
  BY <1>2 DEF LoopConstants, Loops!Init, OneInside, DeclaredInOrder, Inside
<1>4. RegistryShape
  BY <1>2 DEF Loops!Init, RegistryShape, AtFirst, Inside
<1>5. Loops!GradersAreItsOwn /\ Loops!KnownGradersResolve
  BY <1>2 DEF Loops!GradersAreItsOwn, Loops!KnownGradersResolve
<1>. QED  BY <1>1, <1>3, <1>4, <1>5 DEF GradersInv, Unmixed

(* A step that leaves the window and what it guards alone. *)
Elsewhere(r) ==
    /\ UNCHANGED <<spec, lock, registry, declared, graders>>
    /\ DOMAIN adapter' = Runs /\ port' \in [Loops!Ports -> Runs \cup {Loops!Free}]
    /\ \E c \in PCs \ Inside : building' = [building EXCEPT ![r] = c] /\ (c = "wrapped" => building[r] = "start")
                               /\ c # "start"
    /\ building[r] \notin Inside

LEMMA ElsewhereSteps ==
    ASSUME LoopConstants, Unmixed, NEW r \in Runs,
           Loops!BuildAdapter(r) \/ Loops!Persist(r) \/ Loops!StartReceiver(r) \/ Loops!BuildExecutor(r) \/ Loops!CloseExecutor(r)
    PROVE  Elsewhere(r)
<1>1. DOMAIN adapter = Runs /\ port \in [Loops!Ports -> Runs \cup {Loops!Free}]
  BY DEF Unmixed, LoopType
<1>. USE DEF Elsewhere, PCs, Inside, Loops!Goto
<1>2. CASE Loops!BuildAdapter(r)
  BY <1>1, <1>2 DEF Loops!BuildAdapter
<1>3. CASE Loops!Persist(r)
  BY <1>1, <1>3 DEF Loops!Persist
<1>4. CASE Loops!StartReceiver(r)
  BY <1>1, <1>4 DEF Loops!StartReceiver
<1>5. CASE Loops!BuildExecutor(r)
  BY <1>1, <1>5 DEF Loops!BuildExecutor
<1>6. CASE Loops!CloseExecutor(r)
  BY <1>1, <1>6 DEF Loops!CloseExecutor
<1>. QED  BY <1>2, <1>3, <1>4, <1>5, <1>6

LEMMA ElsewhereKeeps ==
    ASSUME LoopConstants, GradersInv, NEW r \in Runs, Elsewhere(r) PROVE GradersInv'
<1>1. PICK c \in PCs \ Inside : building' = [building EXCEPT ![r] = c] /\ (c = "wrapped" => building[r] = "start")
                                /\ c # "start"
  BY DEF Elsewhere
<1>2. /\ UNCHANGED <<spec, lock, registry, declared, graders>> /\ building \in [Runs -> PCs]
      /\ building[r] \notin Inside /\ Loops!Names' = Loops!Names /\ Loops!Ports' = Loops!Ports
  BY DEF Elsewhere, GradersInv, Unmixed, LoopType, Loops!Names, Loops!Ports
<1>3. LoopType'
  BY <1>1, <1>2 DEF Elsewhere, GradersInv, Unmixed, LoopType
<1>4. OneInside'
  BY <1>1, <1>2 DEF GradersInv, Unmixed, OneInside
<1>5. DeclaredInOrder'
  BY <1>1, <1>2 DEF GradersInv, Unmixed, DeclaredInOrder
<1>6. RegistryShape'
  BY <1>1, <1>2 DEF GradersInv, Unmixed, RegistryShape, Declares
<1>7. Loops!GradersAreItsOwn' /\ Loops!KnownGradersResolve'
  BY <1>1, <1>2 DEF GradersInv, Loops!GradersAreItsOwn, Loops!KnownGradersResolve, Inside
<1>. QED  BY <1>3, <1>4, <1>5, <1>6, <1>7 DEF GradersInv, Unmixed

LEMMA TakeLockKeeps ==
    ASSUME LoopConstants, GradersInv, NEW r \in Runs, Loops!TakeLock(r) PROVE GradersInv'
<1>1. /\ building' = [building EXCEPT ![r] = "registering"] /\ building[r] = "wrapped" /\ lock = Loops!Free /\ lock' = r
      /\ UNCHANGED <<spec, registry, declared, graders, adapter, port>>
      /\ building \in [Runs -> PCs] /\ Loops!Names' = Loops!Names /\ Loops!Ports' = Loops!Ports
  BY DEF Loops!TakeLock, Loops!Goto, GradersInv, Unmixed, LoopType, Loops!Names, Loops!Ports
<1>2. LoopType'
  BY <1>1 DEF GradersInv, Unmixed, LoopType, PCs
<1>3. OneInside'
  BY <1>1 DEF GradersInv, Unmixed, OneInside, Inside, LoopConstants
<1>4. DeclaredInOrder'
  BY <1>1 DEF GradersInv, Unmixed, DeclaredInOrder
<1>5. declared[r] = <<>> /\ Loops!ToSet(declared[r]) = {}
  <2>1. declared[r] = <<>>
    BY <1>1 DEF GradersInv, Unmixed, DeclaredInOrder
  <2>. QED  BY <2>1 DEF Loops!ToSet
<1>6. RegistryShape'
  <2>1. ASSUME NEW q \in Runs, building'[q] \in Inside PROVE q = r
    BY <1>1, <2>1 DEF GradersInv, Unmixed, OneInside, LoopConstants
  <2>. QED  BY <1>1, <1>5, <2>1 DEF GradersInv, Unmixed, RegistryShape, Declares
<1>7. Loops!GradersAreItsOwn' /\ Loops!KnownGradersResolve'
  BY <1>1 DEF GradersInv, Loops!GradersAreItsOwn, Loops!KnownGradersResolve
<1>. QED  BY <1>2, <1>3, <1>4, <1>6, <1>7 DEF GradersInv, Unmixed

(* The window is left with the registry as it is, or without what r registered. *)
LEMMA LeavingKeeps ==
    ASSUME LoopConstants, GradersInv, NEW r \in Runs, Loops!RegisterFails(r) \/ Loops!UnregisterGraders(r)
    PROVE  GradersInv'
<1>1. PICK c \in {"failed", "graded"} :
        /\ building' = [building EXCEPT ![r] = c] /\ building[r] \in Inside /\ lock' = Loops!Free
        /\ UNCHANGED <<spec, declared, graders, adapter, port>>
  BY DEF Loops!RegisterFails, Loops!UnregisterGraders, Loops!Goto, Inside
<1>2. building \in [Runs -> PCs] /\ Loops!Names' = Loops!Names /\ Loops!Ports' = Loops!Ports /\ lock = r
  BY <1>1 DEF GradersInv, Unmixed, LoopType, OneInside, Loops!Names, Loops!Ports
<1>3. /\ DOMAIN registry' = Loops!Names
      /\ \A n \in Loops!Names : registry'[n] = registry[n] \/ (n \in Loops!ToSet(declared[r]) /\ registry'[n] = Loops!Free)
  BY <1>1 DEF Loops!RegisterFails, Loops!UnregisterGraders, GradersInv, Unmixed, LoopType
<1>4. LoopType'
  BY <1>1, <1>2, <1>3 DEF GradersInv, Unmixed, LoopType, PCs
<1>5. OneInside' /\ \A q \in Runs : building'[q] \notin Inside
  BY <1>1, <1>2 DEF GradersInv, Unmixed, OneInside, Inside, LoopConstants
<1>6. DeclaredInOrder'
  BY <1>1, <1>2 DEF GradersInv, Unmixed, DeclaredInOrder
<1>7. Loops!ToSet(declared[r]) \subseteq Declares(r)
  <2>1. \A i \in 1..Len(declared[r]) : i \in 1..Len(spec[r].declares)
                                       /\ declared[r][i] = spec[r].declares[i]
    BY SpecFacts DEF GradersInv, Unmixed, DeclaredInOrder
  <2>2. /\ Declares(r) = {spec[r].declares[i] : i \in 1..Len(spec[r].declares)}
        /\ Loops!ToSet(declared[r]) = {declared[r][i] : i \in 1..Len(declared[r])}
    BY SpecFacts DEF GradersInv, Unmixed
  <2>. QED  BY <2>1, <2>2
<1>8. RegistryShape'
  BY <1>1, <1>2, <1>3, <1>5, <1>7 DEF GradersInv, Unmixed, RegistryShape, Declares
<1>9. Loops!GradersAreItsOwn' /\ Loops!KnownGradersResolve'
  BY <1>1, <1>2 DEF GradersInv, Loops!GradersAreItsOwn, Loops!KnownGradersResolve
<1>. QED  BY <1>4, <1>5, <1>6, <1>8, <1>9 DEF GradersInv, Unmixed

LEMMA RegisterKeeps ==
    ASSUME LoopConstants, GradersInv, NEW r \in Runs, Loops!RegisterGrader(r) PROVE GradersInv'
<1>. DEFINE k == Len(declared[r]) + 1
            name == spec[r].declares[k]
<1>1. /\ building[r] = "registering" /\ Len(declared[r]) < Len(spec[r].declares)
      /\ registry' = [registry EXCEPT ![name] = r]
      /\ declared' = [declared EXCEPT ![r] = Append(declared[r], name)]
      /\ UNCHANGED <<spec, building, lock, graders, adapter, port>>
  BY DEF Loops!RegisterGrader
<1>2. /\ Loops!Names' = Loops!Names /\ Loops!Ports' = Loops!Ports /\ declared \in [Runs -> Seq(Texts)]
      /\ DOMAIN registry = Loops!Names
  BY <1>1 DEF GradersInv, Unmixed, LoopType, Loops!Names, Loops!Ports
<1>3. /\ declared[r] \in Seq(Texts) /\ Len(declared[r]) \in Nat /\ Len(spec[r].declares) \in Nat
      /\ k \in 1..Len(spec[r].declares) /\ name \in Texts /\ name \in Declares(r)
      /\ Declares(r) \subseteq Loops!Names
  <2>1. /\ declared[r] \in Seq(Texts) /\ Len(declared[r]) \in Nat /\ Len(spec[r].declares) \in Nat
        /\ Declares(r) = {spec[r].declares[i] : i \in 1..Len(spec[r].declares)}
        /\ spec[r].declares \in Seq(Texts) /\ Declares(r) \subseteq Loops!Names
    BY SpecFacts DEF GradersInv, Unmixed
  <2>2. k \in 1..Len(spec[r].declares)
    BY <1>1, <2>1
  <2>. QED  BY <2>1, <2>2
<1>4. /\ declared'[r] = Append(declared[r], name) /\ declared'[r] \in Seq(Texts)
      /\ Len(declared'[r]) = k /\ declared'[r][k] = name
      /\ \A i \in 1..Len(declared[r]) : declared'[r][i] = declared[r][i]
      /\ \A q \in Runs \ {r} : declared'[q] = declared[q]
  BY <1>1, <1>2, <1>3
<1>5. \A i \in 1..k : i \in 1..Len(declared[r]) \/ i = k
  BY <1>3
<1>6. LoopType'
  BY <1>1, <1>2, <1>3, <1>4 DEF GradersInv, Unmixed, LoopType
<1>7. OneInside'
  BY <1>1 DEF GradersInv, Unmixed, OneInside
<1>. HIDE DEF k
<1>8. DeclaredInOrder'
  <2>1. k <= Len(spec[r].declares)
    BY <1>3
  <2>2. \A i \in 1..k : declared'[r][i] = spec[r].declares[i]
    BY <1>4, <1>5 DEF GradersInv, Unmixed, DeclaredInOrder
  <2>. QED  BY <1>1, <1>4, <2>1, <2>2 DEF GradersInv, Unmixed, DeclaredInOrder
<1>9. RegistryShape'
  <2>1. Loops!ToSet(declared'[r]) \subseteq Loops!ToSet(declared[r]) \cup {name}
    <3>1. DOMAIN declared'[r] = 1..k /\ DOMAIN declared[r] = 1..Len(declared[r])
      BY <1>3, <1>4
    <3>. QED  BY <1>4, <1>5, <3>1 DEF Loops!ToSet
  <2>2. lock = r /\ \A q \in Runs : building[q] \in Inside => q = r
    BY <1>1 DEF GradersInv, Unmixed, OneInside, Inside
  <2>3. \A n \in Loops!ToSet(declared'[r]) : registry'[n] = r
    <3>1. \A n \in Loops!ToSet(declared[r]) : registry[n] = r
      BY <1>1 DEF GradersInv, Unmixed, RegistryShape, Inside
    <3>2. registry'[name] = r
      BY <1>1, <1>2, <1>3
    <3>3. \A n : n # name => registry'[n] = registry[n]
      BY <1>1, <1>2 
    <3>. QED  BY <2>1, <3>1, <3>2, <3>3
  <2>4. \A n \in Loops!Names : n # name => registry'[n] = registry[n]
    BY <1>1, <1>2
  <2>5. \A q \in Runs : Declares(q)' = Declares(q)
    BY <1>1 DEF Declares
  <2>. QED  BY <1>1, <1>2, <1>3, <2>2, <2>3, <2>4, <2>5 DEF GradersInv, Unmixed, RegistryShape
<1>10. Loops!GradersAreItsOwn' /\ Loops!KnownGradersResolve'
  BY <1>1 DEF GradersInv, Loops!GradersAreItsOwn, Loops!KnownGradersResolve
<1>. QED  BY <1>6, <1>7, <1>8, <1>9, <1>10 DEF GradersInv, Unmixed

LEMMA ResolveKeeps ==
    ASSUME LoopConstants, UsesAreOwn, GradersInv, NEW r \in Runs, Loops!ResolveGraders(r)
    PROVE  GradersInv'
<1>. DEFINE names == spec[r].uses
<1>1. /\ building[r] = "registering" /\ Len(declared[r]) = Len(spec[r].declares)
      /\ UNCHANGED <<spec, lock, registry, declared, adapter, port>>
  BY DEF Loops!ResolveGraders
<1>2. /\ Loops!Names' = Loops!Names /\ Loops!Ports' = Loops!Ports /\ building \in [Runs -> PCs] /\ DOMAIN graders = Runs
  BY <1>1 DEF GradersInv, Unmixed, LoopType, Loops!Names, Loops!Ports
<1>3. PICK c \in {"resolved", "unknown"} :
        /\ building' = [building EXCEPT ![r] = c]
        /\ c = "resolved" => /\ \A n \in names : registry[n] # Loops!Free
                             /\ graders' = [graders EXCEPT ![r] = [n \in names |-> registry[n]]]
        /\ c = "unknown" => graders' = graders /\ \E n \in names : registry[n] = Loops!Free
  BY DEF Loops!ResolveGraders, Loops!Goto
<1>4. LoopType' /\ OneInside' /\ DeclaredInOrder' /\ RegistryShape'
  <2>1. LoopType'
    BY <1>1, <1>2, <1>3 DEF GradersInv, Unmixed, LoopType, PCs
  <2>2. OneInside'
    BY <1>1, <1>2, <1>3 DEF GradersInv, Unmixed, OneInside, Inside
  <2>3. DeclaredInOrder'
    BY <1>1, <1>2, <1>3 DEF GradersInv, Unmixed, DeclaredInOrder
  <2>4. RegistryShape'
    BY <1>1, <1>2, <1>3 DEF GradersInv, Unmixed, RegistryShape, Declares, Inside
  <2>. QED  BY <2>1, <2>2, <2>3, <2>4
<1>5. Declares(r) \subseteq Loops!ToSet(declared[r])
  <2>1. /\ Declares(r) = {spec[r].declares[i] : i \in 1..Len(spec[r].declares)}
        /\ Loops!ToSet(declared[r]) = {declared[r][i] : i \in 1..Len(declared[r])}
    BY SpecFacts DEF GradersInv, Unmixed
  <2>2. \A i \in 1..Len(declared[r]) : declared[r][i] = spec[r].declares[i]
    BY DEF GradersInv, Unmixed, DeclaredInOrder
  <2>. QED  BY <1>1, <2>1, <2>2
<1>6. \A n \in names : registry[n] = IF n \in Declares(r) THEN r ELSE AtFirst(n)
  <2>1. ASSUME NEW n \in names, n \in Declares(r) PROVE registry[n] = r
    BY <1>1, <1>5, <2>1 DEF GradersInv, Unmixed, RegistryShape, Inside
  <2>2. ASSUME NEW n \in names, n \notin Declares(r) PROVE registry[n] = AtFirst(n)
    <3>1. \A q \in Runs : n \notin Declares(q)
      BY <2>2 DEF UsesAreOwn, GradersInv, Unmixed, LoopType, Declares
    <3>2. n \in Loops!Names
      BY SpecFacts DEF GradersInv, Unmixed
    <3>. QED  BY <3>1, <3>2 DEF GradersInv, Unmixed, RegistryShape
  <2>. QED  BY <2>1, <2>2
<1>7. Loops!GradersAreItsOwn'
  BY <1>1, <1>2, <1>3, <1>6 DEF GradersInv, Loops!GradersAreItsOwn, Declares, AtFirst
<1>8. Loops!KnownGradersResolve'
  <2>1. c = "unknown" => ~(names \subseteq Declares(r) \cup Loops!Builtins)
    BY <1>3, <1>6 DEF AtFirst, LoopConstants, Loops!Free
  <2>. QED  BY <1>1, <1>2, <1>3, <2>1 DEF GradersInv, Loops!KnownGradersResolve, Declares
<1>. QED  BY <1>4, <1>7, <1>8 DEF GradersInv, Unmixed

LEMMA GradersNext ==
    ASSUME LoopConstants, UsesAreOwn, GradersInv, [Loops!Next]_Loops!vars PROVE GradersInv'
<1>1. CASE UNCHANGED Loops!vars
  <2>1. UNCHANGED <<spec, building, lock, registry, declared, graders, adapter, port>>
    BY <1>1 DEF Loops!vars
  <2>2. Loops!Names' = Loops!Names /\ Loops!Ports' = Loops!Ports /\ \A q \in Runs : Declares(q)' = Declares(q)
    BY <2>1 DEF Loops!Names, Loops!Ports, Declares
  <2>3. LoopType' /\ OneInside'
    BY <2>1, <2>2 DEF GradersInv, Unmixed, LoopType, OneInside
  <2>4. DeclaredInOrder'
    BY <2>1 DEF GradersInv, Unmixed, DeclaredInOrder
  <2>5. RegistryShape'
    BY <2>1, <2>2 DEF GradersInv, Unmixed, RegistryShape
  <2>6. Loops!GradersAreItsOwn' /\ Loops!KnownGradersResolve'
    BY <2>1 DEF GradersInv, Loops!GradersAreItsOwn, Loops!KnownGradersResolve
  <2>. QED  BY <2>3, <2>4, <2>5, <2>6 DEF GradersInv, Unmixed
<1>2. ASSUME NEW r \in Runs, Loops!Step(r) PROVE GradersInv'
  <2>1. CASE Loops!BuildAdapter(r) \/ Loops!Persist(r) \/ Loops!StartReceiver(r) \/ Loops!BuildExecutor(r) \/ Loops!CloseExecutor(r)
    <3>1. Elsewhere(r)
      BY <2>1, ElsewhereSteps DEF GradersInv
    <3>. QED  BY <3>1, ElsewhereKeeps
  <2>. QED  BY <1>2, <2>1, TakeLockKeeps, LeavingKeeps, RegisterKeeps, ResolveKeeps DEF Loops!Step
<1>. QED  BY <1>1, <1>2 DEF Loops!Next

-----------------------------------------------------------------------------
(* The receivers.                                                           *)

(* A port is held by a run between the start of its receiver and the close of its executor, and
   a run that needs a receiver then has one. *)
PortsInv ==
    /\ building \in [Runs -> PCs] /\ spec \in Specs /\ DOMAIN adapter = Runs
    /\ port \in [Loops!Ports -> Runs \cup {Loops!Free}]
    /\ \A r \in Runs : building[r] # "start" => adapter[r] = Loops!WrapResilience(spec[r])
    /\ \A p \in Loops!Ports : port[p] # Loops!Free => building[port[p]] \in {"received", "running"}
    /\ \A r \in Runs : building[r] \in {"received", "running"} /\ Loops!NeedsReceiver(r)
                          => \E p \in Loops!Ports : port[p] = r

LEMMA PortsNext ==
    ASSUME LoopConstants, Sandboxed, PortsInv, [Loops!Next]_Loops!vars PROVE PortsInv'
<1>1. /\ building \in [Runs -> PCs] /\ spec \in Specs /\ DOMAIN adapter = Runs
      /\ port \in [Loops!Ports -> Runs \cup {Loops!Free}] /\ Loops!Ports' = Loops!Ports
  BY DEF PortsInv, Loops!Ports
<1>2. CASE UNCHANGED Loops!vars
  BY <1>1, <1>2 DEF Loops!vars, PortsInv, Loops!NeedsReceiver
<1>. SUFFICES ASSUME NEW r \in Runs, Loops!Step(r) PROVE PortsInv'
  BY <1>2 DEF Loops!Next
<1>3. CASE Loops!BuildAdapter(r)
  BY <1>1, <1>3 DEF Loops!BuildAdapter, Loops!Goto, PortsInv, PCs, Loops!NeedsReceiver
<1>4. CASE Loops!TakeLock(r) \/ Loops!RegisterGrader(r) \/ Loops!RegisterFails(r) \/ Loops!ResolveGraders(r)
           \/ Loops!UnregisterGraders(r) \/ Loops!Persist(r)
  <2>1. /\ UNCHANGED <<spec, adapter, port>>
        /\ \E c \in PCs \ {"start", "received", "running"} : building' = [building EXCEPT ![r] = c]
        /\ building[r] \notin {"start", "received", "running"}
    BY <1>1, <1>4 DEF Loops!TakeLock, Loops!RegisterGrader, Loops!RegisterFails, Loops!ResolveGraders, Loops!UnregisterGraders,
       Loops!Persist, Loops!Goto, PCs
  <2>. QED  BY <1>1, <2>1 DEF PortsInv, PCs, Loops!NeedsReceiver
<1>5. CASE Loops!StartReceiver(r)
  <2>. DEFINE at == IF spec[r].port = "fixed" THEN "fixed" ELSE r
  <2>1. at \in Loops!Ports /\ building[r] = "stored" /\ UNCHANGED <<spec, adapter>>
        /\ \A p \in Loops!Ports : port[p] # r
        /\ r # Loops!Free
    BY <1>1, <1>5 DEF Loops!Ports, Loops!StartReceiver, PortsInv, LoopConstants
  <2>2. Loops!NeedsReceiver(r)' = Loops!NeedsReceiver(r) /\ \A q \in Runs : Loops!NeedsReceiver(q)' = Loops!NeedsReceiver(q)
    BY <2>1 DEF Loops!NeedsReceiver
  <2>3. CASE ~Loops!NeedsReceiver(r)
    BY <1>1, <1>5, <2>1, <2>2, <2>3 DEF Loops!StartReceiver, Loops!Goto, PortsInv, PCs
  <2>4. CASE Loops!NeedsReceiver(r) /\ port[at] # Loops!Free
    BY <1>1, <1>5, <2>1, <2>2, <2>4 DEF Loops!StartReceiver, Loops!Goto, PortsInv, PCs
  <2>5. CASE Loops!NeedsReceiver(r) /\ port[at] = Loops!Free
    <3>1. building' = [building EXCEPT ![r] = "received"] /\ port' = [port EXCEPT ![at] = r]
      BY <1>5, <2>5 DEF Loops!StartReceiver, Loops!Goto
    <3>2. \A q \in Runs, p \in Loops!Ports : port[p] = q => port'[p] = q
      BY <1>1, <2>5, <3>1 DEF LoopConstants
    <3>3. port'[at] = r
      BY <1>1, <2>1, <3>1
    <3>. QED  BY <1>1, <2>1, <2>2, <3>1, <3>2, <3>3 DEF PortsInv, PCs
  <2>. QED  BY <2>3, <2>4, <2>5
<1>6. CASE Loops!BuildExecutor(r)
  <2>1. spec[r].sandbox
    BY <1>1 DEF Sandboxed
  <2>2. building[r] = "received" /\ building' = [building EXCEPT ![r] = "running"] /\ UNCHANGED <<spec, adapter, port>>
    BY <1>6, <2>1 DEF Loops!BuildExecutor, Loops!Goto
  <2>. QED  BY <1>1, <2>2 DEF PortsInv, PCs, Loops!NeedsReceiver
<1>7. CASE Loops!CloseExecutor(r)
  <2>1. /\ building[r] = "running" /\ building' = [building EXCEPT ![r] = "ended"] /\ UNCHANGED <<spec, adapter>>
        /\ port' = [p \in Loops!Ports |-> IF port[p] = r THEN Loops!Free ELSE port[p]]
    BY <1>7 DEF Loops!CloseExecutor, Loops!Goto
  <2>. QED  BY <1>1, <2>1 DEF PortsInv, PCs, Loops!NeedsReceiver, LoopConstants
<1>. QED  BY <1>3, <1>4, <1>5, <1>6, <1>7 DEF Loops!Step

LEMMA PortsInit == ASSUME LoopConstants, Loops!Init PROVE PortsInv
BY DEF Loops!Init, PortsInv, LoopConstants, PCs

LEMMA PortsGive ==
    ASSUME LoopConstants, AgentsAreBare, PortsInv
    PROVE  Loops!OutOfProcessHasReceiver /\ Loops!PortsAreReleased
<1>1. PortsInv => Loops!OutOfProcessHasReceiver
  <2>1. ASSUME PortsInv, NEW r \in Runs, building[r] = "running",
               spec[r].agent \in Loops!Out \/ spec[r].variants \cap Loops!Out # {}
        PROVE  Loops!NeedsReceiver(r)
    <3>1. spec[r] \in Specification /\ adapter[r] = Loops!WrapResilience(spec[r])
      BY <2>1 DEF PortsInv, LoopConstants
    <3>2. CASE spec[r].agent \in Loops!Out
      <4>1. spec[r].retries = 0 /\ ~spec[r].rate
        BY <2>1, <3>2 DEF PortsInv, AgentsAreBare
      <4>2. adapter[r] = <<>> \o <<>> \o <<spec[r].agent>>
        BY <3>1, <4>1 DEF Loops!WrapResilience
      <4>3. <<>> \o <<>> \o <<spec[r].agent>> = <<spec[r].agent>>
        OBVIOUS
      <4>4. Head(adapter[r]) = spec[r].agent
        BY <4>2, <4>3
      <4>. QED  BY <3>2, <4>4 DEF Loops!NeedsReceiver
    <3>. QED  BY <2>1, <3>2 DEF Loops!NeedsReceiver
  <2>. QED  BY <2>1 DEF PortsInv, Loops!OutOfProcessHasReceiver
<1>2. PortsInv => Loops!PortsAreReleased
  BY DEF PortsInv, Loops!PortsAreReleased, Loops!Over
<1>. QED  BY <1>1, <1>2

(* Concurrent builds in one process never see each other's graders, whatever their number and
   the interleaving of their registrations, and none of those that declare what they use is
   refused (build_loop's lock). *)
THEOREM GradersNeverLeak ==
    ASSUME LoopConstants, UsesAreOwn
    PROVE  Loops!Spec => [](Loops!GradersAreItsOwn /\ Loops!KnownGradersResolve)
<1>1. Loops!Init => GradersInv
  BY LoopInit
<1>2. GradersInv /\ [Loops!Next]_Loops!vars => GradersInv'
  BY GradersNext
<1>3. GradersInv => Loops!GradersAreItsOwn /\ Loops!KnownGradersResolve
  BY DEF GradersInv
<1>. QED  BY <1>1, <1>2, <1>3, PTL DEF Loops!Spec

(* A run whose agent is out of process has a receiver as long as it is going, and a run that is
   over holds no port, whatever the ports that others took (build_loop, Executor.aclose). *)
THEOREM PortsFollowRuns ==
    ASSUME LoopConstants, AgentsAreBare, Sandboxed
    PROVE  Loops!Spec => [](Loops!OutOfProcessHasReceiver /\ Loops!PortsAreReleased)
<1>1. Loops!Init => PortsInv
  BY PortsInit
<1>2. PortsInv /\ [Loops!Next]_Loops!vars => PortsInv'
  BY PortsNext
<1>3. PortsInv => Loops!OutOfProcessHasReceiver /\ Loops!PortsAreReleased
  BY PortsGive
<1>. QED  BY <1>1, <1>2, <1>3, PTL DEF Loops!Spec

(* Runs built at the same time share a process and nothing else, however many they are: graders,
   receivers and ports are those of their run (build_loop, Executor.aclose). *)
THEOREM LoopsNeverLeak ==
    ASSUME LoopConstants, UsesAreOwn, AgentsAreBare, Sandboxed PROVE Loops!Spec => []Loops!LoopsDoNotLeak
BY GradersNeverLeak, PortsFollowRuns, PTL DEF Loops!LoopsDoNotLeak
=============================================================================
