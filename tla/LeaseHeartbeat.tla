--------------------------- MODULE LeaseHeartbeat ---------------------------
(* One running job, the thread that renews its lease and the sweeper that    *)
(* reaps lapsed ones, on one clock (_lease_heartbeat of api/run_launcher.py, *)
(* worker/lease_sweeper.py).  RunJobs leaves open when a beat gets through;  *)
(* here the beats have their times, so that one can ask how many of them may *)
(* be missed.  Times are what is left until something happens.               *)
EXTENDS Integers

CONSTANTS
    Beats,       \* the lease is that many intervals
    Interval,    \* ticks between the end of a beat and the next one
    Latency,     \* ticks the statement of a beat may take
    SweepEvery,  \* ticks between two sweeps
    Misses,      \* bound: consecutive beats that fail
    Kills        \* whether the worker's process may be killed

\* Slip: two thirds of the lease.
LeaseTooShort == (Beats - 1) * Interval

Lease == Beats * Interval

VARIABLES
    left,     \* until the stored lease_expires_at; -1 once it has passed
    worker,   \* "waits", "beats", "killed" or "ended"
    timer,    \* of the worker's wait, or of the statement under way
    fresh,    \* what the statement under way will write: its clock was read first
    missed,   \* consecutive beats that failed
    sweep,    \* until the next sweep
    job       \* "running", "reaped" or "done"

vars == <<left, worker, timer, fresh, missed, sweep, job>>

Init ==
    /\ left = Lease /\ worker = "waits" /\ timer = Interval /\ fresh = 0
    /\ missed = 0 /\ sweep \in 0..SweepEvery /\ job = "running"

\* stop.wait(interval) times out; the new expiry is computed, then written.
Beat ==
    /\ worker = "waits" /\ timer = 0
    /\ worker' = "beats" /\ timer' \in 0..Latency /\ fresh' = Lease
    /\ UNCHANGED <<left, missed, sweep, job>>

WaitsFor(ticks) == worker' = "waits" /\ timer' = ticks

\* The statement raises: the failure is logged and the next beat waited for.
BeatFails ==
    /\ worker = "beats" /\ timer = 0 /\ missed < Misses
    /\ missed' = missed + 1 /\ WaitsFor(Interval)
    /\ UNCHANGED <<left, fresh, sweep, job>>

\* touch_run_job_lease: a job in flight is renewed, any other one ends the thread.
BeatRenews ==
    /\ worker = "beats" /\ timer = 0
    /\ IF job = "running"
       THEN left' = fresh /\ missed' = 0 /\ WaitsFor(Interval)
       ELSE worker' = "ended" /\ UNCHANGED <<left, missed, timer>>
    /\ UNCHANGED <<fresh, sweep, job>>

\* The run is over: the thread is stopped, and the worker's copy of the row is
\* written whatever became of the row meanwhile.
Finish ==
    /\ worker = "waits"
    /\ job' = "done" /\ worker' = "ended"
    /\ UNCHANGED <<left, timer, fresh, missed, sweep>>

\* SIGKILL: nothing of the worker runs any more, the row stays as it is.
Kill ==
    /\ Kills /\ worker \in {"waits", "beats"}
    /\ worker' = "killed"
    /\ UNCHANGED <<left, timer, fresh, missed, sweep, job>>

\* sweep_once: lease_expires_at < now, of a job in flight.
Sweep ==
    /\ sweep = 0 /\ sweep' = SweepEvery
    /\ job' = IF job = "running" /\ left < 0 THEN "reaped" ELSE job
    /\ UNCHANGED <<left, worker, timer, fresh, missed>>

\* Threads wake up on time: the clock stops at what is due.
Tick ==
    /\ worker \in {"waits", "beats"} => timer > 0
    /\ sweep > 0 /\ sweep' = sweep - 1
    /\ left' = IF left < 0 THEN -1 ELSE left - 1
    /\ timer' = IF timer = 0 THEN 0 ELSE timer - 1
    /\ fresh' = IF fresh = 0 THEN 0 ELSE fresh - 1
    /\ UNCHANGED <<worker, missed, job>>

Next == Beat \/ BeatFails \/ BeatRenews \/ Finish \/ Kill \/ Sweep \/ Tick

Spec == Init /\ [][Next]_vars /\ WF_vars(Tick) /\ WF_vars(Sweep) /\ WF_vars(Beat)
        /\ WF_vars(BeatFails \/ BeatRenews)

\* As long as its worker lives, a job is not reaped: not between two beats, not
\* while one is under way, and not after as many failures as the instance allows.
HealthyIsNotReaped == worker \in {"waits", "beats"} => job # "reaped"

\* A killed worker's job does not run for ever: its lease lapses and is swept,
\* also when the kill hit a beat.
KilledIsReaped == worker = "killed" ~> job = "reaped"

\* "two consecutive misses still beat expiry" (_lease_heartbeat)
\* The code does not keep it: the beat after two misses comes when the lease has just
\* expired.
TwoMissesBeatExpiry == missed <= 2 /\ worker \in {"waits", "beats"} => job # "reaped"
=============================================================================
