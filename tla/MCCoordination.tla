--------------------------- MODULE MCCoordination ---------------------------
(***************************************************************************)
(* What the processes of a run wait for: its live stream, through either   *)
(* broker, and the jobs of an iteration.  A behaviour exercises the        *)
(* component named by `part`; "spans" is SpanBroker itself.  The variables *)
(* of the others are the first of s1, s2, ...; the rest is Off.            *)
(***************************************************************************)
EXTENDS SpanBroker

CONSTANTS NoCase, NoReport, Open

VARIABLES part, s1, s2, s3, s4, s5, s6, s7, s8, s9, s10, s11, s12

suiteVars == <<part, vars, s1, s2, s3, s4, s5, s6, s7, s8, s9, s10, s11, s12>>
Off == "off"
From12 == <<s12>>
All == <<s1, s2, s3, s4, s5, s6, s7, s8, s9, s10, s11, s12>>

-----------------------------------------------------------------------------
\* Two viewers of a run on Redis that never fails.
Healthy == INSTANCE RedisBroker WITH
    Viewers <- {"v1", "v2"}, MaxSpans <- 2, MaxLen <- 2, MaxFailures <- 0, Persists <- TRUE,
    calls <- s1, phase <- s2, produced <- s3, stream <- s4, nextId <- s5, active <- s6,
    closedKey <- s7, expires <- s8, stored <- s9, failures <- s10, viewer <- s11,
    appended <- s12

\* Two processes share an iteration of two cases, one case in a batch, with a retry and one
\* crash or storage error.
Sharing == INSTANCE ScenarioJobs WITH
    Cases <- {"k1", "k2"}, Coordinators <- {"p1", "p2"}, MaxIterations <- 1,
    MaxAttempts <- 2, Batch <- 1, MaxFaults <- 1,
    status <- s1, attempt <- s2, outcome <- s3, pc <- s4, iter <- s5,
    locked <- s6, claimed <- s7, current <- s8, report <- s9, record <- s10, faults <- s11

-----------------------------------------------------------------------------
Off12 == s12 = Off
AllOff ==
    /\ s1 = Off /\ s2 = Off /\ s3 = Off /\ s4 = Off /\ s5 = Off /\ s6 = Off
    /\ s7 = Off /\ s8 = Off /\ s9 = Off /\ s10 = Off /\ s11 = Off /\ s12 = Off

SuiteInit ==
    /\ Init   \* of SpanBroker
    /\ \/ part = "spans" /\ AllOff
       \/ part = "healthy" /\ Healthy!Init
       \/ part = "sharing" /\ Sharing!Init /\ Off12

(* A step of one component; what the others keep.                            *)
OfSpanBroker(act) == part = "spans" /\ act /\ UNCHANGED <<part, All>>
SuiteNext ==
    \/ OfSpanBroker(Next)
    \/ part = "healthy" /\ Healthy!Next /\ UNCHANGED <<part, vars>>
    \/ part = "sharing" /\ Sharing!Next /\ UNCHANGED <<part, vars, From12>>

\* The event loop runs its callbacks and tasks; a run on Redis ends and has its
\* commands sent; the processes that share an iteration work on.
OfHealthy(act) == part = "healthy" /\ act /\ UNCHANGED <<part, vars>>
OfSharing(act) == part = "sharing" /\ act /\ UNCHANGED <<part, vars, From12>>
SuiteSpec ==
    /\ SuiteInit /\ [][SuiteNext]_suiteVars
    /\ WF_suiteVars(OfSpanBroker(Callback))
    /\ \A v \in Viewers : WF_suiteVars(OfSpanBroker(Stream(v)))
    /\ WF_suiteVars(OfHealthy(Healthy!on_trace_started))
    /\ WF_suiteVars(OfHealthy(Healthy!close_run))
    /\ WF_suiteVars(OfHealthy(Healthy!Command)) /\ WF_suiteVars(OfHealthy(Healthy!Over))
    /\ \A v \in {"v1", "v2"} : WF_suiteVars(OfHealthy(Healthy!View(v)))
    /\ \A p \in {"p1", "p2"} : WF_suiteVars(OfSharing(Sharing!Work(p)))

-----------------------------------------------------------------------------
(* What they promise; the modules of the components say it in full.          *)

\* A viewer attached when the run finishes gets to the end, unless its queue overflowed
\* (_close_sync, sse.py).
AttachedAreTold ==
    \A v \in Viewers :
        (part = "spans" /\ pc[v] = "live" /\ run = "finished" /\ ~CloseRan) ~>
        (pc[v] = "done" \/ missed[v])

\* Whoever watches a run is told of its end while Redis works (close_run).
ViewersEnd ==
    \A v \in {"v1", "v2"} :
        (part = "healthy" /\ s11[v].pc = "live") ~> (part = "healthy" => s11[v].pc = "done")

\* A run that is over is not listed as active for ever (active_run_keys).
ActiveRunsEnd == (part = "healthy" /\ s2 = "over") ~> (part = "healthy" => ~s6)

\* Without a fault every planned case of an iteration settles (drain_scenario_jobs).
CasesSettle ==
    [](part = "sharing" => s11 = 0) =>
        \A k \in {"k1", "k2"} :
            (part = "sharing" /\ s1[<<0, k>>] \in {"pending", "claimed"}) ~>
            (part = "sharing" => s1[<<0, k>>] \in Sharing!Settled)

\* Every process that executes the run ends, if need be by the barrier's timeout.
CoordinatorEnds ==
    \A p \in {"p1", "p2"} :
        (part = "sharing" /\ s4[p] = "plan") ~> (part = "sharing" => s4[p] \in Sharing!Ended)

-----------------------------------------------------------------------------
(* Taken together.                                                         *)

\* Nobody waits for ever: viewers are told of the end and the run leaves the list of active ones;
\* planned cases settle, and processes get past the barrier (close_run, drain_scenario_jobs,
\* scenario_barrier).
WaitersAreReleased ==
    /\ AttachedAreTold /\ ViewersEnd /\ ActiveRunsEnd
    /\ CasesSettle /\ CoordinatorEnds
=============================================================================
