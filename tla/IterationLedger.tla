-------------------------- MODULE IterationLedger ---------------------------
(***************************************************************************)
(* What the sharded execution of an iteration promises to the optimization *)
(* loop, without rows, claims, workers or barriers: every case of an       *)
(* iteration settles at most once and for good, and an iteration is        *)
(* aggregated only from the settled results of all of its cases.           *)
(***************************************************************************)
EXTENDS Integers

CONSTANTS
    Cases,       \* the cases of the optimization set
    Iterations,  \* the iterations of the run
    Reporters,   \* who aggregates: the coordinators of the run
    Results,     \* what a case may settle to
    Open,        \* the case has not settled
    NoReport     \* the iteration has not been aggregated

VARIABLES
    result,  \* the result of every case of every iteration
    report   \* what every reporter aggregated of every iteration

Slots == Iterations \X Cases

Init ==
    /\ result = [s \in Slots |-> Open]
    /\ report = [q \in Reporters \X Iterations |-> NoReport]

Settle(s, v) ==
    /\ result[s] = Open
    /\ result' = [result EXCEPT ![s] = v]
    /\ UNCHANGED report

Aggregate(k, i) ==
    /\ \A c \in Cases : result[<<i, c>>] # Open
    /\ report' = [report EXCEPT ![<<k, i>>] = [c \in Cases |-> result[<<i, c>>]]]
    /\ UNCHANGED result

Next ==
    \/ \E s \in Slots, v \in Results : Settle(s, v)
    \/ \E k \in Reporters, i \in Iterations : Aggregate(k, i)

Spec == Init /\ [][Next]_<<result, report>>

-----------------------------------------------------------------------------
(* Two coordinators of one run (a job leased twice) record the same         *)
(* aggregate for an iteration, whichever of them ran which cases.           *)
ReportsAgree ==
    \A k, l \in Reporters, i \in Iterations :
        report[<<k, i>>] # NoReport /\ report[<<l, i>>] # NoReport
            => report[<<k, i>>] = report[<<l, i>>]
=============================================================================
