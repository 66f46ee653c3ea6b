---------------------------- MODULE ArenaBundle ----------------------------
(* What the coding agent that drives an arena reads before it proposes the    *)
(* next variant: the bundle of a round, projected from the rounds, the child  *)
(* experiments and their one iteration record each (arena/bundle.py), and the *)
(* cost a further round is estimated at (arena/service.py).  Rounds are       *)
(* launched here one after the other; records come in any order, or never.    *)
EXTENDS Integers, Sequences, SequencesExt, FiniteSetsExt

CONSTANTS
    Variants,
    Scores,             \* the values the primary metric takes
    Rate,               \* the cost of one repetition of a variant, 0 if unreported
    Reps,               \* the repetitions a round may ask for
    MinDelta, Patience, \* of the convergence signal
    RoundBound          \* bound of the instance

VARIABLES
    rounds,     \* per round: the variants in it, and its repetitions
    record      \* <<round, variant>> -> the value of its iteration record

vars == <<rounds, record>>

NoScore == -1       \* no record yet, or a record without metrics
Unknown == -1       \* no estimate

Init == rounds = <<>> /\ record = [x \in (1..RoundBound) \X Variants |-> NoScore]

LaunchRound ==
    /\ Len(rounds) < RoundBound
    /\ \E entries \in SUBSET Variants \ {{}}, reps \in Reps :
          rounds' = Append(rounds, [entries |-> entries, reps |-> reps])
    /\ UNCHANGED record

PutRecord ==
    /\ \E r \in DOMAIN rounds, v \in Variants, s \in Scores :
          /\ v \in rounds[r].entries
          /\ record[<<r, v>>] = NoScore
          /\ record' = [record EXCEPT ![<<r, v>>] = s]
    /\ UNCHANGED rounds

Next == LaunchRound \/ PutRecord

Spec == Init /\ [][Next]_vars

----------------------------------------------------------------------------
(* The bundle of a round                                                      *)

RoundEntriesFor(target) == IF target \in DOMAIN rounds THEN rounds[target].entries ELSE {}

LatestResult(v, target) ==
    IF v \in RoundEntriesFor(target) THEN record[<<target, v>>] ELSE NoScore

\* A variant's value in each round it was in, the rounds in order.
History(v) ==
    LET took == SetToSortSeq({r \in DOMAIN rounds : v \in rounds[r].entries}, <)
    IN  [i \in DOMAIN took |-> [round |-> took[i], value |-> record[<<took[i], v>>]]]

\* The variants with a value, the highest first.
Leaderboard(target) ==
    SetToSortSeq({[variant |-> v, value |-> LatestResult(v, target)] :
                     v \in {u \in Variants : LatestResult(u, target) # NoScore}},
                 LAMBDA a, b : a.value > b.value)

\* The best value of each round that has one.
BestByRound ==
    LET scored == {r \in DOMAIN rounds : \E v \in Variants : record[<<r, v>>] # NoScore}
        order == SetToSortSeq(scored, <)
    IN  [i \in DOMAIN order |-> Max({record[<<order[i], v>>] : v \in Variants})]

\* The latest value is less than MinDelta above the best of the Patience
\* values before it.
HasConverged(values) ==
    LET n == Len(values) IN
    /\ n >= Patience + 1
    /\ values[n] - Max({values[i] : i \in (n - Patience)..(n - 1)}) < MinDelta

Convergence ==
    [converged |-> HasConverged(BestByRound), observed |-> Len(BestByRound),
     best |-> IF BestByRound = <<>> THEN NoScore ELSE Last(BestByRound)]

----------------------------------------------------------------------------
(* estimate_round_cost                                                        *)

\* A record's cost is the sum over its cases and repetitions, or not there.
Cost(r, v) == Rate[v] * rounds[r].reps

Priced(v) == {r \in DOMAIN rounds : record[<<r, v>>] # NoScore /\ Rate[v] > 0}
PricedAny == UNION {{<<r, v>> : r \in Priced(v)} : v \in Variants}

SumOver(S, f(_)) == MapThenSumSet(f, S)

\* Costs are kept in units of 1/Unit so that the averages are exact.
Unit == 60
OwnAverage(v) == (Unit * SumOver(Priced(v), LAMBDA r : Cost(r, v))) \div Cardinality(Priced(v))
ArenaAverage ==
    (Unit * SumOver(PricedAny, LAMBDA x : Cost(x[1], x[2]))) \div Cardinality(PricedAny)

\* Per variant the average of its own rounds, or else of everyone's, times
\* the repetitions asked for; unknown without any history.
Estimate(selected, reps) ==
    IF PricedAny = {} THEN Unknown
    ELSE SumOver(selected, LAMBDA v :
            (IF Priced(v) = {} THEN ArenaAverage ELSE OwnAverage(v)) * reps)

----------------------------------------------------------------------------
(* What the bundle promises                                                   *)

\* The leaderboard of every round ranks the variants that have a value in that
\* round, best first, and says of each what its history says of the round
\* (build_bundle gathers the two along different paths).
LeaderboardAgreesWithHistory ==
    \A r \in DOMAIN rounds :
        LET board == Leaderboard(r) IN
        /\ \A i, j \in DOMAIN board : i < j => board[i].value >= board[j].value
        /\ \A v \in Variants :
              (\E i \in DOMAIN History(v) :
                  History(v)[i].round = r /\ History(v)[i].value # NoScore)
              <=> \E i \in DOMAIN board :
                     /\ board[i].variant = v
                     /\ [round |-> r, value |-> board[i].value] \in Range(History(v))

\* An arena whose best value has risen by the delta in its last observed
\* round over everything before it is not converged, and one that has stayed
\* the same for longer than the patience is (_convergence_signal).
ConvergenceFollowsTheBest ==
    LET all == {record[<<r, v>>] : r \in DOMAIN rounds, v \in Variants} \ {NoScore}
        last == Max({r \in DOMAIN rounds : \E v \in Variants : record[<<r, v>>] # NoScore} \cup {0})
        before == {record[<<r, v>>] : r \in 1..(last - 1), v \in Variants} \ {NoScore}
    IN  last > 0 =>
        /\ \A v \in Variants :
              (record[<<last, v>>] # NoScore /\ before # {}
               /\ record[<<last, v>>] >= Max(before) + MinDelta) => ~Convergence.converged
        /\ (\A r \in DOMAIN rounds : \E v \in Variants : record[<<r, v>>] # NoScore)
           /\ Cardinality(all) = 1 /\ Len(rounds) > Patience => Convergence.converged
        /\ Convergence.converged => Cardinality(before) > 0 /\ last > Patience

\* Whoever is new to an arena with a cost history is not estimated as free,
\* and adding a variant never lowers an estimate (estimate_round_cost).
NewIsNotFree ==
    PricedAny # {} =>
        \A selected \in SUBSET Variants, reps \in Reps : \A v \in Variants \ selected :
            Estimate(selected \cup {v}, reps) > Estimate(selected, reps)

\* Repeating a round is estimated at what it cost: the estimate extrapolates
\* the variants' average per-round cost (estimate_round_cost's docstring).
\* The code does not keep it: the average already sums over the repetitions it is
\* multiplied by.
RepeatCostsTheSame ==
    \A r \in DOMAIN rounds :
        (/\ \A q \in DOMAIN rounds : rounds[q].reps = rounds[r].reps
         /\ \A v \in rounds[r].entries : Priced(v) # {})
        => Estimate(rounds[r].entries, rounds[r].reps)
             = Unit * SumOver(rounds[r].entries, LAMBDA v : Cost(r, v))
=============================================================================
