---------------------------- MODULE MCEvaluation ----------------------------
(***************************************************************************)
(* What is computed from graded cases, and the datasets that hold them,    *)
(* one component at a time: a behaviour exercises the one named by `part`. *)
(* The datasets of one client have their own variables; those of any other *)
(* component are the first of s1, s2, ..., and the others are Off.         *)
(***************************************************************************)
EXTENDS Datasets, Integers, TLC

CONSTANT None

VARIABLES part, s1, s2, s3, s4, s5, s6, s7, s8, s9, s10, s11, s12

Slots == <<s1, s2, s3, s4, s5, s6, s7, s8, s9, s10, s11, s12>>
suiteVars == <<vars, part, Slots>>
Off == "off"
From2 == <<s2, s3, s4, s5, s6, s7, s8, s9, s10, s11, s12>>
From3 == <<s3, s4, s5, s6, s7, s8, s9, s10, s11, s12>>
From4 == <<s4, s5, s6, s7, s8, s9, s10, s11, s12>>
From6 == <<s6, s7, s8, s9, s10, s11, s12>>
From7 == <<s7, s8, s9, s10, s11, s12>>
From8 == <<s8, s9, s10, s11, s12>>

-----------------------------------------------------------------------------
\* Verdicts of one or two graders on two cases.
Says(label) == [label |-> label, modes |-> IF label = "fail" THEN {"wrong"} ELSE {}]
Rep(error, grades) == [error |-> error, grades |-> grades]
Grades2 == [{"g1", "g2"} -> {Says("pass"), Says("fail"), Says("skipped"), Says("error")}]
ManyRuns ==
    {<<Rep(e, g)>> : e \in BOOLEAN, g \in Grades2}
    \cup {[i \in 1..n |-> Rep(l[i] = "error", [g1 |-> Says(l[i])])] :
             n \in 1..3, l \in [1..3 -> {"pass", "fail", "error"}]}
Unweighted == [weights |-> [wrong |-> 0], critical |-> {}]
Weighted == [weights |-> [wrong |-> 3], critical |-> {"wrong"}]

Verdicts == INSTANCE Aggregation WITH
    Graders <- {"g1", "g2"}, Modes <- {"wrong"}, CaseSpecs <- {Unweighted, Weighted},
    CaseRuns <- ManyRuns, Costs <- {[duration |-> 1, cost |-> 0]}, Trees <- {<<>>},
    CaseBound <- 2, outcomes <- s1

\* Latencies, costs and breakdown trees of two cases.
Leaf(k, s, w) == [key |-> k, score |-> s, weight |-> w, kids |-> <<>>]
TreesOfTwo ==
    {<<[key |-> "root", score |-> s, weight |-> w, kids |-> <<Leaf("a", -1, 1), Leaf("b", t, 2)>>]>> :
        s \in {-1, 0, 2}, w \in 0..2, t \in {-1, 1, 3}}

Numbers == INSTANCE Aggregation WITH
    Graders <- {"g1", "g2"}, Modes <- {"wrong"}, CaseSpecs <- {Unweighted},
    CaseRuns <- {<<Rep(FALSE, [g1 |-> Says("pass"), g2 |-> Says("fail")])>>},
    Costs <- {[duration |-> d, cost |-> 1] : d \in {1, 2, 7, 40}}, Trees <- TreesOfTwo,
    CaseBound <- 2, outcomes <- s1

\* Two classes, one of them also written in capitals; and the labels of people.
Word(w, u) == [word |-> w, upper |-> u]
Plain == {Word(<<"x">>, FALSE), Word(<<"x">>, TRUE), Word(<<"y">>, FALSE)}
Two == {Word(<<"x">>, FALSE), Word(<<"y">>, FALSE)}

Grades == INSTANCE Confusion WITH
    Classes <- Plain, Arrow <- "arrow", Folds <- TRUE, Cases <- {}, CaseBound <- 3,
    graded <- s1, predicted <- s2, human <- s3

People == INSTANCE Confusion WITH
    Classes <- Two, Arrow <- "arrow", Folds <- FALSE, Cases <- {1, 2, 3}, CaseBound <- 0,
    graded <- s1, predicted <- s2, human <- s3

\* Iteration records with parameters, metrics and funnels.
Value(v) == [value |-> v]
Group(f) == [children |-> f]
ParamChoices == {<<>>, [temperature |-> Value(1)],
                 [temperature |-> Value(2), model |-> Group([level |-> 1])],
                 [model |-> Group(<<>>)]}
ModeChoices == {<<>>, [m1 |-> 1], [m2 |-> 1], [m1 |-> 2, m2 |-> 1]}
FunnelChoices == {<<>>, [top |-> [score |-> 1, children |-> [leaf |-> 2]]],
                  [top |-> [score |-> None, children |-> [leaf |-> 1, tag |-> None]]]}
Measured(p, v, g, m, f) ==
    [primary |-> [name |-> p, value |-> v],
     guardrails |-> IF g = None THEN <<>> ELSE <<[name |-> "cost", value |-> g]>>,
     reliability |-> IF g = None THEN <<>> ELSE [consistency |-> g],
     modes |-> m, funnel |-> f]

Tables == INSTANCE Compare WITH
    Records <- {[params |-> q, metrics |-> None] : q \in ParamChoices} \cup
        {[params |-> q, metrics |-> Measured(p, v, None, m, <<>>)] :
            q \in {<<>>, [temperature |-> Value(1)]}, p \in {"p1", "p2"}, v \in {1, 2},
            m \in ModeChoices},
    a <- s1, b <- s2

TreeTables == INSTANCE Compare WITH
    Records <- {[params |-> <<>>, metrics |-> Measured("p1", v, g, <<>>, f)] :
        v \in {1, 2}, g \in {None, 1}, f \in FunnelChoices},
    a <- s1, b <- s2

\* Pools of three features with up to four cases each, in fifths.
Sampling == INSTANCE Sampling WITH
    Features <- {1, 2, 3}, PoolBound <- 4, Parts <- 5,
    Strategies <- {"full", "random_subset", "stratified"},
    pool <- s1, holdout <- s2, kept <- s3, strategy <- s4, selected <- s5

\* Pairs posted in one order, and either way round, under the same rubric.
OneOrder == INSTANCE Calibration WITH
    Outputs <- {1, 2, 3}, Kept <- {1, 2}, Versions <- {1}, BothOrders <- FALSE,
    VerdictBound <- 4, stored <- s1, batch <- s2, posted <- s3

BothOrders == INSTANCE Calibration WITH
    Outputs <- {1, 2, 3}, Kept <- {1, 2}, Versions <- {1}, BothOrders <- TRUE,
    VerdictBound <- 3, stored <- s1, batch <- s2, posted <- s3

\* Three candidates with planned pairs; and five of them in two Swiss rounds.
Plans == INSTANCE Tournament WITH
    Candidates <- {1, 2, 3}, Margins <- {2}, Strategies <- {"all_pairs", "sampled", "vs_baseline"},
    Baselines <- {2}, Concurrency <- 2, SwissRounds <- 0, PerCandidate <- 1, Errors <- 1,
    strategy <- s1, baseline <- s2, swap <- s3, phase <- s4, plan <- s5, call <- s6,
    played <- s7, round <- s8, results <- s9, verdicts <- s10, tournament <- s11, errors <- s12

Swiss == INSTANCE Tournament WITH
    Candidates <- {1, 2, 3, 4, 5}, Margins <- {2}, Strategies <- {"swiss"},
    Baselines <- {1}, Concurrency <- 1, SwissRounds <- 2, PerCandidate <- 1, Errors <- 1,
    strategy <- s1, baseline <- s2, swap <- s3, phase <- s4, plan <- s5, call <- s6,
    played <- s7, round <- s8, results <- s9, verdicts <- s10, tournament <- s11, errors <- s12

\* What the reports say of one run, and of two that may die.
Report == INSTANCE RunReport WITH
    Cases <- {"k1", "k2"}, Labels <- {"pass", "fail"}, Values <- {1, 2}, Costs <- {0, 1},
    persist_traces <- "failed", MaxIterations <- 3, MaxRuns <- 1, Dies <- FALSE,
    iterations <- s1, decisions <- s2, traces <- s3, live <- s4, pc <- s5, current <- s6, run <- s7

Reruns == INSTANCE RunReport WITH
    Cases <- {"k1"}, Labels <- {"pass", "fail"}, Values <- {1, 2}, Costs <- {0},
    persist_traces <- "failed", MaxIterations <- 2, MaxRuns <- 2, Dies <- TRUE,
    iterations <- s1, decisions <- s2, traces <- s3, live <- s4, pc <- s5, current <- s6, run <- s7

\* Two variants of an arena over three rounds; three over two rounds with repetitions.
Leaderboard == INSTANCE ArenaBundle WITH
    Variants <- {"v1", "v3"}, Scores <- {0, 5, 9}, Rate <- [v1 |-> 1, v3 |-> 0], Reps <- {1},
    MinDelta <- 1, Patience <- 2, RoundBound <- 3, rounds <- s1, record <- s2

Costs == INSTANCE ArenaBundle WITH
    Variants <- {"v1", "v2", "v3"}, Scores <- {0}, Rate <- [v1 |-> 1, v2 |-> 3, v3 |-> 0],
    Reps <- {1, 2}, MinDelta <- 1, Patience <- 1, RoundBound <- 2, rounds <- s1, record <- s2

\* Datasets: the one experiment with cases of its own, and the dataset derived from it; and two
\* clients whose requests overlap, share cases and die.
DerivedIds == [e1 |-> "ds_e1"]

Overlapping == INSTANCE Datasets WITH
    Clients <- {"c1", "c2"}, CaseIds <- {"k1", "k2"}, Bodies <- {"x"}, InlineId <- DerivedIds,
    Offered <- {"upload", "append", "freeze", "launch", "inline", "die"}, Shared <- TRUE,
    Serial <- FALSE, MaxCalls <- 3,
    cases <- s1, datasets <- s2, client <- s3, calls <- s4, appended <- s5, ran <- s6

-----------------------------------------------------------------------------
Off2 ==
    /\ s2 = Off /\ s3 = Off /\ s4 = Off /\ s5 = Off /\ s6 = Off /\ s7 = Off
    /\ s8 = Off /\ s9 = Off /\ s10 = Off /\ s11 = Off /\ s12 = Off
Off3 ==
    /\ s3 = Off /\ s4 = Off /\ s5 = Off /\ s6 = Off /\ s7 = Off /\ s8 = Off
    /\ s9 = Off /\ s10 = Off /\ s11 = Off /\ s12 = Off
Off4 ==
    /\ s4 = Off /\ s5 = Off /\ s6 = Off /\ s7 = Off /\ s8 = Off /\ s9 = Off
    /\ s10 = Off /\ s11 = Off /\ s12 = Off
Off6 ==
    /\ s6 = Off /\ s7 = Off /\ s8 = Off /\ s9 = Off /\ s10 = Off /\ s11 = Off
    /\ s12 = Off
Off7 == s7 = Off /\ s8 = Off /\ s9 = Off /\ s10 = Off /\ s11 = Off /\ s12 = Off
Off8 == s8 = Off /\ s9 = Off /\ s10 = Off /\ s11 = Off /\ s12 = Off

SuiteInit ==
    /\ Init
    /\ \/ part = "in_turn" /\ s1 = Off /\ Off2
       \/ part = "verdicts" /\ Verdicts!Init /\ Off2
       \/ part = "numbers" /\ Numbers!Init /\ Off2
       \/ part = "grades" /\ Grades!Init /\ Off4
       \/ part = "people" /\ People!Init /\ Off4
       \/ part = "tables" /\ Tables!Init /\ Off3
       \/ part = "trees" /\ TreeTables!Init /\ Off3
       \/ part = "sampling" /\ Sampling!Init /\ Off6
       \/ part = "one_order" /\ OneOrder!Init /\ Off4
       \/ part = "both_orders" /\ BothOrders!Init /\ Off4
       \/ part = "plans" /\ Plans!Init
       \/ part = "swiss" /\ Swiss!Init
       \/ part = "report" /\ Report!Init /\ Off8
       \/ part = "reruns" /\ Reruns!Init /\ Off8
       \/ part = "leaderboard" /\ Leaderboard!Init /\ Off3
       \/ part = "costs" /\ Costs!Init /\ Off3
       \/ part = "overlapping" /\ Overlapping!Init /\ Off7

SuiteNext ==
    \/ part = "in_turn" /\ Next /\ UNCHANGED <<part, Slots>>
    \/ /\ UNCHANGED <<vars, part>>
       /\ \/ part = "verdicts" /\ Verdicts!Next /\ UNCHANGED From2
          \/ part = "numbers" /\ Numbers!Next /\ UNCHANGED From2
          \/ part = "grades" /\ Grades!Next /\ UNCHANGED From4
          \/ part = "people" /\ People!Next /\ UNCHANGED From4
          \/ part = "tables" /\ Tables!Next /\ UNCHANGED From3
          \/ part = "trees" /\ TreeTables!Next /\ UNCHANGED From3
          \/ part = "sampling" /\ Sampling!Next /\ UNCHANGED From6
          \/ part = "one_order" /\ OneOrder!Next /\ UNCHANGED From4
          \/ part = "both_orders" /\ BothOrders!Next /\ UNCHANGED From4
          \/ part = "plans" /\ Plans!Next
          \/ part = "swiss" /\ Swiss!Next
          \/ part = "report" /\ Report!Next /\ UNCHANGED From8
          \/ part = "reruns" /\ Reruns!Next /\ UNCHANGED From8
          \/ part = "leaderboard" /\ Leaderboard!Next /\ UNCHANGED From3
          \/ part = "costs" /\ Costs!Next /\ UNCHANGED From3
          \/ part = "overlapping" /\ Overlapping!Next /\ UNCHANGED From7

SuiteSpec == SuiteInit /\ [][SuiteNext]_suiteVars

-----------------------------------------------------------------------------
(* What they promise; the modules of the components say it in full.          *)

\* A case passes when every grader of its first repetition says so (_first_repetition_label).
PassIsUnanimous == part = "verdicts" => Verdicts!PassIsUnanimous

\* A longer window only helps pass@k and only hurts pass^k (_reliability_metrics).
WindowsAreMonotone == part = "verdicts" => Verdicts!WindowsAreMonotone

\* A grader that skips a case is not charged for it (grader_pass_rates).
ScopedGraderIsNotPenalised == part = "verdicts" => Verdicts!ScopedGraderIsNotPenalised

\* What is computed from stored outcomes is what the run computed (scenario_outcomes).
StoredAgrees ==
    /\ part = "verdicts" => Verdicts!StoredAgrees
    /\ part = "numbers" => Numbers!StoredAgrees

\* An agent that did not get to answer shows in the error rate alone (error_rate).
ErrorsAreNotFailures == [][part = "verdicts" => Verdicts!ErrorCountsApart]_suiteVars

\* Percentiles are ordered and within the latencies (_percentile).
PercentilesAreOrdered == part = "numbers" => Numbers!PercentilesAreOrdered

\* A mean over breakdown trees lies between its parts (breakdown_means).
MeanIsBetween == part = "numbers" => Numbers!MeanIsBetween

\* Every graded case is in one cell of the matrix (confusion_from_breakdown).
MatrixHoldsEveryVerdict == part = "grades" => Grades!MatrixHoldsEveryVerdict

\* The diagonal holds the cases the grader passed (ClassificationGrader.grade).
DiagonalIsThePasses == part = "grades" => Grades!DiagonalIsThePasses

\* An F1 lies between the precision and the recall it is made of, also where classes have no
\* prediction, no instance or no hit (f1_score, macro_f1).
F1IsAMean ==
    /\ part = "grades" => Grades!F1IsAMean
    /\ part = "people" => People!F1IsAMean

\* Calibration is about the cases both the grader and a person judged (calibrate).
OnlyJudgedCasesCount == part = "people" => People!OnlyJudgedCasesCount

\* The recall of high-risk cases is part of the recall (calibrate).
RiskIsPartOfRecall == part = "people" => People!RiskIsPartOfRecall

\* Comparing b with a says the opposite of comparing a with b (compare_iterations).
SwapIsMirror ==
    /\ part = "tables" => Tables!SwapIsMirror
    /\ part = "trees" => TreeTables!SwapIsMirror

\* What the comparison advises can be seen in its tables (_recommendation).
AdviceIsInTheTables == part = "tables" => Tables!AdviceIsInTheTables

\* Every node with a score has its row (_funnel_deltas).
ScoredNodesHaveRows == part = "trees" => TreeTables!ScoredNodesHaveRows

\* A sample has the size it was asked for (select_optimization_set).
SizeIsAsAsked == part = "sampling" => Sampling!SizeIsAsAsked

\* A stratified sample keeps the shares of the features (_stratified_subset).
SharesAreProportional == part = "sampling" => Sampling!SharesAreProportional

\* Agreement is about which output was better, not its side (compute_calibration).
AgreementIsAboutTheOutput == part = "one_order" => OneOrder!AgreementIsAboutTheOutput

\* A pair both a judge and a person judged is compared (compute_calibration).
JudgedByBothIsCompared == part = "one_order" => OneOrder!JudgedByBothIsCompared

\* The key of a pair does not depend on its order (PairwiseVerdict.pair_key).
OrderDoesNotSplitAPair == part = "both_orders" => BothOrders!OrderDoesNotSplitAPair

\* A batch of verdicts is stored in full or refused (ingest_verdicts).
BatchIsAllOrNothing == part = "both_orders" => BothOrders!BatchIsAllOrNothing

\* Nobody meets the same opponent twice (plan_pairs, swiss_pairs).
PairsMeetOnce ==
    /\ part = "plans" => Plans!PairsMeetOnce
    /\ part = "swiss" => Swiss!PairsMeetOnce

\* A judge that prefers a side decides nothing when sides are swapped (_judge_pair).
PositionBiasCancels == part = "plans" => Plans!PositionBiasCancels

\* Wins, losses and ties of the ranking are those of the comparisons (rank).
RankingAddsUp ==
    /\ part = "plans" => Plans!RankingAddsUp
    /\ part = "swiss" => Swiss!RankingAddsUp

\* The stored verdicts are the comparisons the tournament counts (run_tournament).
VerdictsBackTheRanking == part = "plans" => Plans!VerdictsBackTheRanking

\* In a Swiss round everybody plays at most once (swiss_pairs).
SwissPairsAreDisjoint == part = "swiss" => Swiss!SwissPairsAreDisjoint

\* A report rebuilt from the rows is the one the run gave (build_run_report).
ReportMatchesLive == part = "report" => Report!ReportMatchesLive

\* The reasons of the decision table are those stored inline (markdown report).
ReasonsMatchInline == part = "report" => Report!ReasonsMatchInline

\* A report names only traces that are stored (persist_traces).
AnnouncedTracesExist == part = "reruns" => Reruns!AnnouncedTracesExist

\* A decision that is stored is in the report (load_run_report).
DecidedIsReported == part = "reruns" => Reruns!DecidedIsReported

\* The leader of the arena is the best of its history (build_bundle).
LeaderboardAgreesWithHistory == part = "leaderboard" => Leaderboard!LeaderboardAgreesWithHistory

\* An arena has converged when its best has not improved for patience rounds (_convergence).
ConvergenceFollowsTheBest == part = "leaderboard" => Leaderboard!ConvergenceFollowsTheBest

\* A round with a variant that was not measured before is not forecast as free (_forecast_cost).
NewIsNotFree == part = "costs" => Costs!NewIsNotFree

\* The manifest of a dataset is of the cases it names, also when requests overlap and die.
ManifestsAreOfTheirCases == part = "overlapping" => Overlapping!DatasetsAreTrue

-----------------------------------------------------------------------------
(* Taken together, by what they are about.                                 *)

\* Figures say what they are named for: rates with the right denominators, percentiles and means
\* within their data, errors apart from failures, every verdict in one cell, pairs judged once
\* and without regard to their order, samples in proportion, comparisons that mirror each other
\* (IterationAggregate, _confusion, compare_iterations, stratified sampling, pairwise tournaments
\* and calibration).
FiguresAreRight ==
    /\ [](/\ PassIsUnanimous /\ WindowsAreMonotone /\ ScopedGraderIsNotPenalised
          /\ PercentilesAreOrdered /\ MeanIsBetween /\ MatrixHoldsEveryVerdict
          /\ DiagonalIsThePasses /\ F1IsAMean /\ OnlyJudgedCasesCount
          /\ RiskIsPartOfRecall /\ SwapIsMirror /\ AdviceIsInTheTables
          /\ ScoredNodesHaveRows /\ SizeIsAsAsked /\ SharesAreProportional
          /\ AgreementIsAboutTheOutput /\ JudgedByBothIsCompared /\ OrderDoesNotSplitAPair
          /\ PairsMeetOnce /\ PositionBiasCancels /\ RankingAddsUp
          /\ SwissPairsAreDisjoint /\ NewIsNotFree)
    /\ ErrorsAreNotFailures

\* What is read from the store is what was computed: aggregates of stored outcomes, the report of
\* a run, the traces it announces, the verdicts behind a ranking, the leaderboard of an arena,
\* the manifests of datasets, also when runs die or writers interleave (scenario_outcomes,
\* cli/_common.py, pairwise_ops, arena/bundle.py, dataset_writer.py).
StoredIsComputed ==
    /\ StoredAgrees /\ ReportMatchesLive /\ ReasonsMatchInline
    /\ AnnouncedTracesExist /\ DecidedIsReported /\ VerdictsBackTheRanking
    /\ BatchIsAllOrNothing /\ LeaderboardAgreesWithHistory /\ ConvergenceFollowsTheBest
    /\ ManifestsAreOfTheirCases
=============================================================================
