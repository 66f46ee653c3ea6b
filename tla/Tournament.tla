----------------------------- MODULE Tournament -----------------------------
(* A pairwise tournament: pairs of candidates are planned, a judge compares   *)
(* them concurrently, the outcomes are rated, and verdicts and ranking are    *)
(* stored (runner/pairwise_tournament.py, graders/pairwise.py,                *)
(* optimization/pairing.py, optimization/ranking.py).                         *)
(*                                                                            *)
(* A judgement is kept as a signed margin relative to the pair's first        *)
(* candidate: positive prefers it, negative the other one, zero is a tie.     *)
(* Margins are even, so that the average of two is an integer.                *)
EXTENDS Integers, FiniteSets, Sequences, SequencesExt, FiniteSetsExt, Functions

CONSTANTS
    Candidates,         \* numbers: the ids in their order
    Margins,            \* the margins a judge may return, even numbers
    Strategies,         \* the strategies a request may ask for
    Baselines,          \* the baseline ids a request may carry
    Concurrency,        \* DEFAULT_CONCURRENCY
    SwissRounds, PerCandidate,
    Errors              \* bound: judge calls that fail

VARIABLES
    strategy, baseline, swap,   \* the request
    phase,      \* "plan", "judge", "ingest", "store", "done" or "raised"
    plan,       \* the pairs of the current plan or Swiss round
    call,       \* per pair of the plan, how far its comparison is
    played,     \* Swiss: pairs that were sent to the judge
    round,      \* Swiss: rounds played
    results,    \* the comparisons made: pair and signed margin
    verdicts,   \* the stored verdicts
    tournament, \* the stored tournament, an empty or a one-element sequence
    errors      \* judge calls that failed so far

request == <<strategy, baseline, swap>>
vars == <<strategy, baseline, swap, phase, plan, call, played, round, results,
          verdicts, tournament, errors>>

Signed == UNION {{m, -m} : m \in Margins \cup {0}}
Waiting == [st |-> "waiting"]

Init ==
    /\ strategy \in Strategies
    /\ baseline \in (IF strategy = "vs_baseline" THEN Baselines ELSE {0})
    /\ swap \in BOOLEAN
    /\ phase = "plan"
    /\ plan = <<>> /\ call = <<>> /\ played = {} /\ round = 0
    /\ results = <<>> /\ verdicts = <<>> /\ tournament = <<>> /\ errors = 0

----------------------------------------------------------------------------
(* Pairing                                                                    *)

Ids == SetToSortSeq(Candidates, <)
Ordered(a, b) == IF a < b THEN <<a, b>> ELSE <<b, a>>

VsBaseline == SelectSeq([i \in DOMAIN Ids |-> <<Ids[i], baseline>>],
                        LAMBDA pair : pair[1] # pair[2])

AllPairs == SetToSortSeq({pair \in Candidates \X Candidates : pair[1] < pair[2]},
                LAMBDA p, q : p[1] < q[1] \/ (p[1] = q[1] /\ p[2] < q[2]))

\* A shuffle that depends on the candidate alone.
StableShuffle(c) == SetToSortSeq(Candidates \ {c},
                        LAMBDA a, b : (a + c) % Cardinality(Candidates)
                                        < (b + c) % Cardinality(Candidates))

\* Each candidate with the first few of its shuffled opponents, a pair once.
Sampled ==
    LET k == IF PerCandidate < Cardinality(Candidates) - 1 THEN PerCandidate
             ELSE Cardinality(Candidates) - 1
        Add(pairs, pair) == IF Contains(pairs, pair) THEN pairs ELSE Append(pairs, pair)
    IN  FoldLeft(LAMBDA pairs, c :
                    FoldLeft(LAMBDA ps, opp : Add(ps, Ordered(c, opp)),
                             pairs, SubSeq(StableShuffle(c), 1, k)),
                 <<>>, Ids)

\* The wins of a candidate so far.
Standing(c) == Cardinality({i \in DOMAIN results :
    \/ results[i].signed > 0 /\ results[i].pair[1] = c
    \/ results[i].signed < 0 /\ results[i].pair[2] = c})

\* By standing and then by id, each candidate that is still free meets the
\* next free one behind it that it has not met.
NextSwissRound ==
    LET order == SetToSortSeq(Candidates, LAMBDA a, b :
                    Standing(a) > Standing(b) \/ (Standing(a) = Standing(b) /\ a < b))
        Taken(pairs) == UNION {{pairs[i][1], pairs[i][2]} : i \in DOMAIN pairs}
        Add(pairs, i) ==
            LET a == order[i]
                free == SelectSeq(SubSeq(order, i + 1, Len(order)), LAMBDA b :
                            b \notin Taken(pairs) /\ Ordered(a, b) \notin played)
            IN  IF a \in Taken(pairs) \/ free = <<>> THEN pairs
                ELSE Append(pairs, <<a, free[1]>>)
    IN  FoldLeft(Add, <<>>, [i \in DOMAIN order |-> i])

Planned == CASE strategy = "vs_baseline" -> VsBaseline
             [] strategy = "all_pairs" -> AllPairs
             [] strategy = "sampled" -> Sampled
             [] strategy = "swiss" -> NextSwissRound

\* The plan, or the next Swiss round, is made and all its comparisons are
\* created; a pair with an unknown id raises before its judge is asked.
PlanPairs ==
    /\ phase = "plan"
    /\ LET over == strategy = "swiss" /\ (round = SwissRounds \/ Planned = <<>>)
           pairs == IF over THEN <<>> ELSE Planned
       IN  /\ plan' = pairs
           /\ call' = [i \in DOMAIN pairs |-> Waiting]
           /\ phase' = IF over THEN "ingest"
                       ELSE IF \E i \in DOMAIN pairs : Range(pairs[i]) \ Candidates # {}
                            THEN "raised" ELSE "judge"
           /\ played' = IF strategy = "swiss"
                        THEN played \cup {Ordered(pairs[i][1], pairs[i][2]) : i \in DOMAIN pairs}
                        ELSE played
           /\ round' = IF strategy = "swiss" /\ ~over THEN round + 1 ELSE round
    /\ UNCHANGED <<request, results, verdicts, tournament, errors>>

----------------------------------------------------------------------------
(* judge_pair: one call, or two with the responses exchanged                  *)

\* Slip: the verdict on exchanged responses is taken as it is.
UnswapNot(signed) == signed
Unswap(signed) == -signed

AverageDecisions(first, second) == (first + second) \div 2

Asking == {i \in DOMAIN call : call[i].st \in {"asked", "asked again"}}

\* A comparison gets one of the places of the semaphore.
AskJudge(i) ==
    /\ phase = "judge"
    /\ call[i].st = "waiting"
    /\ Cardinality(Asking) < Concurrency
    /\ call' = [call EXCEPT ![i] = [st |-> "asked"]]
    /\ UNCHANGED <<request, phase, plan, played, round, results, verdicts, tournament, errors>>

\* What the judge says of the responses in the order it is shown them.
JudgeAnswers(i) ==
    /\ phase = "judge"
    /\ i \in Asking
    /\ \E shown \in Signed :
          call' = [call EXCEPT ![i] =
              IF @.st = "asked again"
              THEN [st |-> "judged", shown |-> <<@.first, shown>>,
                    signed |-> AverageDecisions(@.first, Unswap(shown))]
              ELSE IF swap THEN [st |-> "asked again", first |-> shown]
              ELSE [st |-> "judged", shown |-> <<shown>>, signed |-> shown]]
    /\ UNCHANGED <<request, phase, plan, played, round, results, verdicts, tournament, errors>>

\* An adapter error, or an answer that does not parse, drops the comparison.
JudgeErrs(i) ==
    /\ phase = "judge"
    /\ i \in Asking
    /\ errors < Errors
    /\ call' = [call EXCEPT ![i] = [st |-> "dropped"]]
    /\ errors' = errors + 1
    /\ UNCHANGED <<request, phase, plan, played, round, results, verdicts, tournament>>

----------------------------------------------------------------------------
(* Outcomes, verdicts and the ranking                                         *)

\* All comparisons have returned: their results, in the order of the plan and
\* without the dropped ones.
Gather ==
    /\ phase = "judge"
    /\ \A i \in DOMAIN call : call[i].st \in {"judged", "dropped"}
    /\ LET judged == SelectSeq([i \in DOMAIN plan |-> i], LAMBDA i : call[i].st = "judged")
       IN  results' = results \o [i \in DOMAIN judged |->
                [pair |-> plan[judged[i]], signed |-> call[judged[i]].signed]]
    /\ phase' = IF strategy = "swiss" THEN "plan" ELSE "ingest"
    /\ UNCHANGED <<request, plan, call, played, round, verdicts, tournament, errors>>

\* ingest_verdicts writes them one by one.
IngestVerdict ==
    /\ phase = "ingest"
    /\ IF Len(verdicts) < Len(results)
       THEN verdicts' = Append(verdicts, results[Len(verdicts) + 1]) /\ UNCHANGED phase
       ELSE phase' = "store" /\ UNCHANGED verdicts
    /\ UNCHANGED <<request, plan, call, played, round, results, tournament, errors>>

\* Wins, losses and ties of a candidate.
Tally(c) ==
    LET of(side, p(_)) == Cardinality({i \in DOMAIN results :
                             results[i].pair[side] = c /\ p(results[i].signed)})
        pos(x) == x > 0   neg(x) == x < 0   nil(x) == x = 0
    IN  [wins |-> of(1, pos) + of(2, neg), losses |-> of(1, neg) + of(2, pos),
         ties |-> of(1, nil) + of(2, nil)]

\* A decisive margin counts up to twice, in units of a fourth.
Weight(signed) == 4 + (IF signed < 0 THEN -signed ELSE signed)

\* The logistic curve in twentieths, flattened to whole numbers.
Expected(d) == LET e == 10 + d \div 20 IN IF e < 1 THEN 1 ELSE IF e > 19 THEN 19 ELSE e

\* One step of elo_ratings: a tie is half a win, a margin weighs more.
Elo(ratings, o) ==
    LET w == IF o.signed < 0 THEN o.pair[2] ELSE o.pair[1]
        l == IF o.signed < 0 THEN o.pair[1] ELSE o.pair[2]
        weight == Weight(o.signed)
        e == Expected(ratings[w] - ratings[l])
        score == IF o.signed = 0 THEN 10 ELSE 20
    IN  [ratings EXCEPT ![w] = @ + weight * (score - e), ![l] = @ + weight * (e - score)]

Ratings == FoldLeft(Elo, [c \in Candidates |-> 1500], results)

\* bradley_terry's sufficient statistics: games per pair and, ties halved, wins.
Games(a, b) == MapThenSumSet(LAMBDA i : Weight(results[i].signed),
                   {i \in DOMAIN results : Ordered(results[i].pair[1], results[i].pair[2]) = Ordered(a, b)})
BtWins(c) == MapThenSumSet(
    LAMBDA i : IF results[i].signed = 0 THEN 4 ELSE 2 * Weight(results[i].signed),
    {i \in DOMAIN results :
        \/ results[i].signed >= 0 /\ results[i].pair[1] = c
        \/ results[i].signed <= 0 /\ results[i].pair[2] = c})

\* The rows, best first, ties by id.
Rows(score) ==
    LET order == SetToSortSeq(Candidates, LAMBDA a, b :
                    score[a] > score[b] \/ (score[a] = score[b] /\ a < b))
    IN  [i \in DOMAIN order |-> [id |-> order[i], score |-> score[order[i]],
                                 tally |-> Tally(order[i])]]

PersistTournament ==
    /\ phase = "store"
    /\ tournament' = <<[ranking |-> Rows(Ratings), comparisons |-> Len(results)]>>
    /\ phase' = "done"
    /\ UNCHANGED <<request, plan, call, played, round, results, verdicts, errors>>

Next ==
    \/ PlanPairs \/ Gather \/ IngestVerdict \/ PersistTournament
    \/ \E i \in DOMAIN call : AskJudge(i) \/ JudgeAnswers(i) \/ JudgeErrs(i)

\* The event loop runs on and the judge answers or fails.
Spec == Init /\ [][Next]_vars /\ WF_vars(Next)

----------------------------------------------------------------------------
(* What a tournament promises                                                 *)

\* Two candidates meet at most once, whichever strategy plans the pairs and
\* however many comparisons were dropped (pairing: "a pair is judged once").
PairsMeetOnce ==
    LET met == results \o (IF phase = "judge" THEN [i \in DOMAIN plan |-> [pair |-> plan[i]]]
                           ELSE <<>>)
    IN  \A i, j \in DOMAIN met :
           i # j => Ordered(met[i].pair[1], met[i].pair[2]) # Ordered(met[j].pair[1], met[j].pair[2])

\* No candidate is in two comparisons of one Swiss round (next_swiss_round).
SwissPairsAreDisjoint ==
    strategy = "swiss" =>
        \A i, j \in DOMAIN plan : i # j => Range(plan[i]) \cap Range(plan[j]) = {}

\* A judge that prefers the response shown first, or the one shown second, by
\* the same margin is heard as a tie when the responses are exchanged
\* (_average_decisions: position-bias mitigation).
PositionBiasCancels ==
    swap => \A i \in DOMAIN call :
        call[i].st = "judged" /\ call[i].shown[1] = call[i].shown[2] => call[i].signed = 0

\* The stored ranking accounts for every comparison: each candidate once,
\* scores descending, the ratings' sum unchanged, wins and losses in balance
\* (_rows, _tally, elo_ratings).
RankingAddsUp ==
    tournament # <<>> =>
        LET rows == tournament[1].ranking
            all(f(_)) == MapThenSumSet(f, DOMAIN rows)
        IN  /\ Len(rows) = Cardinality(Candidates)
            /\ {rows[i].id : i \in DOMAIN rows} = Candidates
            /\ \A i, j \in DOMAIN rows : i < j => rows[i].score >= rows[j].score
            /\ all(LAMBDA i : rows[i].score) = 1500 * Cardinality(Candidates)
            /\ all(LAMBDA i : rows[i].tally.wins) = all(LAMBDA i : rows[i].tally.losses)
            /\ all(LAMBDA i : rows[i].tally.wins + rows[i].tally.losses + rows[i].tally.ties)
                 = 2 * tournament[1].comparisons
            /\ MapThenSumSet(BtWins, Candidates)
                 = 2 * MapThenSumSet(LAMBDA p : Games(p[1], p[2]),
                                     {p \in Candidates \X Candidates : p[1] < p[2]})

\* A stored tournament counts the verdicts that were stored with it, and no
\* comparison whose judge failed (run_tournament drops it).
VerdictsBackTheRanking ==
    /\ Len(verdicts) <= Len(results)
    /\ tournament # <<>> => Len(verdicts) = tournament[1].comparisons
    /\ strategy # "swiss" /\ phase \in {"ingest", "store", "done"}
         => Len(results) = Cardinality({i \in DOMAIN call : call[i].st = "judged"})

\* A request with a baseline nobody entered is refused like any other bad one
\* (run_pairwise_tournament catches what is raised for a bad baseline).
\* The code does not keep it: the baseline is looked up outside the try.
BadRequestsAreRefused == phase # "raised"
=============================================================================
