----------------------------- MODULE JudgePanel -----------------------------
(* A panel of judges over one case (graders/judge_panel.py and               *)
(* judge_panel_consensus.py): the members judge at the same time, their       *)
(* votes are combined into one verdict, and paraphrases of the response are   *)
(* judged again to see how stable the score is.  A member is an LLM judge     *)
(* (graders/llm_judge.py), which may raise, answer nonsense, or stand down    *)
(* because its card is not calibrated.                                        *)
EXTENDS Integers, FiniteSets, FiniteSetsExt, Sequences, SequencesExt

CONSTANTS
    Judges,
    Rules,          \* the consensus rules of this instance
    WeightChoices,  \* functions of Judges to weights, zero allowed
    Scores,         \* explicit scores a judge may give, in twelfths of a tenth
    Variants,       \* pairs_per_case: paraphrases judged after the base panel
    MaxVariance     \* max_score_variance, on the scale of the scores squared

VARIABLES
    rule, weight,
    calibrated,     \* the judges whose card lets them judge
    round,          \* 0 is the response itself, 1..Variants its paraphrases
    outcome,        \* what each judge said in this round, or Waiting
    label, score,   \* the panel's verdict, once it has one
    scores,         \* the scores of the rounds that had a vote
    doubted,        \* the confidence was halved
    phase           \* panel, variant, done or raised

vars == <<rule, weight, calibrated, round, outcome, label, score, scores, doubted, phase>>

Unit == 120         \* a score of 1.0: every mean of up to six votes is exact
Rank == [fail |-> 0, partial |-> 1, pass |-> 2]
VotingLabels == DOMAIN Rank
LabelScore == [l \in VotingLabels |-> (Rank[l] * Unit) \div 2]
NoScore == -1
Waiting == [label |-> "waiting", score |-> NoScore]

Init ==
    /\ rule \in Rules
    /\ weight \in WeightChoices
    /\ calibrated \in SUBSET Judges
    /\ round = 0 /\ phase = "panel"
    /\ outcome = [j \in Judges |-> Waiting]
    /\ label = "none" /\ score = NoScore /\ scores = <<>> /\ doubted = FALSE

----------------------------------------------------------------------------
(* Votes                                                                      *)

Voting == {j \in Judges : outcome[j].label \in VotingLabels}
VoteWeight(j) == IF rule = "weighted" THEN weight[j] ELSE 1
Tally(l) == MapThenSumSet(VoteWeight, {j \in Voting : outcome[j].label = l})

\* The heaviest label, a tie going to the more conservative one.
ArgmaxLabel ==
    CHOOSE l \in VotingLabels : Tally(l) > 0 /\ \A m \in VotingLabels :
        Tally(m) < Tally(l) \/ (Tally(m) = Tally(l) /\ Rank[l] <= Rank[m])

Strictest ==
    CHOOSE l \in VotingLabels : Tally(l) > 0 /\ \A m \in VotingLabels :
        Tally(m) > 0 => Rank[l] <= Rank[m]

CombineLabels == IF rule = "unanimous" THEN Strictest ELSE ArgmaxLabel

\* Only a weighted vote can leave every label without support: max() of nothing.
CombineRaises == rule = "weighted" /\ \A j \in Voting : weight[j] = 0

MemberScore(j) == IF outcome[j].score # NoScore THEN outcome[j].score
                  ELSE LabelScore[outcome[j].label]

CombineScores ==
    LET total == MapThenSumSet(VoteWeight, Voting)
    IN  IF total = 0 THEN LabelScore[CombineLabels]
        ELSE MapThenSumSet(LAMBDA j : VoteWeight(j) * MemberScore(j), Voting) \div total

\* The population variance against its threshold, multiplied out.
HighVariance(values) ==
    LET n == Len(values)
        sum == FoldLeft(LAMBDA a, v : a + v, 0, values)
        squares == FoldLeft(LAMBDA a, v : a + v * v, 0, values)
    IN  n >= 2 /\ n * squares - sum * sum > MaxVariance * n * n

----------------------------------------------------------------------------
(* Steps                                                                      *)

\* One member of the round ends: it stands down when its card is not
\* calibrated, and whatever it raises or answers badly is an error.
JudgeEnds(j) ==
    /\ phase \in {"panel", "variant"} /\ outcome[j] = Waiting
    /\ \/ /\ j \notin calibrated
          /\ outcome' = [outcome EXCEPT ![j] = [label |-> "skipped", score |-> NoScore]]
       \/ /\ j \in calibrated
          /\ \/ outcome' = [outcome EXCEPT ![j] = [label |-> "error", score |-> NoScore]]
             \/ \E l \in VotingLabels, s \in Scores \cup {NoScore} :
                   outcome' = [outcome EXCEPT ![j] = [label |-> l, score |-> s]]
    /\ UNCHANGED <<rule, weight, calibrated, round, label, score, scores, doubted, phase>>

Gathered == \A j \in Judges : outcome[j] # Waiting

NextRound ==
    IF round = Variants THEN phase' = "done" /\ UNCHANGED <<round, outcome>>
    ELSE /\ phase' = "variant" /\ round' = round + 1
         /\ outcome' = [j \in Judges |-> Waiting]

\* Everybody answered: the verdict, or an error when nobody has a vote.
SettlePanel ==
    /\ phase = "panel" /\ Gathered
    /\ IF Voting = {}
       THEN label' = "error" /\ phase' = "done" /\ UNCHANGED <<score, scores, round, outcome>>
       ELSE IF CombineRaises
       THEN phase' = "raised" /\ UNCHANGED <<label, score, scores, round, outcome>>
       ELSE /\ label' = CombineLabels /\ score' = CombineScores
            /\ scores' = <<CombineScores>>
            /\ NextRound
    /\ UNCHANGED <<rule, weight, calibrated, doubted>>

\* Slip: the verdict is that of the last text that was judged.
SettleVariantFlips ==
    /\ phase = "variant" /\ Gathered
    /\ IF Voting # {} /\ CombineRaises
       THEN phase' = "raised" /\ UNCHANGED <<scores, round, outcome, doubted, label>>
       ELSE /\ scores' = IF Voting = {} THEN scores ELSE Append(scores, CombineScores)
            /\ label' = IF Voting = {} THEN label ELSE CombineLabels
            /\ NextRound
            /\ doubted' = (round = Variants /\ HighVariance(scores'))
    /\ UNCHANGED <<rule, weight, calibrated, score>>

\* A paraphrase was judged: its score counts if it had a vote, and after the
\* last one a high variance halves the confidence.
SettleVariant ==
    /\ phase = "variant" /\ Gathered
    /\ IF Voting # {} /\ CombineRaises
       THEN phase' = "raised" /\ UNCHANGED <<scores, round, outcome, doubted>>
       ELSE /\ scores' = IF Voting = {} THEN scores ELSE Append(scores, CombineScores)
            /\ NextRound
            /\ doubted' = (round = Variants /\ HighVariance(scores'))
    /\ UNCHANGED <<rule, weight, calibrated, label, score>>

Next == (\E j \in Judges : JudgeEnds(j)) \/ SettlePanel \/ SettleVariant

Spec == Init /\ [][Next]_vars /\ WF_vars(Next)

----------------------------------------------------------------------------
(* What a verdict promises                                                    *)

\* A base verdict rests on the votes of the judges that had one: an error
\* exactly when nobody voted, the strictest vote under unanimity, and otherwise
\* a label no other label outweighs, the stricter one of two equals
\* (judge_panel: ERROR and SKIPPED members are excluded from the vote).
RestsOnVotes ==
    label = "none" /\ label' # "none" =>
      LET said(l) == {j \in Judges : outcome[j].label = l}
          support(l) == IF rule = "weighted"
                        THEN MapThenSumSet(LAMBDA j : weight[j], said(l))
                        ELSE Cardinality(said(l))
          voted == said("fail") \cup said("partial") \cup said("pass")
      IN  /\ label' = "error" <=> voted = {}
          /\ rule = "unanimous" /\ voted # {} =>
                /\ said("fail") # {} => label' = "fail"
                /\ label' = "pass" <=> voted = said("pass")
          /\ rule # "unanimous" /\ voted # {} =>
                \A l \in VotingLabels : l # label' =>
                    \/ support(l) < support(label')
                    \/ support(l) = support(label') /\ Rank[label'] < Rank[l]
VerdictRestsOnVotes == [][RestsOnVotes]_vars

\* Judging paraphrases is advice: the verdict that the panel reached stays
\* what it was (_counterfactual_variance: never flips the label).
VerdictIsKept == label # "none" => label' = label /\ score' = score
AdviceNeverFlips == [][VerdictIsKept]_vars

\* When a paraphrase turned the panel's score from one end of the scale to the
\* other, the verdict's confidence is halved in the end (population_variance).
SwingIsNoticed ==
    phase = "done" =>
        ((\E i, k \in DOMAIN scores : scores[i] = 0 /\ scores[k] = Unit) => doubted)

\* A panel in which somebody voted ends with a verdict
\* (judge_panel: the heaviest-weighted label wins).
\* The code does not keep it: votes that weigh nothing leave no heaviest label.
VotesGiveAVerdict == phase = "raised" => label # "none"

\* A verdict, once reached, is what the panel returns, whatever happens while
\* paraphrases are judged (judge_panel: high variance is advisory only).
\* The code does not keep it: the same exception while a paraphrase is judged discards
\* the verdict.
AdviceIsHarmless == phase = "raised" => label = "none"

=============================================================================
