------------------------------ MODULE MCGraders ------------------------------
(***************************************************************************)
(* Every grader on its own: a behaviour exercises one of them, named by    *)
(* `part`, whose variables are the first of s1, s2, ...; the others are    *)
(* Off.                                                                    *)
(***************************************************************************)
EXTENDS Integers, FiniteSets, TLC

CONSTANTS None, Rich

VARIABLES part, s1, s2, s3, s4, s5, s6, s7, s8, s9, s10

vars == <<part, s1, s2, s3, s4, s5, s6, s7, s8, s9, s10>>
From3 == <<s3, s4, s5, s6, s7, s8, s9, s10>>
From4 == <<s4, s5, s6, s7, s8, s9, s10>>
From5 == <<s5, s6, s7, s8, s9, s10>>
From7 == <<s7, s8, s9, s10>>
Off == "off"

-----------------------------------------------------------------------------
\* Three levels in every forest in which a parent comes before its children.
Levels3 == 1..3
Forests == {p \in [Levels3 -> 0..3] : \A l \in Levels3 : p[l] < l}

Funnel == INSTANCE Funnel WITH
    Levels <- Levels3, Trees <- Forests, Results <- {"pass", "fail", "error", "partial"},
    parent <- s1, gate <- s2, named <- s3, todo <- s4, node <- s5, verdict <- s6

\* Three judges, every rule, weights of one and two; no paraphrases.
ThreeJudges == {"j1", "j2", "j3"}
Weights == {w \in [ThreeJudges -> 1..2] : \E j \in ThreeJudges : w[j] = 1}

Panel == INSTANCE JudgePanel WITH
    Judges <- ThreeJudges, Rules <- {"majority", "unanimous", "weighted"},
    WeightChoices <- Weights, Scores <- {60}, Variants <- 0, MaxVariance <- 720,
    rule <- s1, weight <- s2, calibrated <- s3, round <- s4, outcome <- s5, label <- s6,
    score <- s7, scores <- s8, doubted <- s9, phase <- s10

\* Two judges and two paraphrases.
Paraphrased == INSTANCE JudgePanel WITH
    Judges <- {"j1", "j2"}, Rules <- {"majority", "unanimous"},
    WeightChoices <- {[j \in {"j1", "j2"} |-> 1]}, Scores <- {}, Variants <- 2,
    MaxVariance <- 720,
    rule <- s1, weight <- s2, calibrated <- s3, round <- s4, outcome <- s5, label <- s6,
    score <- s7, scores <- s8, doubted <- s9, phase <- s10

\* Cases of words alone, with and without a recall; and of every other rule.
Phrases == INSTANCE DeterministicGrading WITH
    Words <- {"w1", "w2"}, Tools <- {}, Labels <- {}, Recalls <- {None, 50},
    HasRegex <- FALSE, case <- s1, responses <- s2

AllRules == INSTANCE DeterministicGrading WITH
    Words <- {"w1"}, Tools <- {"t1"}, Labels <- {"l1", "l2"}, Recalls <- {None},
    HasRegex <- TRUE, case <- s1, responses <- s2

\* Four labels, two of them one word in two cases.
Four == {"Price", "price", "stock", "quote"}
Lower == "Price" :> "price" @@ "price" :> "price" @@ "stock" :> "stock" @@ "quote" :> "quote"
NoAlias == [x \in {} |-> x]

Complete == INSTANCE SetMatching WITH
    Labels <- Four, Fold <- Lower, CaseSensitive <- FALSE, Gating <- "completeness",
    Aliases <- {NoAlias, "price" :> "quote", "quote" :> "stock" @@ "stock" :> "quote"},
    Threshold <- 100, MaxItems <- 2, case <- s1, response <- s2, result <- s3

Measured == INSTANCE SetMatching WITH
    Labels <- Four, Fold <- Lower, CaseSensitive <- TRUE, Gating <- "f1",
    Aliases <- {"price" :> "quote"},
    Threshold <- 60, MaxItems <- 3, case <- s1, response <- s2, result <- s3

\* Agents that run two tools at once; and one at a time, with a limit on all calls.
Beside == INSTANCE Trajectory WITH
    Tools <- {"search", "send", "delete"}, Queries <- {"q"}, Order <- <<"search", "send">>,
    MaxConsecutive <- 2, MaxTotal <- None, ExpectRouting <- FALSE, Forbidden <- {"delete"},
    MaxCalls <- 3, MaxOpen <- 2, MaxSpans <- 4,
    started <- s1, open <- s2, spans <- s3, graded <- s4

OneByOne == INSTANCE Trajectory WITH
    Tools <- {"search", "send", "delete"}, Queries <- {}, Order <- <<"search", "send">>,
    MaxConsecutive <- 1, MaxTotal <- 2, ExpectRouting <- TRUE, Forbidden <- {"delete"},
    MaxCalls <- None, MaxOpen <- 1, MaxSpans <- 5,
    started <- s1, open <- s2, spans <- s3, graded <- s4

\* Artifacts of two keys with values up to one level deep.
NoFields == [k \in {} |-> None]
Leaf(type, empty) == [type |-> type, empty |-> empty, fields |-> NoFields]
Object(fields) == [type |-> "object", empty |-> DOMAIN fields = {}, fields |-> fields]
Of(type, required, properties) ==
    [type |-> type, required |-> required, properties |-> properties]

SmallValues == {Leaf("string", FALSE), Leaf("string", TRUE), Leaf("null", FALSE),
    Leaf("integer", FALSE), Object(NoFields), Object("b" :> Leaf("integer", FALSE)),
    Object("b" :> Leaf("string", TRUE))}

SmallSchemas == {None,
    Of("object", {"a"}, "a" :> Of("string", {}, NoFields)),
    Of("object", {}, "a" :> Of("object", {"b"}, "b" :> Of("string", {}, NoFields))),
    Of(None, {"a", "b"}, "a" :> Of("date", {}, NoFields) @@ "b" :> Of(None, {"b"}, NoFields)),
    Of("array", {"a"}, "a" :> Of("string", {}, NoFields))}

Artifact == INSTANCE ArtifactGrading WITH
    Keys <- {"a", "b"}, Values <- SmallValues, Schemas <- SmallSchemas, Sections <- {"a", "b"},
    Replies <- {None, "pass", "fail", "down", "no_json"},
    artifact <- s1, schema <- s2, result <- s3

-----------------------------------------------------------------------------
Off3 ==
    /\ s3 = Off /\ s4 = Off /\ s5 = Off /\ s6 = Off /\ s7 = Off /\ s8 = Off
    /\ s9 = Off /\ s10 = Off
Off4 == s4 = Off /\ s5 = Off /\ s6 = Off /\ s7 = Off /\ s8 = Off /\ s9 = Off /\ s10 = Off
Off5 == s5 = Off /\ s6 = Off /\ s7 = Off /\ s8 = Off /\ s9 = Off /\ s10 = Off
Off7 == s7 = Off /\ s8 = Off /\ s9 = Off /\ s10 = Off

Init ==
    \/ part = "funnel" /\ Funnel!Init /\ Off7
    \/ part = "panel" /\ Panel!Init
    \/ part = "paraphrased" /\ Paraphrased!Init
    \/ part = "phrases" /\ Phrases!Init /\ Off3
    \/ part = "all_rules" /\ AllRules!Init /\ Off3
    \/ part = "complete" /\ Complete!Init /\ Off4
    \/ part = "measured" /\ Measured!Init /\ Off4
    \/ part = "beside" /\ Beside!Init /\ Off5
    \/ part = "one_by_one" /\ OneByOne!Init /\ Off5
    \/ part = "artifact" /\ Artifact!Init /\ Off4

Next ==
    \/ part = "funnel" /\ Funnel!Next /\ UNCHANGED <<part, From7>>
    \/ part = "panel" /\ Panel!Next /\ UNCHANGED part
    \/ part = "paraphrased" /\ Paraphrased!Next /\ UNCHANGED part
    \/ part = "phrases" /\ Phrases!Next /\ UNCHANGED <<part, From3>>
    \/ part = "all_rules" /\ AllRules!Next /\ UNCHANGED <<part, From3>>
    \/ part = "complete" /\ Complete!Next /\ UNCHANGED <<part, From4>>
    \/ part = "measured" /\ Measured!Next /\ UNCHANGED <<part, From4>>
    \/ part = "beside" /\ Beside!Next /\ UNCHANGED <<part, From5>>
    \/ part = "one_by_one" /\ OneByOne!Next /\ UNCHANGED <<part, From5>>
    \/ part = "artifact" /\ Artifact!Next /\ UNCHANGED <<part, From4>>

Spec == Init /\ [][Next]_vars

-----------------------------------------------------------------------------
(* What the graders promise; the modules of the graders say it in full.      *)

\* A level is left out exactly when a gate above it failed (_run_level).
GatesCutTheirBranch == part = "funnel" => Funnel!GatesCutTheirBranch

\* A funnel passes without red levels only and names the red ones (FunnelGrader.grade).
VerdictShowsEveryFailure == part = "funnel" => Funnel!VerdictShowsEveryFailure

\* Levels that were gated off do not pull the score (_run_level).
SkippedLevelsDoNotScore == part = "funnel" => Funnel!SkippedLevelsDoNotScore

\* A panel's verdict follows from the judges that voted, whoever failed or abstained
\* (judge_panel_consensus).
VerdictRestsOnVotes ==
    [][ /\ part = "panel" => Panel!RestsOnVotes
        /\ part = "paraphrased" => Paraphrased!RestsOnVotes ]_vars

\* Judging paraphrases never changes the verdict (_counterfactual_variance).
AdviceNeverFlips == [][part = "paraphrased" => Paraphrased!VerdictIsKept]_vars

\* A paraphrase that turns the score around halves the confidence (population_variance).
SwingIsNoticed == part = "paraphrased" => Paraphrased!SwingIsNoticed

\* A better answer is never graded worse (DeterministicGrader.grade).
BetterIsGradedBetter ==
    /\ part = "phrases" => Phrases!BetterIsGradedBetter
    /\ part = "all_rules" => AllRules!BetterIsGradedBetter

\* min_recall excuses missing phrases and nothing else (DeterministicGrader._apply_recall).
RecallExcusesOnlyWords == part = "phrases" => Phrases!RecallExcusesOnlyWords

\* The stages of the breakdown say what the verdict says (DeterministicGrader._build_funnel).
FunnelAgrees ==
    /\ part = "phrases" => Phrases!FunnelAgrees
    /\ part = "all_rules" => AllRules!FunnelAgrees

\* Order and repetition of an answer's elements do not matter (SetMatchGrader.grade).
ListsAreSets == part = "measured" => Measured!ListsAreSets

\* Precision, recall and F1 fit together at every gating mode (SetMatchGrader.grade).
DimensionsAreConsistent ==
    /\ part = "complete" => Complete!DimensionsAreConsistent
    /\ part = "measured" => Measured!DimensionsAreConsistent

\* A set that fails says what is missing or extra (SetMatchGrader.grade).
FailuresAreExplained ==
    /\ part = "complete" => Complete!FailuresAreExplained
    /\ part = "measured" => Measured!FailuresAreExplained

\* Diagnostics never overrule the output grader, hard rules always do (TrajectoryGrader.grade).
OnlyHardRulesOverrule ==
    /\ part = "beside" => Beside!OnlyHardRulesOverrule
    /\ part = "one_by_one" => OneByOne!OnlyHardRulesOverrule

\* The greedy checks of order and loops decide what they are named for (trajectory_checks).
ChecksMeanWhatTheySay ==
    /\ part = "beside" => Beside!ChecksMeanWhatTheySay
    /\ part = "one_by_one" => OneByOne!ChecksMeanWhatTheySay

\* What an agent does later never takes a finding back (trajectory_checks).
BadStaysBad ==
    [][(part = "beside" => Beside!StaysBad) /\ (part = "one_by_one" => OneByOne!StaysBad)]_vars

\* The recursive validator agrees with the schema (_validate_schema).
ValidatorIsRight == part = "artifact" => Artifact!ValidatorIsRight

\* Writing a further section never makes an artifact worse (ArtifactGrader.grade).
WritingHelps == [][part = "artifact" => Artifact!NoWorseByWriting]_vars

\* "it NEVER flips the deterministic verdict" (ArtifactGrader._apply_advisory_judge).
AdviceKeepsTheLabel == [][part = "artifact" => Artifact!AdviceKeepsLabel]_vars

-----------------------------------------------------------------------------
(* Taken together, by what they are about.                                 *)

\* Every grader decides what it is defined to decide: a gate cuts exactly its branch, order and
\* repetition in an answer do not matter, the explanation of a verdict names what made it, and
\* a better answer is never graded worse (FunnelGrader, DeterministicGrader, SetMatchGrader,
\* TrajectoryGrader, ArtifactGrader).
VerdictsAreRight ==
    /\ GatesCutTheirBranch /\ VerdictShowsEveryFailure /\ SkippedLevelsDoNotScore
    /\ BetterIsGradedBetter /\ RecallExcusesOnlyWords /\ FunnelAgrees
    /\ ListsAreSets /\ DimensionsAreConsistent /\ FailuresAreExplained
    /\ OnlyHardRulesOverrule /\ ChecksMeanWhatTheySay /\ ValidatorIsRight
    /\ SwingIsNoticed

\* A verdict moves for a reason only: who judged, not who failed; never for advice or for a
\* paraphrase; what an agent does later takes no finding back, and writing more is not punished
\* (JudgePanelGrader, TrajectoryGrader, ArtifactGrader).
VerdictsAreStable ==
    /\ VerdictRestsOnVotes /\ AdviceNeverFlips /\ AdviceKeepsTheLabel
    /\ BadStaysBad /\ WritingHelps
=============================================================================
