------------------------------- MODULE Funnel -------------------------------
(* A funnel over one case (graders/funnel.py): a tree of levels, each scored  *)
(* by a grader of its own, one after the other and parents first.  A gate     *)
(* that fails takes its descendants out; the levels that ran are folded into  *)
(* one verdict and one tree.                                                  *)
EXTENDS Integers, FiniteSets, FiniteSetsExt, Sequences, SequencesExt

CONSTANTS
    Levels,         \* numbers, in the order the levels are declared, depth first
    Trees,          \* the trees of this instance: functions of a level to its parent, 0 above all
    Results         \* the labels a level's grader may return

VARIABLES
    parent, gate,   \* the tree, and the set of its gates
    named,          \* levels that declare a failure mode
    todo,           \* the levels still to visit, depth first
    node,           \* the node of each level in the breakdown tree
    verdict

vars == <<parent, gate, named, todo, node, verdict>>

NoGrade == [label |-> "none", weight |-> 0, modes |-> {}]
Failing == {"fail", "error"}
ScoreOf == [pass |-> 2, partial |-> 1, fail |-> 0]

RECURSIVE Ancestors(_)
Ancestors(l) == IF parent[l] = 0 THEN {} ELSE {parent[l]} \cup Ancestors(parent[l])
Children(l) == {c \in Levels : parent[c] = l}
InOrder(S) == SetToSortSeq(S, LAMBDA a, b : a < b)

Init ==
    /\ parent \in Trees
    /\ gate \in SUBSET Levels
    /\ named \in {{}, Levels}
    /\ todo = InOrder({l \in Levels : parent[l] = 0})
    /\ node = [l \in Levels |-> NoGrade]
    /\ verdict = NoGrade

----------------------------------------------------------------------------
(* Levels                                                                     *)

\* The failure modes of a level that failed: its own, else its grader's, else
\* one made of its key.
LevelFailureModes(l, label, reported) ==
    IF label \notin Failing THEN {}
    ELSE IF l \in named THEN {<<"declared", l>>}
    ELSE IF reported THEN {<<"grader", l>>} ELSE {<<"key", l>>}

EvaluatedNode(l, label, reported) ==
    [label |-> label, weight |-> 1, modes |-> LevelFailureModes(l, label, reported)]
SkippedNode == [label |-> "skipped", weight |-> 0, modes |-> {}]

Descendants(l) == {d \in Levels : l \in Ancestors(d)}

\* Slip: a gate that could not be graded lets its descendants run.
RunLevelFailOnly ==
    /\ todo # <<>>
    /\ LET l == Head(todo) IN
       \E label \in Results, reported \in BOOLEAN :
          IF l \in gate /\ label = "fail"
          THEN /\ node' = [x \in Levels |-> IF x = l THEN EvaluatedNode(l, label, reported)
                            ELSE IF x \in Descendants(l) THEN SkippedNode ELSE node[x]]
               /\ todo' = Tail(todo)
          ELSE /\ node' = [node EXCEPT ![l] = EvaluatedNode(l, label, reported)]
               /\ todo' = InOrder(Children(l)) \o Tail(todo)
    /\ UNCHANGED <<parent, gate, named, verdict>>

\* One level is graded (a grader that raises is an error).  Its children are
\* next, unless it is a gate that failed: then all below it is skipped.
RunLevel ==
    /\ todo # <<>>
    /\ LET l == Head(todo) IN
       \E label \in Results, reported \in BOOLEAN :
          IF l \in gate /\ label \in Failing
          THEN /\ node' = [x \in Levels |-> IF x = l THEN EvaluatedNode(l, label, reported)
                            ELSE IF x \in Descendants(l) THEN SkippedNode ELSE node[x]]
               /\ todo' = Tail(todo)
          ELSE /\ node' = [node EXCEPT ![l] = EvaluatedNode(l, label, reported)]
               /\ todo' = InOrder(Children(l)) \o Tail(todo)
    /\ UNCHANGED <<parent, gate, named, verdict>>

----------------------------------------------------------------------------
(* The verdict                                                                *)

Evaluated == {l \in Levels : node[l].weight = 1}
LabelsOf(S) == {node[l].label : l \in S}

GlobalVerdict ==
    LET seen == LabelsOf(Evaluated)
    IN  IF "error" \in seen THEN "error" ELSE IF "fail" \in seen THEN "fail" ELSE "pass"

\* The mean of the scored levels that ran, as a pair of sum and count.
GlobalScore ==
    LET scored == {l \in Evaluated : node[l].label \in DOMAIN ScoreOf}
    IN  <<MapThenSumSet(LAMBDA l : ScoreOf[node[l].label], scored), Cardinality(scored)>>

Grade ==
    /\ todo = <<>> /\ verdict = NoGrade
    /\ verdict' = [label |-> GlobalVerdict, score |-> GlobalScore,
                   modes |-> UNION {node[l].modes : l \in Evaluated}]
    /\ UNCHANGED <<parent, gate, named, todo, node>>

Next == RunLevel \/ Grade
Spec == Init /\ [][Next]_vars

----------------------------------------------------------------------------
(* What a funnel promises                                                     *)

Graded == verdict # NoGrade
GatedOff(l) == \E a \in Ancestors(l) : a \in gate /\ node[a].label \in Failing

\* In the graded tree every level has its node, and it was left out exactly
\* when a gate above it failed or could not be graded (_run_level).
GatesCutTheirBranch ==
    Graded => \A l \in Levels :
        /\ node[l] # NoGrade
        /\ node[l].weight = 0 <=> GatedOff(l)

\* A funnel that passes has no red level anywhere in its tree, and one that
\* does not pass names a failure mode of a level that is red (FunnelGrader.grade).
VerdictShowsEveryFailure ==
    Graded =>
        LET red == {l \in Levels : node[l].label \in Failing}
        IN  /\ verdict.label = "pass" <=> red = {}
            /\ \A l \in red : \E m \in verdict.modes : m[2] = l
            /\ \A m \in verdict.modes : m[2] \in red

\* Levels that were gated off do not pull the score: a funnel whose graded
\* levels all passed but one scores what those levels alone would
\* (_run_level: contribute nothing to the score or verdict).
SkippedLevelsDoNotScore ==
    Graded /\ (\A l \in Evaluated : node[l].label \in {"pass", "fail"}) =>
        LET passed == Cardinality({l \in Evaluated : node[l].label = "pass"})
        IN  verdict.score[1] * Cardinality(Evaluated) = 2 * passed * verdict.score[2]

\* What a gate guards is graded only when the gate passed (docs: only graded
\* if finder passed).
\* The code does not keep it: only a fail or an error closes a gate.
GuardedNeedsAPass ==
    \A l \in Evaluated : \A a \in Ancestors(l) \cap gate : node[a].label = "pass"
=============================================================================
