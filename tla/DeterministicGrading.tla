------------------------ MODULE DeterministicGrading ------------------------
(* The deterministic grader (graders/deterministic.py): what a case declares *)
(* against two responses of its repetitions.  A response is the words its    *)
(* text contains, the tools its trace invoked, whether the regex of the      *)
(* grader matches, and its structured output.                                *)
EXTENDS Integers, Sequences, FiniteSets

CONSTANTS
    Words, Tools,
    Labels,     \* structured outputs that are class labels
    Recalls,    \* min_recall values a case may have, in percent, or None
    HasRegex,   \* whether the grader has a regex
    Rich,       \* a structured output that is no class label
    None

VARIABLES
    case,       \* what the case expects
    responses   \* the responses graded so far: none, one or two

vars == <<case, responses>>

Outputs == Labels \cup {Rich, None}

Cases == [include : SUBSET Words, exclude : SUBSET Words, required : SUBSET Tools,
          forbidden : SUBSET Tools, output : Outputs, min_recall : Recalls]

Responses == [words : SUBSET Words, tools : SUBSET Tools,
              regex : IF HasRegex THEN BOOLEAN ELSE {FALSE}, output : Outputs]

-----------------------------------------------------------------------------
_class_label(value) == IF value \in Labels THEN value ELSE None

OutputViolation(expected, actual) ==
    IF expected = None \/ actual = expected THEN {}
    ELSE IF _class_label(actual) # None /\ _class_label(expected) # None
         THEN {<<"misclassified", <<actual, expected>>>>}
         ELSE {<<"structured_output_mismatch", None>>}

Missing(c, r) == {<<"missing_required_substring", w>> : w \in c.include \ r.words}

(* The violations that recall never excuses.                                 *)
Hard(c, r) ==
    {<<"forbidden_substring", w>> : w \in c.exclude \cap r.words}
        \cup {<<"missing_required_tool", t>> : t \in c.required \ r.tools}
        \cup {<<"forbidden_tool_invoked", t>> : t \in c.forbidden \cap r.tools}
        \cup {v \in {<<"regex_mismatch", None>>} : HasRegex /\ ~r.regex}
        \cup OutputViolation(c.output, r.output)

_collect_violations(c, r) == Missing(c, r) \cup Hard(c, r)

ByRecall(c) == c.min_recall # None /\ c.include # {}

(* recall * 100 >= min_recall, without the division.                         *)
RecallPasses(c, r) ==
    100 * Cardinality(c.include \cap r.words) >= c.min_recall * Cardinality(c.include)

Passes(c, r) ==
    IF ByRecall(c) THEN RecallPasses(c, r) /\ Hard(c, r) = {}
    ELSE _collect_violations(c, r) = {}

(* The funnel: one branch per list of the case, one leaf per item.           *)
Leaves(c, r) ==
    LET Leaf(dimension, mode, items) ==
            {[dimension |-> dimension, mode |-> mode, item |-> i,
              pass |-> <<mode, i>> \notin _collect_violations(c, r)] : i \in items}
    IN  Leaf("must_include", "missing_required_substring", c.include)
            \cup Leaf("must_not_include", "forbidden_substring", c.exclude)
            \cup Leaf("required_tools", "missing_required_tool", c.required)
            \cup Leaf("forbidden_tools", "forbidden_tool_invoked", c.forbidden)

_build_breakdown(c, r) ==
    {[key |-> d, pass |-> \A l \in {k \in Leaves(c, r) : k.dimension = d} : l.pass] :
        d \in {k.dimension : k \in Leaves(c, r)}}

(* The score is a count of the items found in recall mode, and all or        *)
(* nothing otherwise.                                                        *)
grade(c, r) ==
    [label |-> IF Passes(c, r) THEN "pass" ELSE "fail",
     score |-> IF ByRecall(c) THEN Cardinality(c.include \cap r.words)
               ELSE IF Passes(c, r) THEN 1 ELSE 0,
     modes |-> {v[1] : v \in _collect_violations(c, r)},
     breakdown |-> _build_breakdown(c, r)]

-----------------------------------------------------------------------------
Init == case \in Cases /\ responses = <<>>

(* A repetition answers and is graded.                                       *)
Repetition(r) ==
    /\ Len(responses) < 2 /\ responses' = Append(responses, r) /\ UNCHANGED case

Next == \E r \in Responses : Repetition(r)

Spec == Init /\ [][Next]_vars

-----------------------------------------------------------------------------
(* Properties.                                                               *)

Grades == {grade(case, responses[i]) : i \in DOMAIN responses}

(* What a better answer is, from the case alone.                             *)
NoWorse(a, b) ==
    /\ b.words \cap case.include \subseteq a.words
    /\ a.words \cap case.exclude \subseteq b.words
    /\ b.tools \cap case.required \subseteq a.tools
    /\ a.tools \cap case.forbidden \subseteq b.tools
    /\ b.regex => a.regex
    /\ b.output = case.output => a.output = case.output

(* A response that is no worse in any expectation is graded no worse: recall *)
(* mode, the rules it never excuses and the score are monotone.              *)
BetterIsGradedBetter ==
    \A i, j \in DOMAIN responses :
        NoWorse(responses[i], responses[j])
            => LET a == grade(case, responses[i])  b == grade(case, responses[j]) IN
               a.score >= b.score /\ (b.label = "pass" => a.label = "pass")

(* "even if recall passes, any hard violation makes the grade FAIL".         *)
RecallExcusesOnlyWords ==
    \A i \in DOMAIN responses :
        (grade(case, responses[i]).label = "pass") =>
            grade(case, responses[i]).modes \subseteq {"missing_required_substring"}

(* A drill-down does not contradict the verdict: outside recall mode no leaf *)
(* fails under a pass, and a leaf that fails has its mode among the grade's. *)
FunnelAgrees ==
    \A i \in DOMAIN responses :
        LET g == grade(case, responses[i]) IN
        /\ (g.label = "pass" /\ ~ByRecall(case)) => \A b \in g.breakdown : b.pass
        /\ \A l \in Leaves(case, responses[i]) : ~l.pass => l.mode \in g.modes
        /\ \A b \in g.breakdown : ~b.pass => g.modes # {}

(* "one branch per rule dimension the case actually declares": a fail shows  *)
(* in the funnel of a case that declares something.                          *)
(* The code does not keep it: the structured output has no branch.           *)
FailShowsInFunnel ==
    \A g \in Grades : g.label = "fail" => \E b \in g.breakdown : ~b.pass

(* A grader asked for a contradiction raises instead of grading ("Raised if  *)
(* the grader is asked to evaluate a contradictory rule set").               *)
(* The code does not keep it: nothing raises the error the module declares.  *)
ContradictionsAreNotGraded ==
    (case.include \cap case.exclude # {} \/ case.required \cap case.forbidden # {})
        => Grades = {}
=============================================================================
