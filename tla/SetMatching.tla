---------------------------- MODULE SetMatching -----------------------------
(* The grader of detected against expected sets (graders/set_match.py) and   *)
(* the path it reads the detected list with (graders/_select.py).  Scores    *)
(* are fractions: f1 = 2PR/(P + R) is 2|D n E| / (|D| + |E|) when something  *)
(* matches.                                                                  *)
EXTENDS Integers, Sequences, FiniteSets, SequencesExt

CONSTANTS
    Labels,         \* labels as an agent or a case writes them
    Fold,           \* label -> the label in lower case
    Aliases,        \* alias tables a case may have: functions from some labels
    CaseSensitive,
    Gating,         \* "completeness", "precision", "recall" or "f1"
    Threshold,      \* in percent
    MaxItems,       \* bound: items of a response and of its detected list
    None

VARIABLES
    case,           \* [expected, aliases]
    response,       \* the elements under the path, or None: not a list
    result          \* the grade, or None

vars == <<case, response, result>>

Fraction(n, d) == [num |-> n, den |-> d]
AtLeast(f, percent) == 100 * f.num >= percent * f.den
LessEq(f, g) == f.num * g.den <= g.num * f.den

-----------------------------------------------------------------------------
(* The path `items[].label`: elements that are no dict, lack the key or have *)
(* a null there are dropped; a value that is no string spoils the list.      *)
NotADict == [dict |-> FALSE, label |-> None]
Element(label) == [dict |-> TRUE, label |-> label]
Number == "<number>"     \* stands for a value that is no string

select(root) ==
    IF root = None THEN None
    ELSE LET kept == SelectSeq(root, LAMBDA e : e.dict /\ e.label # None) IN
         [i \in DOMAIN kept |-> kept[i].label]

select_str_list(root) ==
    LET value == select(root) IN
    IF value = None \/ Number \in ToSet(value) THEN None ELSE value

(* The alias of the label as written, then folded.                           *)
_normalize(item, aliases) ==
    LET mapped == IF item \in DOMAIN aliases THEN aliases[item] ELSE item IN
    IF CaseSensitive THEN mapped ELSE Fold[mapped]

Normalized(items, aliases) == [i \in DOMAIN items |-> _normalize(items[i], aliases)]

_compute_scores(detected, expected) ==
    LET D == ToSet(detected)  E == ToSet(expected)  n == Cardinality(D \cap E)
        completeness == IF E = {} THEN Fraction(1, 1) ELSE Fraction(n, Cardinality(E))
    IN  [completeness |-> completeness,
         precision |-> IF D = {} THEN Fraction(1, 1) ELSE Fraction(n, Cardinality(D)),
         recall |-> completeness,
         f1 |-> IF D = {} /\ E = {} THEN Fraction(1, 1)
                ELSE IF n = 0 THEN Fraction(0, 1)
                     ELSE Fraction(2 * n, Cardinality(D) + Cardinality(E))]

_collect_failure_modes(detected, expected) ==
    (IF ToSet(expected) \ ToSet(detected) # {} THEN {"missing"} ELSE {})
        \cup (IF ToSet(detected) \ ToSet(expected) # {} THEN {"extraneous"} ELSE {})

(* One leaf per item of each list.                                           *)
_element_leaves(items, counterpart) ==
    [i \in DOMAIN items |-> [key |-> items[i], pass |-> items[i] \in ToSet(counterpart)]]

(* The branches of the funnel that have leaves.                              *)
_build_breakdown(scores, detected, expected) ==
    {[key |-> "completeness", pass |-> AtLeast(scores.completeness, 100),
      leaves |-> _element_leaves(expected, detected)],
     [key |-> "precision", pass |-> AtLeast(scores.precision, 100),
      leaves |-> _element_leaves(detected, expected)]}

NoUsableList == [label |-> "fail", score |-> Fraction(0, 1), modes |-> {"no_detected"},
                 breakdown |-> {}]

grade(c, root) ==
    LET raw == select_str_list(root) IN
    IF raw = None THEN NoUsableList
    ELSE LET detected == Normalized(raw, c.aliases)
             expected == Normalized(c.expected, c.aliases)
             scores == _compute_scores(detected, expected)
             passed == AtLeast(scores[Gating], Threshold)
         IN  [label |-> IF passed THEN "pass" ELSE "fail",
              score |-> scores[Gating],
              modes |-> IF passed THEN {} ELSE _collect_failure_modes(detected, expected),
              breakdown |-> _build_breakdown(scores, detected, expected)]

-----------------------------------------------------------------------------
Lists(S) == UNION {[1..n -> S] : n \in 0..MaxItems}

Init ==
    /\ case \in [expected : Lists(Labels), aliases : Aliases]
    /\ response = <<>> /\ result = None

(* The agent writes its structured output element by element, or no list.    *)
Write(e) ==
    /\ result = None /\ response # None /\ Len(response) < MaxItems
    /\ response' = Append(response, e) /\ UNCHANGED <<case, result>>

NoList == result = None /\ response = <<>> /\ response' = None /\ UNCHANGED <<case, result>>

Grade == result = None /\ result' = grade(case, response) /\ UNCHANGED <<case, response>>

Next ==
    \/ \E l \in Labels \cup {Number, None} : Write(Element(l))
    \/ Write(NotADict)
    \/ NoList \/ Grade

Spec == Init /\ [][Next]_vars

-----------------------------------------------------------------------------
(* Properties.                                                               *)

Graded == result # None
Read == select_str_list(response)
Detected == Normalized(Read, case.aliases)
Expected == Normalized(case.expected, case.aliases)
Scores == _compute_scores(Detected, Expected)

(* Lists stand for sets: neither a repetition nor the order of what was      *)
(* detected, nor elements without a label, change score, label or modes.     *)
ListsAreSets ==
    (Graded /\ response # None) =>
        LET again == grade(case, response \o Reverse(response) \o <<NotADict>>) IN
        again.label = result.label /\ again.modes = result.modes
            /\ LessEq(again.score, result.score) /\ LessEq(result.score, again.score)

(* Exchanging the two lists exchanges precision and completeness, and f1     *)
(* lies between them.                                                        *)
DimensionsAreConsistent ==
    (Graded /\ Read # None) =>
        LET back == _compute_scores(Expected, Detected)
            least == IF LessEq(Scores.precision, Scores.recall) THEN Scores.precision
                     ELSE Scores.recall
        IN  /\ back.precision = Scores.completeness /\ back.completeness = Scores.precision
            /\ back.f1 = Scores.f1
            /\ (least.num > 0 \/ Scores.f1.num > 0) => LessEq(least, Scores.f1)
            /\ LessEq(Scores.f1, Fraction(1, 1))
            /\ Scores.f1.num = Scores.f1.den <=> ToSet(Detected) = ToSet(Expected)

(* A grade that fails says why, with the side that is wrong, and the leaves  *)
(* of the funnel are the evidence.                                           *)
FailuresAreExplained ==
    (Graded /\ result.label = "fail") =>
        /\ result.modes # {}
        /\ "missing" \in result.modes =>
               \E b \in result.breakdown : b.key = "completeness" /\ ~b.pass
                    /\ \E i \in DOMAIN b.leaves : ~b.leaves[i].pass
        /\ "extraneous" \in result.modes =>
               \E b \in result.breakdown : b.key = "precision" /\ ~b.pass
                    /\ \E i \in DOMAIN b.leaves : ~b.leaves[i].pass

(* A response that has the expected labels, but for their case, passes a     *)
(* grader that ignores case ("so comparison is consistent across both sets").            *)
(* The code does not keep it: the alias is looked up with the label as       *)
(* written and only then folded.                                             *)
CaseIsIgnored ==
    (/\ Graded /\ Read # None /\ ~CaseSensitive
     /\ {Fold[x] : x \in ToSet(Read)} = {Fold[x] : x \in ToSet(case.expected)})
        => result.label = "pass"
=============================================================================
