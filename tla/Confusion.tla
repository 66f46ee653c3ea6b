----------------------------- MODULE Confusion ------------------------------
(* The classification grader, the cells it leaves in the breakdown of a       *)
(* grade, the confusion matrix that is read back from them, and the           *)
(* calibration of predictions against human labels                            *)
(* (graders/classification.py, graders/_confusion.py, graders/calibration.py).*)
EXTENDS Integers, FiniteSets, FiniteSetsExt, Sequences, SequencesExt

CONSTANTS
    None,
    Classes,       \* [word, upper]: a class as it is written; a word is a sequence of tokens
    Arrow,         \* the token that separates the two classes in the key of a cell
    Folds,         \* is the comparison case-insensitive
    Cases,         \* case ids
    CaseBound      \* bound: graded answers and labelled cases

VARIABLES
    graded,        \* the grades, in the order they were given
    predicted,     \* case -> the class the grader under calibration gave, or None
    human          \* case -> [class, high_risk] of the human label, or None

vars == <<graded, predicted, human>>

Fold(class) == IF Folds THEN [class EXCEPT !.upper = FALSE] ELSE class

----------------------------------------------------------------------------
(* The cells                                                                  *)
\* The words on either side of the arrow; the letters keep their case in the key.
Spelled(class) == [i \in 1..Len(class.word) |-> [token |-> class.word[i], upper |-> class.upper]]
Separator == [token |-> Arrow, upper |-> FALSE]
cell_key(expected, got) == Spelled(expected) \o <<Separator>> \o Spelled(got)

\* str.partition: the key is cut at its first arrow, and a side that is empty is no class.
parse_cell_key(key) ==
    LET at == {i \in 1..Len(key) : key[i].token = Arrow}
    IN  IF at = {} \/ Min(at) = 1 \/ Min(at) = Len(key) THEN None
        ELSE [expected |-> SubSeq(key, 1, Min(at) - 1), got |-> SubSeq(key, Min(at) + 1, Len(key))]

----------------------------------------------------------------------------
(* The grader                                                                 *)

\* No usable prediction and no declared class are failures without a cell; every other verdict
\* leaves one, a correct answer too.
Graded(expected, got) ==
    [expected |-> expected, got |-> got,
     label |-> IF expected # None /\ got # None /\ Fold(expected) = Fold(got) THEN "pass" ELSE "fail",
     cell |-> IF expected = None \/ got = None THEN None
              ELSE cell_key(Fold(expected), Fold(got))]

grade ==
    /\ Len(graded) < CaseBound
    /\ \E expected, got \in Classes \cup {None} : graded' = Append(graded, Graded(expected, got))
    /\ UNCHANGED <<predicted, human>>

\* The pairs of the iteration, read back from the keys.
CellPairs ==
    LET cells == SelectSeq(graded, LAMBDA g : g.cell # None)
        pairs == [i \in 1..Len(cells) |-> parse_cell_key(cells[i].cell)]
    IN  SelectSeq(pairs, LAMBDA p : p # None)

----------------------------------------------------------------------------
(* confusion_from_pairs.  A ratio is [num, den], None when it is undefined.   *)
Count(pairs, Is(_)) == Cardinality({i \in 1..Len(pairs) : Is(pairs[i])})
Ratio(num, den) == IF den = 0 THEN None ELSE [num |-> num, den |-> den]
AtMost(r, s) == r.num * s.den <= s.num * r.den
Plus(r, s) == [num |-> r.num * s.den + s.num * r.den, den |-> r.den * s.den]

labels(pairs) == {pairs[i].expected : i \in 1..Len(pairs)} \cup {pairs[i].got : i \in 1..Len(pairs)}
TruePositives(pairs, l) == Count(pairs, LAMBDA p : p.expected = l /\ p.got = l)
Precision(pairs, l) == Ratio(TruePositives(pairs, l), Count(pairs, LAMBDA p : p.got = l))
Recall(pairs, l) == Ratio(TruePositives(pairs, l), Count(pairs, LAMBDA p : p.expected = l))

\* None as well when precision and recall are both zero.
f1_score(p, r) ==
    IF p = None \/ r = None \/ p.num + r.num = 0 THEN None
    ELSE [num |-> 2 * p.num * r.num, den |-> p.num * r.den + r.num * p.den]

F1(pairs, l) == f1_score(Precision(pairs, l), Recall(pairs, l))

macro_f1(pairs) ==
    LET defined == {l \in labels(pairs) : F1(pairs, l) # None}
        total == FoldLeft(LAMBDA acc, l : Plus(acc, F1(pairs, l)), [num |-> 0, den |-> 1],
                          SetToSeq(defined))
    IN  IF defined = {} THEN None
        ELSE [num |-> total.num, den |-> total.den * Cardinality(defined)]

Correct(pairs) == Count(pairs, LAMBDA p : p.expected = p.got)

----------------------------------------------------------------------------
(* Calibration against people                                                 *)
Predict ==
    /\ \E k \in Cases, c \in Classes : predicted[k] = None /\ predicted' = [predicted EXCEPT ![k] = c]
    /\ UNCHANGED <<graded, human>>

Label ==
    /\ \E k \in Cases, c \in Classes, risk \in BOOLEAN :
          /\ human[k] = None
          /\ human' = [human EXCEPT ![k] = [class |-> c, high_risk |-> risk]]
    /\ UNCHANGED <<graded, predicted>>

\* The two streams are joined on the case id; a case of only one of them is dropped.
Paired == {k \in Cases : predicted[k] # None /\ human[k] # None}

CalibrationPairs ==
    LET ids == SetToSeq(Paired)
    IN  [i \in 1..Len(ids) |-> [expected |-> IF human[ids[i]] = None THEN predicted[ids[i]]
                                             ELSE human[ids[i]].class,
                                got |-> predicted[ids[i]]]]

HighRiskFalseNegatives(positive) ==
    {k \in Paired : /\ human[k].class = positive /\ predicted[k] # positive
                    /\ human[k].high_risk}

Init == graded = <<>> /\ predicted = [k \in Cases |-> None] /\ human = [k \in Cases |-> None]

Next == grade \/ Predict \/ Label

Spec == Init /\ [][Next]_vars

----------------------------------------------------------------------------
(* Properties                                                                 *)
Verdicts == {i \in 1..Len(graded) : graded[i].expected # None /\ graded[i].got # None}

\* Reading the keys back, every verdict on two known classes is one pair of the matrix, in the row
\* of the class that was expected.
MatrixHoldsEveryVerdict ==
    /\ Len(CellPairs) = Cardinality(Verdicts)
    /\ \A c \in Classes :
          Count(CellPairs, LAMBDA p : p.expected = Spelled(Fold(c)))
             = Cardinality({i \in Verdicts : Fold(graded[i].expected) = Fold(c)})

\* The diagonal of the matrix and the labels of the grader tell the same: as many correct pairs as
\* grades that passed.
DiagonalIsThePasses ==
    Correct(CellPairs) = Cardinality({i \in 1..Len(graded) : graded[i].label = "pass"})

\* Every F1 lies between the precision and the recall it is made of, and the macro average
\* between zero and one.
F1IsAMean ==
    \A pairs \in {CellPairs, CalibrationPairs} :
        /\ \A l \in labels(pairs) :
              LET p == Precision(pairs, l)
                  r == Recall(pairs, l)
                  f == F1(pairs, l)
              IN  f # None => \/ AtMost(p, f) /\ AtMost(f, r)
                              \/ AtMost(r, f) /\ AtMost(f, p)
        /\ LET m == macro_f1(pairs) IN m # None => m.num > 0 /\ m.num <= m.den

\* Calibrating looks only at cases that both the grader and a person have labelled.
OnlyJudgedCasesCount ==
    Len(CalibrationPairs) = Cardinality({k \in Cases : predicted[k] # None /\ human[k] # None})

\* The high-risk false negatives are among the misses that lower the recall of the class.
RiskIsPartOfRecall ==
    \A c \in Classes :
        LET r == Recall(CalibrationPairs, c)
        IN  r # None => Cardinality(HighRiskFalseNegatives(c)) <= r.den - r.num

\* A class has an F1 whenever its precision and its recall are defined.
\* The code does not keep it: f1_score is None as well when both are zero.
F1IsDefined ==
    \A l \in labels(CellPairs) :
        Precision(CellPairs, l) # None /\ Recall(CellPairs, l) # None => F1(CellPairs, l) # None

\* The precision and the recall of a class that only one of the two streams names are undefined.
\* The code does not keep it: each ratio has a denominator of its own.
OneSidedIsUndefined ==
    \A l \in labels(CalibrationPairs) :
        \/ (\E k \in Paired : human[k].class = l) /\ (\E k \in Paired : predicted[k] = l)
        \/ Precision(CalibrationPairs, l) = None /\ Recall(CalibrationPairs, l) = None
=============================================================================
