------------------------------ MODULE Sampling ------------------------------
(* Which cases an optimization run evaluates: the holdout is set aside, and   *)
(* the rest is kept whole, thinned at random, or thinned in proportion to the *)
(* features of the cases (optimization/sampling.py).  The random draws are a  *)
(* choice here; what a seed fixes is that the choice is always the same.      *)
EXTENDS Integers, FiniteSets, FiniteSetsExt, Sequences, SequencesExt

CONSTANTS
    Features,       \* numbers: the features in the order of their keys
    PoolBound,      \* bound: cases of one feature
    Parts,          \* the denominator of the fraction kept
    Strategies

VARIABLES
    pool,       \* the non-holdout cases: how many of each feature
    holdout,    \* how many cases are held out
    kept,       \* the numerator of the fraction kept
    strategy,
    selected    \* the selection: how many of each feature, or nothing yet

vars == <<pool, holdout, kept, strategy, selected>>

Nothing == [done |-> FALSE]
Total(counts) == MapThenSumSet(LAMBDA f : counts[f], Features)

Init ==
    /\ pool \in [Features -> 0..PoolBound]
    /\ holdout \in 0..1
    /\ kept \in 0..Parts
    /\ strategy \in Strategies
    /\ selected = Nothing

\* Python rounds a half to the even neighbour.
Round(num, den) ==
    LET q == num \div den
        r == 2 * (num % den)
    IN  IF r > den \/ (r = den /\ q % 2 = 1) THEN q + 1 ELSE q

\* A positive fraction of a pool keeps at least one case of it.
TargetSize ==
    IF Total(pool) = 0 THEN 0
    ELSE LET target == Round(kept * Total(pool), Parts)
         IN  IF kept > 0 /\ target = 0 THEN 1 ELSE target

\* Largest remainders: every feature gets the floor of its share, the seats
\* left over go to the largest remainders, ties to the first key.
Apportion ==
    LET floor == [f \in Features |-> (kept * pool[f]) \div Parts]
        rest(f) == (kept * pool[f]) % Parts
        leftover == TargetSize - Total(floor)
        order == SetToSortSeq({f \in Features : pool[f] > 0},
                    LAMBDA f, g : rest(f) > rest(g) \/ (rest(f) = rest(g) /\ f < g))
        first == {order[i] : i \in 1..(IF leftover > Len(order) THEN Len(order) ELSE leftover)}
    IN  [f \in Features |-> IF f \in first /\ floor[f] < pool[f] THEN floor[f] + 1 ELSE floor[f]]

SelectFull == strategy = "full" /\ selected' = [done |-> TRUE, of |-> pool]

SelectRandom ==
    /\ strategy = "random_subset"
    /\ \E counts \in {c \in [Features -> 0..PoolBound] : \A f \in Features : c[f] <= pool[f]} :
          /\ Total(counts) = TargetSize
          /\ selected' = [done |-> TRUE, of |-> counts]

\* The seats of each feature, topped up from whatever is left.
SelectStratified ==
    /\ strategy = "stratified"
    /\ \E counts \in {c \in [Features -> 0..PoolBound] : \A f \in Features :
                         /\ c[f] <= pool[f]
                         /\ IF TargetSize >= Total(pool) THEN c[f] = pool[f]
                            ELSE IF TargetSize = 0 THEN c[f] = 0 ELSE c[f] >= Apportion[f]} :
          /\ Total(counts) = TargetSize
          /\ selected' = [done |-> TRUE, of |-> counts]

SelectOptimizationSet ==
    /\ selected = Nothing
    /\ SelectFull \/ SelectRandom \/ SelectStratified
    /\ UNCHANGED <<pool, holdout, kept, strategy>>

Next == SelectOptimizationSet
Spec == Init /\ [][Next]_vars

----------------------------------------------------------------------------
(* What a selection promises                                                  *)

Selected == IF selected.done THEN Total(selected.of) ELSE 0

\* The selection has the size that was asked for, and a run over a pool that
\* has cases is not empty unless nothing was asked for (_target_size).
SizeIsAsAsked ==
    selected.done =>
        /\ strategy = "full" => Selected = Total(pool)
        /\ strategy # "full" => 2 * Parts * Selected <= 2 * kept * Total(pool) + 2 * Parts
        /\ strategy # "full" => 2 * Parts * Selected >= 2 * kept * Total(pool) - Parts
        /\ (kept > 0 \/ strategy = "full") /\ Total(pool) > 0 => Selected > 0

\* A thinned selection has, of each feature, its share rounded down or up
\* (_stratified_subset: as close to the fraction as integer counts allow).
SharesAreProportional ==
    selected.done /\ strategy = "stratified" /\ TargetSize > 1 =>
        \A f \in Features :
            /\ Parts * selected.of[f] > kept * pool[f] - Parts
            /\ Parts * selected.of[f] < kept * pool[f] + Parts

\* A thinned selection that is large enough has a case of every feature the
\* pool has (_stratified_subset: still spans every feature present).
\* The code does not keep it: the largest remainders may leave a small feature without a
\* seat.
SpansEveryFeature ==
    /\ selected.done /\ strategy = "stratified"
    /\ Selected >= Cardinality({f \in Features : pool[f] > 0})
    => \A f \in Features : pool[f] > 0 => selected.of[f] > 0
=============================================================================
