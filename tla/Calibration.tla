---------------------------- MODULE Calibration ----------------------------
(* Verdicts on pairs of outputs, posted in batches by judges that are models  *)
(* or people, and the report of how often the two agree                       *)
(* (runner/pairwise_ops.py, api/pairwise_ops.py).                             *)
EXTENDS Integers, FiniteSets, FiniteSetsExt, Sequences, SequencesExt

CONSTANTS
    Outputs,        \* numbers: the outputs that are compared
    Kept,           \* those whose trace is stored: a verdict may name only them
    Versions,       \* rubric versions, 0 for a verdict that names none
    BothOrders,     \* whether a pair may be posted either way round
    VerdictBound    \* bound of the instance

VARIABLES
    stored,     \* the stored verdicts, in the order they are listed
    batch,      \* the batch in the request, and how much of it is written
    posted      \* the batches that were accepted in full

vars == <<stored, batch, posted>>

NoBatch == [todo |-> <<>>, all |-> <<>>]

Verdict == [a : Outputs, b : Outputs, prefers : {"a", "b", "tie"},
            judge : {"llm", "human"}, version : Versions]
Possible == {v \in Verdict : v.a < v.b \/ (BothOrders /\ v.b < v.a)}

Init == stored = <<>> /\ batch = NoBatch /\ posted = {}

\* Every reference of every verdict resolves.
Validated(verdicts) ==
    \A i \in DOMAIN verdicts : verdicts[i].a \in Kept /\ verdicts[i].b \in Kept

\* The whole batch is validated before any of it is written.
Post ==
    /\ batch = NoBatch
    /\ \E v, w \in Possible, pair \in BOOLEAN :
          LET verdicts == IF pair THEN <<v, w>> ELSE <<v>> IN
          /\ pair \/ v = w
          /\ Len(stored) + Len(verdicts) <= VerdictBound
          /\ Validated(verdicts)
          /\ batch' = [todo |-> verdicts, all |-> verdicts]
    /\ UNCHANGED <<stored, posted>>

Write ==
    /\ batch.todo # <<>>
    /\ stored' = Append(stored, Head(batch.todo))
    /\ batch' = IF Len(batch.todo) = 1 THEN NoBatch ELSE [batch EXCEPT !.todo = Tail(@)]
    /\ posted' = IF Len(batch.todo) = 1 THEN posted \cup {batch.all} ELSE posted

Next == Post \/ Write

Spec == Init /\ [][Next]_vars

----------------------------------------------------------------------------
(* compute_calibration                                                        *)

PairKey(v) == IF v.a <= v.b THEN <<v.a, v.b>> ELSE <<v.b, v.a>>

\* The last verdict of a kind of judge on a pair under a rubric version.
Preferred(key, version, judge) ==
    LET said == {i \in DOMAIN stored : /\ PairKey(stored[i]) = key
                                       /\ stored[i].version = version
                                       /\ stored[i].judge = judge}
    IN  IF said = {} THEN "none" ELSE stored[Max(said)].prefers

Keys == {PairKey(stored[i]) : i \in DOMAIN stored}

Compared == {kv \in Keys \X Versions :
    Preferred(kv[1], kv[2], "llm") # "none" /\ Preferred(kv[1], kv[2], "human") # "none"}
Agreements == {kv \in Compared :
    Preferred(kv[1], kv[2], "llm") = Preferred(kv[1], kv[2], "human")}

----------------------------------------------------------------------------
(* What the report promises                                                   *)

\* The output a verdict prefers, 0 for a tie.
Winner(v) == IF v.prefers = "tie" THEN 0 ELSE IF v.prefers = "a" THEN v.a ELSE v.b
LastOf(pair, version, judge) ==
    LET said == {i \in DOMAIN stored : /\ {stored[i].a, stored[i].b} = pair
                                       /\ stored[i].version = version
                                       /\ stored[i].judge = judge}
    IN  IF said = {} THEN -1 ELSE Winner(stored[Max(said)])

\* A pair a model and a person judged under one rubric is compared once, in
\* whichever order it was shown to each (_pair_key: so that A/B order does not
\* split a pair).
OrderDoesNotSplitAPair ==
    Cardinality(Compared) =
        Cardinality({x \in {{p, q} : p, q \in Outputs} \X Versions :
            LastOf(x[1], x[2], "llm") # -1 /\ LastOf(x[1], x[2], "human") # -1})

\* Two judges agree exactly when they prefer the same output, in whichever
\* order it was shown to each (compute_calibration).
AgreementIsAboutTheOutput ==
    Cardinality(Agreements) =
        Cardinality({x \in {{p, q} : p, q \in Outputs} \X Versions :
            /\ LastOf(x[1], x[2], "llm") # -1
            /\ LastOf(x[1], x[2], "llm") = LastOf(x[1], x[2], "human")})

\* A pair judged by both a model and a person is compared (compute_calibration:
\* for every pair judged by both).
JudgedByBothIsCompared ==
    \A i, j \in DOMAIN stored :
        /\ stored[i].judge = "llm" /\ stored[j].judge = "human"
        /\ PairKey(stored[i]) = PairKey(stored[j])
        => \E kv \in Compared : kv[1] = PairKey(stored[i])

\* What is stored belongs to batches that were accepted or are being written,
\* and names only outputs there are (ingest_verdicts: nothing is written when a
\* reference is unknown).
BatchIsAllOrNothing ==
    \A i \in DOMAIN stored :
        /\ {stored[i].a, stored[i].b} \subseteq Kept
        /\ \E verdicts \in posted \cup {batch.all} :
              /\ stored[i] \in ToSet(verdicts)
              /\ \A k \in DOMAIN verdicts : {verdicts[k].a, verdicts[k].b} \subseteq Kept
=============================================================================
