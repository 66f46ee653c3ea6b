------------------------------ MODULE Compare ------------------------------
(* reporter/compare.py: the comparison of two iteration records that the     *)
(* command line, the HTTP bridge and the arena share.  A record has nested   *)
(* parameters, metrics by name, counted failure modes and a tree of funnel   *)
(* nodes.  Names are strings, a path is a sequence of names; a reader picks  *)
(* any two records and reads both directions.                                *)
EXTENDS Integers, Sequences, FiniteSets, SequencesExt, FiniteSetsExt, Functions

CONSTANTS
    Records,  \* the iteration records that are compared
    None

(* A record:                                                                 *)
(*   params   name -> a value or [children |-> names -> values]              *)
(*   metrics  None (the iteration has not completed) or                      *)
(*            [primary |-> [name, value], guardrails |-> <<[name, value]..>>,*)
(*             reliability |-> name -> value, modes |-> mode -> count,       *)
(*             funnel |-> name -> [score, children |-> name -> score]]       *)

VARIABLES a, b   \* the records compared, None before the first comparison

vars == <<a, b>>

Get(f, k) == IF k \in DOMAIN f THEN f[k] ELSE None

Diff(v, w) == IF v = None \/ w = None THEN None ELSE w - v

Nested(v) == DOMAIN v = {"children"}

(* Leaves by their path; a group without leaves has no path.                 *)
flatten(params) ==
    LET leaves == {<<k>> : k \in {j \in DOMAIN params : ~Nested(params[j])}}
        nested == UNION {{<<k, c>> : c \in DOMAIN params[k].children} :
                            k \in {j \in DOMAIN params : Nested(params[j])}}
    IN [p \in leaves \cup nested |->
          IF Len(p) = 1 THEN params[p[1]].value ELSE params[p[1]].children[p[2]]]

(* A parameter changed when dict.get differs: a missing one reads as null.   *)
compute_proposal_diff(x, y) ==
    LET f == flatten(x.params)  g == flatten(y.params)
    IN [p \in DOMAIN f \cup DOMAIN g |->
          [a |-> IF p \in DOMAIN f THEN <<f[p]>> ELSE <<>>,
           b |-> IF p \in DOMAIN g THEN <<g[p]>> ELSE <<>>,
           changed |-> Get(f, p) # Get(g, p)]]

(* Later groups take the place of earlier ones of the same name.             *)
metrics_map(x) ==
    IF x.metrics = None THEN <<>>
    ELSE LET m == x.metrics
             guards == {g.name : g \in Range(m.guardrails)}
             names == {m.primary.name} \cup guards \cup DOMAIN m.reliability
         IN [n \in names |->
               IF n \in DOMAIN m.reliability THEN m.reliability[n]
               ELSE IF n \in guards THEN (CHOOSE g \in Range(m.guardrails) : g.name = n).value
               ELSE m.primary.value]

Rows(f, g) ==
    [n \in DOMAIN f \cup DOMAIN g |->
        [a |-> Get(f, n), b |-> Get(g, n), delta |-> Diff(Get(f, n), Get(g, n))]]

compute_metrics_diff(x, y) == Rows(metrics_map(x), metrics_map(y))

modes(x) == IF x.metrics = None THEN <<>> ELSE x.metrics.modes

compute_failure_modes(x, y) ==
    [only_a |-> Restrict(modes(x), DOMAIN modes(x) \ DOMAIN modes(y)),
     only_b |-> Restrict(modes(y), DOMAIN modes(y) \ DOMAIN modes(x)),
     common |-> [k \in DOMAIN modes(x) \cap DOMAIN modes(y) |-> <<modes(x)[k], modes(y)[k]>>]]

(* The scored nodes by their path; a node that only has labels is left out   *)
(* and the nodes below it are not.                                           *)
funnel_map(x) ==
    IF x.metrics = None THEN <<>>
    ELSE LET tree == x.metrics.funnel
             tops == {<<k>> : k \in {j \in DOMAIN tree : tree[j].score # None}}
             subs == UNION {{<<k, c>> : c \in DOMAIN tree[k].children} : k \in DOMAIN tree}
         IN [p \in tops \cup {q \in subs : tree[q[1]].children[q[2]] # None} |->
               IF Len(p) = 1 THEN tree[p[1]].score ELSE tree[p[1]].children[p[2]]]

compute_funnel_diff(x, y) == Rows(funnel_map(x), funnel_map(y))

NoWinner(kind, delta) == [kind |-> kind, winner |-> None, delta |-> delta, new_modes |-> {}]

(* The higher primary value wins, with the modes only the winner has.        *)
compute_recommendation(x, y) ==
    LET p == x.metrics.primary  q == y.metrics.primary
    IN CASE x.metrics = None \/ y.metrics = None -> NoWinner("none", None)
         [] p.name # q.name -> NoWinner("different_metric", None)
         [] p.value = q.value -> NoWinner("tie", 0)
         [] OTHER ->
              LET winner == IF q.value > p.value THEN y ELSE x
                  loser  == IF q.value > p.value THEN x ELSE y
              IN [kind |-> "winner", winner |-> IF q.value > p.value THEN "B" ELSE "A",
                  delta |-> q.value - p.value,
                  new_modes |-> DOMAIN modes(winner) \ DOMAIN modes(loser)]

compute_compare(x, y) ==
    [proposal_diff |-> compute_proposal_diff(x, y), metrics_diff |-> compute_metrics_diff(x, y),
     failure_modes |-> compute_failure_modes(x, y), funnel_diff |-> compute_funnel_diff(x, y),
     recommendation |-> compute_recommendation(x, y)]

-----------------------------------------------------------------------------

Init == a = None /\ b = None

(* The same experiment for the HTTP route, any two records for the arena.    *)
load_compare(x, y) == a' = x /\ b' = y

Next == \E x, y \in Records : load_compare(x, y)

Spec == Init /\ [][Next]_vars

-----------------------------------------------------------------------------

Negated(d) == IF d = None THEN None ELSE -d

Mirror(rows) == [n \in DOMAIN rows |->
                    [a |-> rows[n].b, b |-> rows[n].a, delta |-> Negated(rows[n].delta)]]

Compared == a # None

(* Reading the comparison the other way round gives the mirrored tables and  *)
(* the same advice: nothing in it depends on which record is called A.       *)
SwapIsMirror ==
    Compared =>
       LET there == compute_compare(a, b)  back == compute_compare(b, a)
           verdict == there.recommendation  other == back.recommendation
       IN /\ back.metrics_diff = Mirror(there.metrics_diff)
          /\ back.funnel_diff = Mirror(there.funnel_diff)
          /\ back.failure_modes.only_a = there.failure_modes.only_b
          /\ \A p \in DOMAIN there.proposal_diff :
                back.proposal_diff[p].changed = there.proposal_diff[p].changed
          /\ other.kind = verdict.kind /\ other.new_modes = verdict.new_modes
          /\ other.delta = Negated(verdict.delta)
          /\ verdict.kind = "winner" => other.winner # verdict.winner

(* The advice is what the tables show: its delta is the row of the primary   *)
(* metric, and the new failure modes it names are those the table lists for  *)
(* the winner only.                                                          *)
AdviceIsInTheTables ==
    Compared =>
       LET c == compute_compare(a, b)  verdict == c.recommendation
       IN verdict.kind = "winner" =>
             /\ c.metrics_diff[a.metrics.primary.name].delta = verdict.delta
             /\ verdict.new_modes = IF verdict.winner = "A" THEN DOMAIN c.failure_modes.only_a
                                    ELSE DOMAIN c.failure_modes.only_b

ScoredNodes(x) ==
    IF x.metrics = None THEN {}
    ELSE {<<k, c>> \in {<<k, c>> : k \in DOMAIN x.metrics.funnel,
                                   c \in UNION {DOMAIN x.metrics.funnel[j].children :
                                                   j \in DOMAIN x.metrics.funnel}} :
             /\ c \in DOMAIN x.metrics.funnel[k].children
             /\ x.metrics.funnel[k].children[c] # None}

(* A scored node of either tree has a row, also under a node without a       *)
(* score: a drill-down does not lose its leaves.                             *)
ScoredNodesHaveRows ==
    Compared => ScoredNodes(a) \cup ScoredNodes(b) \subseteq DOMAIN compute_funnel_diff(a, b)

(* A row whose sides differ is marked as changed.                            *)
(* The code does not keep it: a missing parameter and a null one differ in   *)
(* the row and not for the mark.                                             *)
ChangedIsMarked ==
    Compared => \A p \in DOMAIN compute_proposal_diff(a, b) :
                   LET row == compute_proposal_diff(a, b)[p]
                   IN row.changed = (row.a # row.b)
=============================================================================
