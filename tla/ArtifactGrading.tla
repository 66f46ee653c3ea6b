-------------------------- MODULE ArtifactGrading ---------------------------
(* The grader of artifacts (graders/artifact.py).  An agent fills the        *)
(* sections of a structured artifact; the grader validates it against a      *)
(* subset of JSON Schema, counts the required sections and may ask a judge   *)
(* for advice.  A value is [type, empty, fields]; fields maps the keys of an *)
(* object to values.                                                         *)
EXTENDS Integers, Sequences, FiniteSets

CONSTANTS
    Keys,       \* keys of the artifact
    Values,     \* values an agent may write under a key
    Schemas,    \* output_schema: [type, required, properties], or None
    Sections,   \* required_sections of the case
    Replies,    \* what the model behind the judge may do, or None: no judge
    None

VARIABLES
    artifact,   \* the artifact so far, an object
    schema,     \* the schema of the case
    result      \* the last grade, or None

vars == <<artifact, schema, result>>

-----------------------------------------------------------------------------
Unmodelled == {"date"}  \* types that the subset does not know

_type_matches(value, type) == type \in Unmodelled \/ value.type = type

(* A value of the wrong type ends the descent.                               *)
RECURSIVE _validate_schema(_, _, _)
_validate_schema(value, s, path) ==
    IF s.type # None /\ ~_type_matches(value, s.type) THEN {<<path, "type">>}
    ELSE IF value.type # "object" THEN {}
    ELSE {<<path, k>> : k \in s.required \ DOMAIN value.fields}
            \cup UNION {_validate_schema(value.fields[k], s.properties[k], Append(path, k)) :
                           k \in (DOMAIN s.properties) \cap (DOMAIN value.fields)}

(* Numbers and booleans are never empty, null always is.                     *)
_is_non_empty_value(v) == v.type # "null" /\ ~v.empty

Present(a) ==
    {k \in Sections : k \in DOMAIN a.fields /\ _is_non_empty_value(a.fields[k])}

Errors(a, s) == IF s = None THEN {} ELSE _validate_schema(a, s, <<>>)

_is_empty_artifact(a) == DOMAIN a.fields = {}

(* The children of the breakdown: a leaf per section, and the advice.        *)
Children(a, verdict, sections) ==
    {[key |-> k, pass |-> k \in Present(a), weight |-> 1] : k \in sections}
        \cup (IF verdict = None THEN {}
              ELSE {[key |-> "quality", pass |-> verdict = "pass", weight |-> 0]})

_result(label, score, children) == [label |-> label, score |-> score, children |-> children]

(* graders/llm_judge.py: a reply that cannot be parsed is an error grade,    *)
(* but float() of a score that is a list or an object raises TypeError,      *)
(* which the handler of ValueError lets pass.                                *)
_parse_judge_output(reply) ==
    CASE reply \in {"pass", "fail"} -> reply
      [] reply = "no_json" -> "ValueError"
      [] reply = "odd_score" -> "TypeError"

LLMJudge(reply) ==
    IF reply = None THEN None
    ELSE IF reply = "down" \/ _parse_judge_output(reply) = "ValueError" THEN "error"
    ELSE _parse_judge_output(reply)

NoGrade == _result("none", 0, {})

(* The judge is asked first, on every path, and nothing catches what it      *)
(* raises: neither this grader nor the gathering of the grades of a case     *)
(* (optimization/scenario_exec.py).                                          *)
grade(a, s, reply) ==
    LET verdict == LLMJudge(reply) IN
    IF verdict = "TypeError" THEN NoGrade
    ELSE IF _is_empty_artifact(a) \/ Errors(a, s) # {}
         THEN _result("fail", 0, Children(a, verdict, {}))
    ELSE IF Present(a) # Sections
         THEN _result("partial", Cardinality(Present(a)), Children(a, verdict, Sections))
    ELSE _result("pass", Cardinality(Sections), Children(a, verdict, Sections))

-----------------------------------------------------------------------------
Init ==
    /\ artifact = [type |-> "object", empty |-> TRUE, fields |-> [k \in {} |-> None]]
    /\ schema \in Schemas
    /\ result = None

(* The agent writes a section it has not written yet.                        *)
Write(k, v) ==
    /\ k \notin DOMAIN artifact.fields
    /\ artifact' = [artifact EXCEPT !.empty = FALSE,
            !.fields = [j \in DOMAIN @ \cup {k} |-> IF j = k THEN v ELSE @[j]]]
    /\ UNCHANGED <<schema, result>>

(* A repetition that answered with the artifact as it is now.                *)
Grade(reply) ==
    /\ result' = grade(artifact, schema, reply) /\ UNCHANGED <<artifact, schema>>

Next ==
    \/ \E k \in Keys, v \in Values : Write(k, v)
    \/ \E reply \in Replies : Grade(reply)

Spec == Init /\ [][Next]_vars

-----------------------------------------------------------------------------
(* Properties.                                                               *)

Rank(label) == CASE label = "none" -> 0 [] label = "fail" -> 1
                 [] label = "partial" -> 2 [] label = "pass" -> 3

Unadvised(a) == grade(a, schema, None)

(* What the schema asks of the value under a path of at most two keys: every *)
(* ancestor is an object of the artifact.                                    *)
Obeys(a, s) ==
    LET Type(v, t) == t = None \/ t \in Unmodelled \/ v.type = t IN
    /\ Type(a, s.type)
    /\ s.required \subseteq DOMAIN a.fields
    /\ \A k \in (DOMAIN s.properties) \cap (DOMAIN a.fields) :
           LET v == a.fields[k]  p == s.properties[k] IN
           /\ Type(v, p.type)
           /\ v.type = "object" =>
                  /\ p.required \subseteq DOMAIN v.fields
                  /\ \A j \in (DOMAIN p.properties) \cap (DOMAIN v.fields) :
                         Type(v.fields[j], p.properties[j].type)

(* The recursive validator finds an error exactly where a value disobeys,    *)
(* one for a value of the wrong type and none below it.                      *)
ValidatorIsRight ==
    schema # None =>
        LET errors == Errors(artifact, schema) IN
        /\ errors = {} <=> Obeys(artifact, schema)
        /\ \A e \in errors : e[2] = "type" =>
               \A f \in errors : f # e => SubSeq(f[1], 1, Len(e[1])) # e[1]

(* Writing a further section never makes an artifact worse, unless the       *)
(* section itself disobeys the schema.                                       *)
NoWorseByWriting ==
    (DOMAIN artifact.fields # DOMAIN artifact'.fields
         /\ Errors(artifact', schema) \subseteq Errors(artifact, schema))
     => /\ Rank(Unadvised(artifact').label) >= Rank(Unadvised(artifact).label)
        /\ Unadvised(artifact').score >= Unadvised(artifact).score
WritingHelps == [][NoWorseByWriting]_vars

(* "it NEVER flips the deterministic verdict": whatever the judge does, the  *)
(* label is the one without a judge.                                         *)
AdviceKeepsLabel ==
    result' # result =>
     result'.label = Unadvised(artifact).label
AdviceNeverFlips == [][AdviceKeepsLabel]_vars

=============================================================================
