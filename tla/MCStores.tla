------------------------------ MODULE MCStores ------------------------------
(***************************************************************************)
(* What is stored, one component at a time: payload files, entities,       *)
(* members, specifications, posted traces.  A behaviour exercises the      *)
(* component named by `part`.  The members of two workspaces have their    *)
(* own variables; those of any other component are the first of s1, s2,    *)
(* ..., and the others are Off.                                            *)
(***************************************************************************)
EXTENDS Membership, SequencesExt, TLC

CONSTANTS
    None, Null,
    Clients                        \* two requests

VARIABLES part, s1, s2, s3, s4, s5, s6, s7

Slots == <<s1, s2, s3, s4, s5, s6, s7>>
suiteVars == <<vars, part, Slots>>
Off == "off"
From6 == <<s6, s7>>
From7 == <<s7>>

-----------------------------------------------------------------------------
\* Payloads.  Lengths stand for the two limits of 4096: small and long text, a clip, a list
\* whose blanks take it over the limit of the text and not over the router's, and text
\* as long as the limit.  One writer; three writers of the same payloads; writers that die.
CharsOf == [small |-> 3, long |-> 9, clip |-> 0, edge |-> 4, list |-> 5]
BytesOf == [small |-> 3, long |-> 9, clip |-> 2, edge |-> 4, list |-> 4]

Writer == INSTANCE Payloads WITH
    Writers <- {"w1"}, Values <- {"small", "long", "clip", "edge", "list"}, Chars <- CharsOf,
    Bytes <- BytesOf, Audio <- {"clip"}, InlineMax <- 4, Threshold <- 4, Dies <- FALSE,
    MaxSpans <- 6, file <- s1, pc <- s2, job <- s3, spans <- s4, raised <- s5, answer <- s6

Several == INSTANCE Payloads WITH
    Writers <- {"w1", "w2", "w3"}, Values <- {"small", "long", "clip"}, Chars <- CharsOf,
    Bytes <- BytesOf, Audio <- {"clip"}, InlineMax <- 4, Threshold <- 4, Dies <- FALSE,
    MaxSpans <- 6, file <- s1, pc <- s2, job <- s3, spans <- s4, raised <- s5, answer <- s6

Mortals == INSTANCE Payloads WITH
    Writers <- {"w1", "w2"}, Values <- {"long", "clip", "list"}, Chars <- CharsOf,
    Bytes <- BytesOf, Audio <- {"clip"}, InlineMax <- 4, Threshold <- 4, Dies <- TRUE,
    MaxSpans <- 4, file <- s1, pc <- s2, job <- s3, spans <- s4, raised <- s5, answer <- s6

\* Of every kind an entity with all its optional parts and lists, one without any, and one
\* in between.
Experiments ==
    {[spec |-> "x", version |-> 1, panel |-> p, adversarial |-> a, outcome_metrics |-> o,
      guardrails |-> g, gates |-> Reverse(g), agents |-> <<"a1">>, tools |-> g,
      datasets |-> <<>>, graders |-> <<"g1", "g2">>] :
        p \in {Null, [members |-> <<>>, rule |-> "unanimous"],
               [members |-> <<"j1">>, rule |-> "majority"]},
        <<a, o, g>> \in {<<Null, Null, <<>> >>, <<"d1", <<"m">>, <<"p", "q">> >>}}

Span(id, of, parent, data, list) ==
    [id |-> id, kind |-> of, parent |-> parent, data |-> data, list |-> list]
Spans == {<<>>,
          <<Span("s1", "agent_turn", Null, Null, <<>>),
            Span("s2", "llm_call", "s1", "d1", <<"t1", "t2">>),
            Span("s3", "llm_call", "s1", "d2", <<>>),
            Span("s4", "tool_call", "s2", "d3", <<>>)>>,
          <<Span("s2", "retrieval", Null, "d4", <<"doc">>)>>}
Traces ==
    {[spec |-> "x", version |-> 1, structured_output |-> Null, spans |-> s,
      grader_results |-> <<"r1">>, links |-> <<>>] : s \in Spans}

Metrics(l) == [primary |-> "p", funnel |-> l, confusion |-> Null, guardrails |-> <<"g">>,
               reliability |-> l, counts |-> {}]
Records ==
    {[spec |-> "x", version |-> 1, trace_run_ids |-> <<"t">>, metrics |-> m, decision |-> d] :
        m \in {Null, Metrics({}), Metrics({<<"k", 1>>})}, d \in {Null, "keep"}}

Of(field, values) ==
    {[f \in {"spec", "version", field} |->
        IF f = field THEN v ELSE IF f = "spec" THEN "x" ELSE 1] : v \in values}
Lists == {<<>>, <<"a", "b">>, <<"b">>}

SamplesOf(kind) ==
    CASE kind = "Experiment" -> Experiments
      [] kind = "Trace" -> Traces
      [] kind = "IterationRecord" -> Records
      [] kind = "DecisionRecord" ->
            {[spec |-> "x", version |-> 1, human |-> h, next_actions |-> l] : l \in Lists,
                h \in {Null, [decided_by |-> "u", overrides |-> TRUE]}}
      [] kind = "Dataset" ->
            {[spec |-> "x", version |-> 1, statistics |-> h, cases |-> l] : l \in Lists,
                h \in {Null, "stats"}}
      [] kind = "AgentFleet" ->
            {[spec |-> "x", version |-> 1, agents |-> l, tools |-> Reverse(l)] : l \in Lists}
      [] kind = "FailureMode" -> Of("examples", Lists)
      [] kind = "Tournament" -> Of("ranking", Lists)
      [] kind = "RiskRegistry" -> Of("dimensions", Lists)
      [] OTHER -> Of("risk", {Null, "r"})

Kinds == {"Experiment", "Trace", "IterationRecord", "DecisionRecord", "Dataset",
          "AgentFleet", "FailureMode", "Tournament", "RiskRegistry", "EvalCase"}

Entities == INSTANCE EntityStore WITH
    Workspaces <- {"w1"}, Samples <- [k \in Kinds |-> SamplesOf(k)], Times <- {1},
    MaxVersion <- 1, MaxPuts <- 2,
    kind <- s1, stored <- s2, kids <- s3, client <- s4, puts <- s5, last <- s6, won <- s7

\* Members of one workspace, with two requests at a time.
Contended == INSTANCE Membership WITH
    Workspaces <- {"w1"}, Slugs <- {"s1"}, Requests <- Clients, MaxDeaths <- 1,
    workspaces <- s1, members <- s2, used <- s3, request <- s4, deaths <- s5

\* Specifications: agents of every type, dataset blocks of every shape, lists of graders.
Agents == [type : {"legacy", "embedded", "http", "other"}, timeout : {0}, formed : {TRUE}]
              \cup [type : {"cli", "http"}, timeout : {-1, 0, 1}, formed : BOOLEAN]
Block(ref, inline, path, split, rows, uses) ==
    [ref |-> ref, inline |-> inline, path |-> path, labelled |-> split,
     split |-> split, rows |-> rows, uses |-> uses]
Blocks == {Block(ref, inline, path, FALSE, rows, uses) :
              ref \in BOOLEAN, inline \in BOOLEAN, path \in BOOLEAN,
              rows \in 0..1, uses \in {{}, {"judge"}, {"funnel", "set_match"}}}
Grader(type, name, judge, params, refs) ==
    [type |-> type, name |-> name, rubric |-> TRUE, judge |-> judge,
     params |-> params, refs |-> refs]
Judge(judge) == Grader("llm_judge", "judge", judge, "none", {})
Funnel(name, params, refs) == Grader("funnel", name, "none", params, refs)
Graders == {<<>>}
    \cup {<<Judge(judge)>> : judge \in {"none", "resolves", "unresolved", "malformed"}}
    \cup {<<[Judge("none") EXCEPT !.rubric = FALSE]>>}
    \cup {<<Funnel("", params, refs), Judge("resolves")>> : params \in {"none", "ok", "bad"},
             refs \in {{}, {"judge"}, {"unknown"}, {"funnel"}, {"judge", "funnel"}}}
    \cup {<<Funnel("", "ok", {other}), Funnel(other, "ok", refs)>> :
             other \in {"inner", "judge"}, refs \in {{}, {"funnel"}}}
    \cup {<<Grader("set_match", name, "none", params, {}), Grader("set_match", "", "none", "ok", {})>> :
             params \in {"ok", "bad"}, name \in {"", "judge"}}

Specs == INSTANCE SpecLoading WITH
    AgentBlocks <- Agents, DatasetBlocks <- Blocks, GraderLists <- Graders,
    Primaries <- {"none", "deterministic"}, StoredUses <- {{}, {"judge"}},
    raw <- s1, stored <- s2, spec <- s3, payload <- s4, carried <- s5, built <- s6

\* Exported spans: model calls and the tools they may have asked for.
Exported == [hint |-> None, keys |-> {}, call |-> None, total |-> 0, parts |-> 0,
             start |-> 1, end |-> 2, duration |-> None, thread |-> None]
Model == [Exported EXCEPT !.hint = "llm", !.keys = {"gen_ai"}]
Tool(c) == [Exported EXCEPT !.hint = "tool", !.keys = {"tool"}, !.call = c]

Links == INSTANCE OtelImport WITH
    Shapes <- {Model, Tool("c1"), Tool("c2"), Tool(None)}, Parents <- {None}, Reused <- FALSE,
    MaxSpans <- 3, MaxPosts <- 2,
    batch <- s1, recorder <- s2, posted <- s3, rows <- s4, live <- s5

\* Spans with contradictory times, token counts and kinds, some sent twice.
Edges == INSTANCE OtelImport WITH
    Shapes <- {[Model EXCEPT !.total = 2, !.parts = 3],
               [Exported EXCEPT !.keys = {"gen_ai", "tool"}, !.parts = 3],
               [Tool("c1") EXCEPT !.hint = "other", !.end = 0],
               [Tool("c1") EXCEPT !.start = 3],
               [Exported EXCEPT !.start = None]},
    Parents <- {None, 99}, Reused <- TRUE, MaxSpans <- 3, MaxPosts <- 1,
    batch <- s1, recorder <- s2, posted <- s3, rows <- s4, live <- s5

-----------------------------------------------------------------------------
Off6 == s6 = Off /\ s7 = Off
Off7 == s7 = Off

SuiteInit ==
    /\ Init
    /\ \/ part = "managed" /\ s1 = Off /\ s2 = Off /\ s3 = Off /\ s4 = Off /\ s5 = Off /\ Off6
       \/ part = "writer" /\ Writer!Init /\ Off7
       \/ part = "several" /\ Several!Init /\ Off7
       \/ part = "mortals" /\ Mortals!Init /\ Off7
       \/ part = "entities" /\ Entities!Init
       \/ part = "contended" /\ Contended!Init /\ Off6
       \/ part = "specs" /\ Specs!Init /\ Off7
       \/ part = "links" /\ Links!Init /\ Off6
       \/ part = "edges" /\ Edges!Init /\ Off6

SuiteNext ==
    \/ part = "managed" /\ Next /\ UNCHANGED <<part, Slots>>
    \/ /\ UNCHANGED <<vars, part>>
       /\ \/ part = "writer" /\ Writer!Next /\ UNCHANGED From7
          \/ part = "several" /\ Several!Next /\ UNCHANGED From7
          \/ part = "mortals" /\ Mortals!Next /\ UNCHANGED From7
          \/ part = "entities" /\ Entities!Next
          \/ part = "contended" /\ Contended!Next /\ UNCHANGED From6
          \/ part = "specs" /\ Specs!Next /\ UNCHANGED From7
          \/ part = "links" /\ Links!Next /\ UNCHANGED From6
          \/ part = "edges" /\ Edges!Next /\ UNCHANGED From6

SuiteSpec == SuiteInit /\ [][SuiteNext]_suiteVars

\* Clients, users, workspaces and member ids are interchangeable.
Symmetry == Permutations(Clients) \cup Permutations(Users)
            \cup Permutations(Workspaces) \cup Permutations(MemberIds)

-----------------------------------------------------------------------------
(* What they promise; the modules of the components say it in full.          *)

\* What a reader gets of a recorded payload is all of it, unless it is neither long for the
\* router nor short for the span (resolve, get).
NoReadIsCut ==
    /\ part = "writer" => Writer!NoReadIsCut
    /\ part = "several" => Several!NoReadIsCut
    /\ part = "mortals" => Mortals!NoReadIsCut

\* A span that shows a clip of its payload has a pointer to the rest (PayloadRouter.route).
ClipsHavePointers ==
    (part = "writer" => Writer!ClipsHavePointers) /\ (part = "several" => Several!ClipsHavePointers)

\* With one writer every such payload that was recorded can be read (FilesystemPayloadStore.get).
RecordedIsReadable == part = "writer" => Writer!RecordedIsReadable

\* With one writer equal payloads have equal pointers (FilesystemPayloadStore.put).
SameBytesSamePointer == part = "writer" => Writer!SameBytesSamePointer

\* An entity that no put disturbed while it was loaded is the one that was put (mappers).
UndisturbedLoadsAreExact == part = "entities" => Entities!UndisturbedLoadsAreExact

\* A worker builds the graders that a local run of the specification builds (to_dict, from_dict).
WorkerBuildsTheSameGraders == part = "specs" => Specs!WorkerBuildsTheSameGraders

\* What the loader accepted is built or refused, at the launch and by the worker, unless a funnel
\* leads back to itself (build_experiment_spec, register_spec_graders).
OnlyCirclesCrash == part = "specs" => Specs!OnlyCirclesCrash

\* A tool call is linked to a model call that may have asked for it (_link_tool_requests).
LinksArePlausible ==
    (part = "links" => Links!LinksArePlausible) /\ (part = "edges" => Edges!LinksArePlausible)

\* The order of arrival does not change what is imported (import_spans).
OrderDoesNotMatter == part = "links" => Links!OrderDoesNotMatter

\* A batch of well-formed spans of one trace is imported (import_spans).
UnmixedIsImported ==
    (part = "links" => Links!UnmixedIsImported) /\ (part = "edges" => Edges!UnmixedIsImported)

\* Posting a trace again under its id leaves one row (ingest_trace).
RetriesAreOneRow == part = "links" => Links!RetriesAreOneRow

\* The viewer of a posted trace receives each span once and the end (ingest_trace).
ViewerGetsTheCall == part = "links" => Links!ViewerGetsTheCall

\* Nobody holds a role twice in a workspace, however requests interleave or die (add_member).
NobodyHoldsARoleTwice == part = "contended" => Contended!Governed

-----------------------------------------------------------------------------
(* Taken together, by what they are about.                                 *)

\* What is stored or sent comes back as it was, or with an error, whoever writes the same or dies
\* meanwhile: payloads and their previews, entities, roles of members, specifications on their way
\* to a worker, posted traces, whose calls are linked the same way in any order and stored once
\* (FilesystemPayloadStore, PayloadRouter, the mappers, the members routes,
\* ExperimentSpec.from_dict, import_spans, ingest_trace).
WhatIsStoredComesBack ==
    /\ NoReadIsCut /\ ClipsHavePointers /\ RecordedIsReadable
    /\ SameBytesSamePointer /\ UndisturbedLoadsAreExact /\ WorkerBuildsTheSameGraders
    /\ OnlyCirclesCrash /\ NobodyHoldsARoleTwice
    /\ LinksArePlausible /\ OrderDoesNotMatter /\ UnmixedIsImported
    /\ RetriesAreOneRow /\ ViewerGetsTheCall
=============================================================================
