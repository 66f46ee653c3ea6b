----------------------------- MODULE SpecLoading -----------------------------
(* From an authored experiment specification to the run it becomes            *)
(* (repo/loader, runner/launch): the mapping is parsed and validated, and     *)
(* either built into a loop on the spot or written into the payload of a job, *)
(* parsed again by a worker and built there.  What a section says beyond what *)
(* decides these paths is left out.                                           *)
EXTENDS Integers, FiniteSets, Sequences, SequencesExt

CONSTANTS
    AgentBlocks,    \* agent: [type, timeout, formed]; timeout 0 is none, -1 malformed
    DatasetBlocks,  \* dataset: [ref, inline, path, labelled, split, rows, uses]
    GraderLists,    \* graders: sequences of [type, name, rubric, judge, params, refs]
    Primaries,      \* target.primary_grader, "none" for none
    StoredUses      \* the graders the cases of a referenced dataset name

VARIABLES
    raw,        \* the authored mapping
    stored,     \* the graders named by the stored cases a reference leads to
    spec,       \* the loaded specification, or Rejected
    payload,    \* the payload of the job it was enqueued as
    carried,    \* the specification a worker loaded from the payload
    built       \* for "local" and "worker": the run that was built

vars == <<raw, stored, spec, payload, carried, built>>

Builtins == {"artifact_completeness", "confusion", "deterministic", "guardrail",
             "set_match", "trajectory"}
JudgedTypes == {"llm_judge", "judge_panel", "pairwise"}
SupportedGraders == JudgedTypes \cup {"deterministic", "set_match", "funnel", "confusion"}

Missing == [status |-> "missing"]
Rejected == [status |-> "rejected"]      \* LoaderError
Refused == [status |-> "refused"]        \* SelfEvalsUserError
Crashed == [status |-> "crashed"]        \* anything else

Init ==
    /\ raw \in [agent : AgentBlocks, dataset : DatasetBlocks,
                graders : GraderLists, primary : Primaries]
    /\ stored \in StoredUses
    /\ spec = Missing /\ payload = Missing /\ carried = Missing
    /\ built = [local |-> Missing, worker |-> Missing]

----------------------------------------------------------------------------
(* Loading                                                                    *)

AgentIsValid(a) == a.type \in {"legacy", "embedded", "cli", "http"} /\ a.formed /\ a.timeout >= 0

\* A block without a type is an embedded agent.
BuildAgentSpec(a) == [type |-> IF a.type = "legacy" THEN "embedded" ELSE a.type,
                      timeout |-> a.timeout, formed |-> TRUE]

\* A reference excludes cases; otherwise exactly one source of cases with a
\* row in it.
DatasetIsValid(d) ==
    IF d.ref THEN ~d.inline /\ ~d.path ELSE d.inline # d.path /\ d.rows > 0

BuildDatasetSource(d) ==
    IF d.ref THEN [kind |-> "ref", labelled |-> FALSE, split |-> FALSE, uses |-> {}]
    ELSE [kind |-> "inline", labelled |-> d.labelled, split |-> d.split, uses |-> d.uses]

NameOf(g) == IF g.name = "" THEN g.type ELSE g.name

\* The parameters a type reads are checked, at the top and in a funnel's levels.
ParamsAreValid(g) ==
    g.type \in {"set_match", "pairwise", "confusion", "judge_panel", "funnel"} => g.params # "bad"

GraderIsValid(g) ==
    /\ g.type \in SupportedGraders
    /\ g.type \in JudgedTypes => g.rubric /\ g.judge # "malformed"
    /\ ParamsAreValid(g)

GradersAreValid(list) ==
    /\ \A i \in DOMAIN list : GraderIsValid(list[i])
    /\ \A i, k \in DOMAIN list : i # k => NameOf(list[i]) # NameOf(list[k])

BuildGraderSpecs(list) == [i \in DOMAIN list |-> [list[i] EXCEPT !.name = NameOf(list[i])]]
NamesIn(graders) == {graders[i].name : i \in DOMAIN graders}

\* The primary grader is one that is declared or that a case in hand names, or
\* the default when there is neither.
PrimaryIsKnown(primary, graders, uses) ==
    LET names == NamesIn(graders) \cup uses
    IN  primary = "none" \/ primary \in (IF names = {} THEN {"deterministic"} ELSE names)

BuildSpec(r) ==
    IF ~(AgentIsValid(r.agent) /\ DatasetIsValid(r.dataset) /\ GradersAreValid(r.graders))
    THEN Rejected
    ELSE LET dataset == BuildDatasetSource(r.dataset)
             graders == BuildGraderSpecs(r.graders)
         IN  IF ~PrimaryIsKnown(r.primary, graders, dataset.uses) THEN Rejected
             ELSE [status |-> "loaded", agent |-> BuildAgentSpec(r.agent),
                   dataset |-> dataset, graders |-> graders, primary |-> r.primary]

Load ==
    /\ spec = Missing
    /\ spec' = BuildSpec(raw)
    /\ UNCHANGED <<raw, stored, payload, carried, built>>

----------------------------------------------------------------------------
(* The payload of a job                                                       *)

\* An embedded agent is written as its entry point alone.
DumpAgentSpec(a) == IF a.type = "embedded" THEN [a EXCEPT !.timeout = 0] ELSE a

\* An inline dataset is written as its cases alone.
DumpDatasetSource(d) ==
    [ref |-> d.kind = "ref", inline |-> d.kind = "inline", path |-> FALSE,
     labelled |-> FALSE, split |-> FALSE, rows |-> 1, uses |-> d.uses]

DumpGraderSpec(g) == g

Serialize ==
    /\ spec # Missing /\ spec.status = "loaded" /\ payload = Missing
    /\ payload' = [agent |-> DumpAgentSpec(spec.agent),
                   dataset |-> DumpDatasetSource(spec.dataset),
                   graders |-> [i \in DOMAIN spec.graders |-> DumpGraderSpec(spec.graders[i])],
                   primary |-> spec.primary, status |-> "written"]
    /\ UNCHANGED <<raw, stored, spec, carried, built>>

Deserialize ==
    /\ payload # Missing /\ carried = Missing
    /\ carried' = BuildSpec(payload)
    /\ UNCHANGED <<raw, stored, spec, payload, built>>

----------------------------------------------------------------------------
(* Building the run                                                           *)

Declared(s, n) == CHOOSE g \in {s.graders[i] : i \in DOMAIN s.graders} : g.name = n

\* A judged grader has a judge to ask: its own, or the agent if it is embedded.
HasJudge(s, g) == g.judge = "resolves" \/ (g.judge = "none" /\ s.agent.type = "embedded")
Registrable(s) ==
    \A i \in DOMAIN s.graders : s.graders[i].type \in JudgedTypes => HasJudge(s, s.graders[i])

\* The graders a run is made of: those that its cases name, or the default.
Referenced(s) ==
    LET uses == IF s.dataset.kind = "ref" THEN stored ELSE s.dataset.uses
    IN  IF uses = {} THEN {"deterministic"} ELSE uses

\* The names a grader needs besides its own: a funnel's levels may name others.
Needs(s, n) == IF n \in NamesIn(s.graders) THEN Declared(s, n).refs ELSE {}
RECURSIVE Reach(_, _)
Reach(s, names) ==
    LET more == names \cup UNION {Needs(s, n) : n \in names}
    IN  IF more = names THEN names ELSE Reach(s, more)
Circular(s, n) == Needs(s, n) # {} /\ n \in Reach(s, Needs(s, n))

\* Building every grader up front: an unknown name is reported, parameters
\* nobody checked and funnels that contain themselves raise what they raise.
\* Of a specification with both the model says that it is refused; in the code
\* the order of the levels decides.
BuildRun(s) ==
    LET all == Reach(s, Referenced(s))
    IN  IF ~Registrable(s) \/ ~(all \subseteq NamesIn(s.graders) \cup Builtins) THEN Refused
        ELSE IF \E n \in all : \/ Circular(s, n)
                               \/ n \in NamesIn(s.graders) /\ Declared(s, n).params = "bad"
        THEN Crashed
        ELSE [status |-> "built", graders |-> Referenced(s), primary |-> s.primary,
              timeout |-> s.agent.timeout, agent |-> s.agent.type,
              split |-> s.dataset.split, labelled |-> s.dataset.labelled,
              configured |-> [n \in all \cap NamesIn(s.graders) |-> Declared(s, n)]]

Build(where, s) ==
    /\ s # Missing /\ built[where] = Missing
    /\ built' = [built EXCEPT ![where] = IF s = Rejected THEN Rejected ELSE BuildRun(s)]
    /\ UNCHANGED <<raw, stored, spec, payload, carried>>

BuildHere == Build("local", spec)
BuildAtWorker == Build("worker", carried)

Next == Load \/ Serialize \/ Deserialize \/ BuildHere \/ BuildAtWorker
Spec == Init /\ [][Next]_vars

----------------------------------------------------------------------------
(* What loading promises                                                      *)

BothBuilt == built.local # Missing /\ built.worker # Missing

\* A worker builds from the payload what the process that wrote it would have
\* built: the same graders with the same parameters, the same agent, the same
\* refusals (serialize_experiment_spec, deserialize_experiment_spec).
WorkerBuildsTheSameGraders ==
    BothBuilt =>
        /\ built.local.status = built.worker.status
        /\ built.local.status = "built" =>
              /\ built.local.graders = built.worker.graders
              /\ built.local.configured = built.worker.configured
              /\ built.local.agent = built.worker.agent
              /\ built.local.primary = built.worker.primary

\* The dataset block survives the payload: the worker draws the same split
\* from a dataset with the same name and type (serialize_experiment_spec: the
\* dataset block round-trips the spec's dataset_source).
\* The code does not keep it: only the cases are written.
DatasetRoundTrips ==
    BothBuilt /\ built.local.status = "built" =>
        built.local.split = built.worker.split /\ built.local.labelled = built.worker.labelled

\* So does the agent: its calls have the timeout that was declared.
\* The code does not keep it: dump_agent_spec leaves the timeout out.
AgentRoundTrips ==
    BothBuilt /\ built.local.status = "built" => built.local.timeout = built.worker.timeout

\* What loading accepts does not crash the launch: a run that cannot be built
\* is refused with a message (_funnel_match: not past the loader only to crash
\* when the grader is instantiated at launch).
\* The code does not keep it: the loader leaves the graders that levels name to
\* the launch, which follows a funnel that names itself without end.
AcceptedIsNeverACrash == \A where \in DOMAIN built : built[where] # Crashed

\* It keeps it for every other specification: what crashes has a funnel among
\* the graders of its cases, or below them, that leads back to itself.
LeadsBack(s) == \E n \in Reach(s, Referenced(s)) : Circular(s, n)
OnlyCirclesCrash ==
    /\ built.local = Crashed => LeadsBack(spec)
    /\ built.worker = Crashed => LeadsBack(carried)

\* The grader that scores the primary metric is one of those that run
\* (_validate_primary_grader: names a grader that actually runs).
\* The code does not keep it: a declared grader that no case names is accepted and not
\* run.
PrimaryGraderRuns ==
    \A where \in DOMAIN built :
        built[where].status = "built" /\ built[where].primary # "none"
            => built[where].primary \in built[where].graders
=============================================================================
