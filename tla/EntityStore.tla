---------------------------- MODULE EntityStore -----------------------------
(***************************************************************************)
(* `PostgresStorage` and its scopes: put, get and delete of one entity by  *)
(* concurrent clients, each with a connection of its own.                  *)
(*                                                                         *)
(* A put is one transaction under READ COMMITTED: a SELECT of version and  *)
(* workspace, the checks, and the mapper's INSERT ... ON CONFLICT with the *)
(* replacement of the child rows.  Nobody sees those writes before the     *)
(* commit and the row lock keeps other puts of the entity out until then,  *)
(* so writing and committing is one action.  A get is a SELECT of the main *)
(* row and one for each child table, each of which sees what is committed  *)
(* when it runs.                                                           *)
(***************************************************************************)
EXTENDS Naturals, Sequences, SequencesExt

-----------------------------------------------------------------------------
(***************************************************************************)
(* How the mappers of `storage/postgres/mappers` lay an entity out: a main *)
(* row, whose optional parts become presence flags or nullable columns,    *)
(* and child tables for its lists.  XRow and XChildren decompose an        *)
(* entity, XBuild reassembles it from what the tables hold.  All plain     *)
(* columns of a row are one value, `spec`.                                 *)
(***************************************************************************)

CONSTANT Null

Kinds == {"Experiment", "Trace", "IterationRecord", "DecisionRecord", "Dataset",
          "AgentFleet", "FailureMode", "Tournament", "RiskRegistry", "EvalCase"}

Or(value, default) == IF value = Null THEN default ELSE value

(***************************************************************************)
(* References of several kinds in one child table, read back by kind.      *)
(***************************************************************************)
RefRows(kind, refs) == [i \in DOMAIN refs |-> [kind |-> kind, ref |-> refs[i]]]

RefsOf(rows, kind) ==
    LET mine == SelectSeq(rows, LAMBDA r : r.kind = kind)
    IN  [i \in DOMAIN mine |-> mine[i].ref]

(***************************************************************************)
(* Experiment                                                              *)
(***************************************************************************)
ExperimentRow(e) ==
    [spec |-> e.spec, version |-> e.version,
     panel_present |-> e.panel # Null,
     panel_members |-> IF e.panel = Null THEN <<>> ELSE e.panel.members,
     panel_rule |-> IF e.panel = Null THEN "majority" ELSE e.panel.rule,
     adversarial_id |-> e.adversarial,
     outcome_metrics_present |-> e.outcome_metrics # Null,
     outcome_metrics |-> Or(e.outcome_metrics, <<>>)]

ExperimentChildren(e) ==
    [guardrails |-> e.guardrails,
     dataset_gates |-> e.gates,
     frozen_refs |-> RefRows("agent", e.agents) \o RefRows("tool", e.tools)
                     \o RefRows("dataset", e.datasets) \o RefRows("grader", e.graders)]

ExperimentBuild(row, kids) ==
    [spec |-> row.spec, version |-> row.version,
     panel |-> IF row.panel_present
               THEN [members |-> row.panel_members, rule |-> row.panel_rule] ELSE Null,
     adversarial |-> row.adversarial_id,
     outcome_metrics |-> IF row.outcome_metrics_present THEN row.outcome_metrics ELSE Null,
     guardrails |-> kids.guardrails, gates |-> kids.dataset_gates,
     agents |-> RefsOf(kids.frozen_refs, "agent"),
     tools |-> RefsOf(kids.frozen_refs, "tool"),
     datasets |-> RefsOf(kids.frozen_refs, "dataset"),
     graders |-> RefsOf(kids.frozen_refs, "grader")]

(***************************************************************************)
(* Trace: spans are a base table and one detail table per span kind; the   *)
(* requests of an LLM call and the documents of a retrieval have a table   *)
(* of their own below the detail.                                          *)
(***************************************************************************)
TraceRow(t) ==
    [spec |-> t.spec, version |-> t.version, structured_output |-> t.structured_output]

DetailTables ==
    {"llm_call", "tool_call", "retrieval", "memory_read", "memory_write", "decision",
     "handoff", "human_intervention", "guardrail_check", "stt", "tts", "error", "custom"}

\* _insert_llm_span and _insert_retrieval_span also write a list.
Listed == {"llm_call", "retrieval"}

BaseRow(s) == [id |-> s.id, kind |-> s.kind, parent |-> s.parent]

DetailRow(s) == [id |-> s.id, table |-> s.kind, data |-> s.data]

ListRows(s) == [i \in DOMAIN s.list |-> [id |-> s.id, item |-> s.list[i]]]

\* insert_span, below the base row: the detail of the span's kind (an agent
\* turn has none) and its list.
SpanDetails(spans) ==
    [detail |-> {DetailRow(spans[i]) :
                    i \in {j \in DOMAIN spans : spans[j].kind \in DetailTables}},
     lists |-> FlattenSeq([i \in DOMAIN spans |->
                    IF spans[i].kind \in Listed THEN ListRows(spans[i]) ELSE <<>>])]

\* build_span: the detail row with the id of the base row, from the table of its
\* kind.  Without it the code fails; the model reads Null.
BuildSpan(base, details) ==
    LET detail == {d \in details.detail : d.table = base.kind /\ d.id = base.id}
        mine == SelectSeq(details.lists, LAMBDA r : r.id = base.id)
    IN  [id |-> base.id, kind |-> base.kind, parent |-> base.parent,
         data |-> IF detail = {} THEN Null ELSE (CHOOSE d \in detail : TRUE).data,
         list |-> [j \in DOMAIN mine |-> mine[j].item]]

LoadSpans(kids) == [i \in DOMAIN kids.spans |-> BuildSpan(kids.spans[i], kids.details)]

TraceChildren(t) ==
    [spans |-> [i \in DOMAIN t.spans |-> BaseRow(t.spans[i])],
     details |-> SpanDetails(t.spans),
     grader_results |-> t.grader_results, links |-> t.links]

TraceBuild(row, kids) ==
    [spec |-> row.spec, version |-> row.version,
     structured_output |-> row.structured_output, spans |-> LoadSpans(kids),
     grader_results |-> kids.grader_results, links |-> kids.links]

(***************************************************************************)
(* IterationRecord: metrics and decision are optional; the child tables of *)
(* the metrics are read only when the row has metrics.  A null funnel is   *)
(* read as an empty one; dictionaries are sets of pairs.                   *)
(***************************************************************************)
IterationRow(r) ==
    [spec |-> r.spec, version |-> r.version,
     metrics_present |-> r.metrics # Null,
     primary |-> IF r.metrics = Null THEN Null ELSE r.metrics.primary,
     funnel |-> IF r.metrics = Null THEN Null ELSE r.metrics.funnel,
     confusion |-> IF r.metrics = Null THEN Null ELSE r.metrics.confusion,
     decision_present |-> r.decision # Null, decision |-> r.decision]

IterationChildren(r) ==
    [trace_runs |-> r.trace_run_ids,
     guardrails |-> IF r.metrics = Null THEN <<>> ELSE r.metrics.guardrails,
     reliability |-> IF r.metrics = Null THEN {} ELSE r.metrics.reliability,
     failure_mode_counts |-> IF r.metrics = Null THEN {} ELSE r.metrics.counts]

IterationBuild(row, kids) ==
    [spec |-> row.spec, version |-> row.version, trace_run_ids |-> kids.trace_runs,
     metrics |-> IF ~row.metrics_present THEN Null
                 ELSE [primary |-> row.primary, funnel |-> Or(row.funnel, {}),
                       confusion |-> row.confusion, guardrails |-> kids.guardrails,
                       reliability |-> kids.reliability,
                       counts |-> kids.failure_mode_counts],
     decision |-> IF row.decision_present THEN row.decision ELSE Null]

(***************************************************************************)
(* The other kinds.                                                        *)
(***************************************************************************)
DecisionRow(d) ==
    [spec |-> d.spec, version |-> d.version,
     human_decided_by |-> IF d.human = Null THEN Null ELSE d.human.decided_by,
     human_overrides |-> IF d.human = Null THEN FALSE ELSE d.human.overrides]

DecisionBuild(row, kids) ==
    [spec |-> row.spec, version |-> row.version,
     human |-> IF row.human_decided_by = Null THEN Null
               ELSE [decided_by |-> row.human_decided_by, overrides |-> row.human_overrides],
     next_actions |-> kids.next_actions]

DatasetRow(d) ==
    [spec |-> d.spec, version |-> d.version,
     stats_present |-> d.statistics # Null, stats |-> d.statistics]

DatasetBuild(row, kids) ==
    [spec |-> row.spec, version |-> row.version,
     statistics |-> IF row.stats_present THEN row.stats ELSE Null, cases |-> kids.cases]

FleetChildren(f) == [fleet_refs |-> RefRows("agent", f.agents) \o RefRows("tool", f.tools)]

FleetBuild(row, kids) ==
    [spec |-> row.spec, version |-> row.version,
     agents |-> RefsOf(kids.fleet_refs, "agent"), tools |-> RefsOf(kids.fleet_refs, "tool")]

PlainRow(e) == [spec |-> e.spec, version |-> e.version]

FailureModeBuild(row, kids) ==
    [spec |-> row.spec, version |-> row.version, examples |-> kids.examples]

TournamentBuild(row, kids) ==
    [spec |-> row.spec, version |-> row.version, ranking |-> kids.rows]

RiskBuild(row, kids) ==
    [spec |-> row.spec, version |-> row.version, dimensions |-> kids.dimensions]

\* EvalCase has no child table; an absent risk profile is the JSON null.
EvalCaseRow(c) == [spec |-> c.spec, version |-> c.version, risk |-> Or(c.risk, "json_null")]

EvalCaseBuild(row) ==
    [spec |-> row.spec, version |-> row.version,
     risk |-> IF row.risk = "json_null" THEN Null ELSE row.risk]

(***************************************************************************)
(* mapper_for: the mapper of a kind.                                       *)
(***************************************************************************)
MainRow(kind, e) ==
    CASE kind = "Experiment" -> ExperimentRow(e)
      [] kind = "Trace" -> TraceRow(e)
      [] kind = "IterationRecord" -> IterationRow(e)
      [] kind = "DecisionRecord" -> DecisionRow(e)
      [] kind = "Dataset" -> DatasetRow(e)
      [] kind = "EvalCase" -> EvalCaseRow(e)
      [] OTHER -> PlainRow(e)

Children(kind, e) ==
    CASE kind = "Experiment" -> ExperimentChildren(e)
      [] kind = "Trace" -> TraceChildren(e)
      [] kind = "IterationRecord" -> IterationChildren(e)
      [] kind = "DecisionRecord" -> [next_actions |-> e.next_actions]
      [] kind = "Dataset" -> [cases |-> e.cases]
      [] kind = "AgentFleet" -> FleetChildren(e)
      [] kind = "FailureMode" -> [examples |-> e.examples]
      [] kind = "Tournament" -> [rows |-> e.ranking]
      [] kind = "RiskRegistry" -> [dimensions |-> e.dimensions]
      [] OTHER -> <<>>

Build(kind, row, kids) ==
    CASE kind = "Experiment" -> ExperimentBuild(row, kids)
      [] kind = "Trace" -> TraceBuild(row, kids)
      [] kind = "IterationRecord" -> IterationBuild(row, kids)
      [] kind = "DecisionRecord" -> DecisionBuild(row, kids)
      [] kind = "Dataset" -> DatasetBuild(row, kids)
      [] kind = "AgentFleet" -> FleetBuild(row, kids)
      [] kind = "FailureMode" -> FailureModeBuild(row, kids)
      [] kind = "Tournament" -> TournamentBuild(row, kids)
      [] kind = "RiskRegistry" -> RiskBuild(row, kids)
      [] OTHER -> EvalCaseBuild(row)

\* The SELECTs of a load after the one of the main row, in the order of the code.
ChildReads(kind, row) ==
    CASE kind = "Experiment" -> <<"guardrails", "dataset_gates", "frozen_refs">>
      [] kind = "Trace" -> <<"spans", "details", "grader_results", "links">>
      [] kind = "IterationRecord" ->
            IF row.metrics_present
            THEN <<"trace_runs", "guardrails", "reliability", "failure_mode_counts">>
            ELSE <<"trace_runs">>
      [] kind = "DecisionRecord" -> <<"next_actions">>
      [] kind = "Dataset" -> <<"cases">>
      [] kind = "AgentFleet" -> <<"fleet_refs">>
      [] kind = "FailureMode" -> <<"examples">>
      [] kind = "Tournament" -> <<"rows">>
      [] kind = "RiskRegistry" -> <<"dimensions">>
      [] OTHER -> <<>>

-----------------------------------------------------------------------------
(* The store.                                                              *)

CONSTANTS
    Clients,
    Workspaces,
    Samples,       \* kind -> entities of that kind, all of version 1
    Times,         \* values of created_at
    MaxVersion,    \* bound: versions a client may put
    MaxPuts        \* bound: puts

VARIABLES
    kind,          \* the kind of the entity
    stored,        \* its main row with workspace and created_at, or Null
    kids,          \* its child rows
    client,        \* what each client holds in memory
    puts,          \* number of puts started
    last,          \* history: the entity last committed, or Null
    won            \* history: <<client, version>> of the commits of this row that raised
                   \* the version read by the put

vars == <<kind, stored, kids, client, puts, last, won>>

Idle == [pc |-> "idle"]

At(c, pc) == client[c].pc = pc

Return(c) == client' = [client EXCEPT ![c] = Idle]

NoKids == <<>>

\* History: a commit disturbs every load that is under way.
Disturbed(c, table) ==
    [d \in Clients |-> IF d # c /\ table[d].pc = "load"
                       THEN [table[d] EXCEPT !.disturbed = TRUE] ELSE table[d]]

(***************************************************************************)
(* put_entity                                                              *)
(***************************************************************************)
PutStart(c, ws) ==
    /\ At(c, "idle") /\ puts < MaxPuts
    /\ \E e \in Samples[kind], v \in 1..MaxVersion, t \in Times :
          client' = [client EXCEPT ![c] =
             [pc |-> "check", ws |-> ws, created |-> t, entity |-> [e EXCEPT !.version = v]]]
    /\ puts' = puts + 1
    /\ UNCHANGED <<kind, stored, kids, last, won>>

\* The version rule of _put_entity_with_mapper.
VersionFits(old, new) == old \in {new - 1, new}

Check(c) ==
    /\ At(c, "check")
    /\ IF \/ stored = Null
          \/ /\ stored.ws = client[c].ws
             /\ VersionFits(stored.row.version, client[c].entity.version)
       THEN client' = [client EXCEPT ![c] =
               [ws |-> client[c].ws, created |-> client[c].created,
                entity |-> client[c].entity, pc |-> "write",
                seen |-> IF stored = Null THEN 0 ELSE stored.row.version]]
       ELSE Return(c)
    /\ UNCHANGED <<kind, stored, kids, puts, last, won>>

\* DELETE FROM the child table, then INSERT; details of spans go by the cascade.
ReplaceChildren(old, new) == new

\* mapper.upsert: created_at is never updated; a row deleted since the check is
\* inserted, a row inserted since the check is updated, whatever it holds.
Upsert(c) ==
    /\ At(c, "write")
    /\ stored' = [row |-> MainRow(kind, client[c].entity), ws |-> client[c].ws,
                  created |-> IF stored = Null THEN client[c].created ELSE stored.created]
    /\ kids' = ReplaceChildren(kids, Children(kind, client[c].entity))
    /\ last' = client[c].entity
    /\ won' = IF client[c].seen < client[c].entity.version
              THEN won \cup {<<c, client[c].entity.version>>} ELSE won
    /\ client' = [Disturbed(c, client) EXCEPT ![c] = Idle]
    /\ UNCHANGED <<kind, puts>>

(***************************************************************************)
(* get_entity: the main row of this workspace, then the child rows.        *)
(***************************************************************************)
LoadMain(c, ws) ==
    /\ At(c, "idle")
    /\ stored # Null /\ stored.ws = ws
    /\ client' = [client EXCEPT ![c] =
         [pc |-> "load", row |-> stored.row, kids |-> NoKids,
          todo |-> ChildReads(kind, stored.row), disturbed |-> FALSE]]
    /\ UNCHANGED <<kind, stored, kids, puts, last, won>>

\* Tables of a deleted entity are empty: its child rows cascade.
ChildRows(t) ==
    IF t \in DOMAIN kids THEN kids[t]
    ELSE IF t = "details" THEN [detail |-> {}, lists |-> <<>>]
    ELSE IF t \in {"reliability", "failure_mode_counts"} THEN {} ELSE <<>>

LoadChildren(c) ==
    /\ At(c, "load") /\ client[c].todo # <<>>
    /\ LET t == Head(client[c].todo)
           read == client[c].kids
       IN  client' = [client EXCEPT
              ![c].todo = Tail(@),
              ![c].kids = [u \in DOMAIN read \cup {t} |->
                              IF u = t THEN ChildRows(t) ELSE read[u]]]
    /\ UNCHANGED <<kind, stored, kids, puts, last, won>>

Loaded(c) == Build(kind, client[c].row, client[c].kids)

LoadReturns(c) ==
    /\ At(c, "load") /\ client[c].todo = <<>>
    /\ Return(c)
    /\ UNCHANGED <<kind, stored, kids, puts, last, won>>

(***************************************************************************)
(* delete_entity: a SELECT of the workspace, then the DELETE; child rows   *)
(* cascade.                                                                *)
(***************************************************************************)
DeleteCheck(c, ws) ==
    /\ At(c, "idle")
    /\ stored # Null /\ stored.ws = ws
    /\ client' = [client EXCEPT ![c] = [pc |-> "delete"]]
    /\ UNCHANGED <<kind, stored, kids, puts, last, won>>

Delete(c) ==
    /\ At(c, "delete")
    /\ stored' = Null /\ kids' = NoKids /\ last' = Null /\ won' = {}
    /\ client' = [Disturbed(c, client) EXCEPT ![c] = Idle]
    /\ UNCHANGED <<kind, puts>>

(***************************************************************************)
(* The specification.                                                      *)
(***************************************************************************)
Init ==
    /\ kind \in Kinds
    /\ stored = Null /\ kids = NoKids /\ last = Null
    /\ client = [c \in Clients |-> Idle]
    /\ puts = 0 /\ won = {}

Step(c) ==
    \/ \E ws \in Workspaces : PutStart(c, ws) \/ LoadMain(c, ws) \/ DeleteCheck(c, ws)
    \/ Check(c) \/ Upsert(c) \/ LoadChildren(c) \/ LoadReturns(c) \/ Delete(c)

Next == \E c \in Clients : Step(c)

Spec == Init /\ [][Next]_vars

(***************************************************************************)
(* Properties.                                                             *)
(***************************************************************************)
\* A load that no commit fell into returns the entity last put, with every
\* optional part and every list as they were: nothing of an earlier put, longer
\* or with other optional parts, shows through (base.py, EntityMapper).
UndisturbedLoadsAreExact ==
    \A c \in Clients :
        (At(c, "load") /\ client[c].todo = <<>> /\ ~client[c].disturbed) => Loaded(c) = last

\* Of the puts that raise the entity to a version, one succeeds (storage.py:
\* "two concurrent writers cannot both win").
\* The code does not keep it: the version is compared in an earlier SELECT, and the
\* stored one is accepted.
OneWinner ==
    \A a, b \in won : a[2] = b[2] => a[1] = b[1]
=============================================================================
