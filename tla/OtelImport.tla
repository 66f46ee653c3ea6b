----------------------------- MODULE OtelImport -----------------------------
(* Spans that an agent exports over OpenTelemetry become spans of a trace.   *)
(* trace/otel_importer.py classifies and builds them, links tool calls to    *)
(* model calls and builds the trace, whose validators may refuse it;         *)
(* runner/otlp_to_recorder.py feeds the same spans to a live recorder; and   *)
(* api/trace_ingest.py stores a finished trace and shows it to a viewer.     *)
EXTENDS Integers, Sequences, FiniteSets, SequencesExt, Functions

CONSTANTS
    Shapes,     \* what a span carries: the fields of Shape below
    Parents,    \* parents a span may name besides the spans of its trace
    Reused,     \* whether an exporter may send a span id twice
    MaxSpans,   \* bound: spans of a trace
    MaxPosts,   \* bound: times the finished trace is posted
    None

(* A shape: hint is openinference.span.kind, keys the attribute families it  *)
(* has, call its call id, total and parts its token counts, times what the   *)
(* exporter gave, thread its conversation.                                   *)
VARIABLES
    batch,      \* the spans exported so far, in order of arrival
    recorder,   \* [spans, llm, tools]: a live recorder fed with them
    posted,     \* the explicit ids of the posts made, None for a minted one
    rows,       \* stored traces: [id, spans]
    live        \* what the viewer of the run received

vars == <<batch, recorder, posted, rows, live>>

-----------------------------------------------------------------------------
(* Building one span.                                                        *)

_KIND_ALIASES == [llm |-> "llm_call", tool |-> "tool_call", retriever |-> "retrieval",
    chain |-> "agent_turn", guardrail |-> "guardrail_check"]

_classify_span(r) ==
    CASE r.hint \in DOMAIN _KIND_ALIASES -> _KIND_ALIASES[r.hint]
      [] r.hint \notin DOMAIN _KIND_ALIASES /\ "gen_ai" \in r.keys -> "llm_call"
      [] r.hint \notin DOMAIN _KIND_ALIASES /\ "gen_ai" \notin r.keys /\ "tool" \in r.keys
            -> "tool_call"
      [] r.hint \notin DOMAIN _KIND_ALIASES /\ r.keys \cap {"gen_ai", "tool"} = {}
            /\ "documents" \in r.keys -> "retrieval"
      [] OTHER -> "custom"

(* Zero is no time: `span.get("start_time") or span.get("started_at")`.      *)
Given(t) == t # None /\ t # 0

_duration_ms(r) ==
    IF r.duration # None THEN r.duration
    ELSE IF Given(r.start) /\ Given(r.end) THEN r.end - r.start ELSE 0

(* The total of the exporter, or else the sum of the components.             *)
Tokens(r) == IF r.total # 0 THEN r.total ELSE r.parts

_total_covers_components(r) == Tokens(r) >= r.parts

(* Each builder keeps its own attributes; only two have a place for others.  *)
Base(r, kind, kept) ==
    [id |-> r.id, parent |-> r.parent, kind |-> kind, kept |-> kept, call |-> None,
     started |-> r.start, requests |-> <<>>]

_build_llm_span(r) == Base(r, "llm_call", r.keys \ {"gen_ai_other"})
_build_tool_span(r) == [Base(r, "tool_call", r.keys \cap {"tool"}) EXCEPT !.call = r.call]
_build_retrieval_span(r) == Base(r, "retrieval", r.keys \cap {"documents"})
_build_agent_turn(r) == Base(r, "agent_turn", {})
_build_custom(r) == Base(r, "custom", r.keys)

Built(r) ==
    CASE _classify_span(r) = "llm_call" -> _build_llm_span(r)
      [] _classify_span(r) = "tool_call" -> _build_tool_span(r)
      [] _classify_span(r) = "retrieval" -> _build_retrieval_span(r)
      [] _classify_span(r) = "agent_turn" -> _build_agent_turn(r)
      [] OTHER -> _build_custom(r)

(* Whether the builder and the validators of the span accept it.             *)
Builds(r) ==
    /\ Given(r.start) /\ _duration_ms(r) >= 0
    /\ _classify_span(r) = "llm_call" => _total_covers_components(r)

-----------------------------------------------------------------------------
(* Linking tool calls to the model calls that must have asked for them.      *)

(* by_id: of spans that share an id the last one.                            *)
ById(spans, id) ==
    LET at == {i \in DOMAIN spans : spans[i].id = id} IN
    IF at = {} THEN None ELSE spans[CHOOSE i \in at : \A j \in at : j <= i]

(* The parent as it was before any linking, else the nearest model call      *)
(* before the tool call as it is now.                                        *)
Candidate(spans, out, i) ==
    LET parent == IF out[i].parent = None THEN None ELSE ById(spans, out[i].parent)
        before == {j \in 1..(i - 1) : out[j].kind = "llm_call"}
    IN  IF parent # None /\ parent.kind = "llm_call" THEN parent
        ELSE IF before = {} THEN None
        ELSE out[CHOOSE j \in before : \A k \in before : k <= j]

(* One tool span: out.index(candidate) raises when the candidate was         *)
(* replaced by a copy in the meantime.                                       *)
Link(spans, acc, i) ==
    LET s == acc.out[i]
        c == Candidate(spans, acc.out, i)
        at == {j \in DOMAIN acc.out : acc.out[j] = c}
    IN  CASE acc.raised \/ s.kind # "tool_call" \/ s.call = None
                \/ s.call \in acc.requested -> acc
          [] OTHER ->
             IF c = None THEN [acc EXCEPT !.out[i].call = None]
             ELSE IF at = {} THEN [acc EXCEPT !.raised = TRUE]
             ELSE LET j == CHOOSE k \in at : \A l \in at : k <= l IN
                  [acc EXCEPT !.out[j].requests = Append(@, s.call),
                              !.requested = @ \cup {s.call}]

(* No builder of the importer fills tool_use_requested, so the ids requested *)
(* before linking are none.                                                  *)
_link_tool_use_ids(spans) ==
    LET Step(acc, i) == Link(spans, acc, i) IN
    FoldLeft(Step, [out |-> spans, requested |-> {}, raised |-> FALSE],
             [i \in DOMAIN spans |-> i])

-----------------------------------------------------------------------------
(* The trace and its validators.                                             *)

_span_ids_unique(spans) == IsInjective([i \in DOMAIN spans |-> spans[i].id])

_parent_ids_reference_existing_spans(spans) ==
    \A i \in DOMAIN spans :
        spans[i].parent # None => \E j \in DOMAIN spans : spans[j].id = spans[i].parent

Requested(spans) == UNION {ToSet(spans[i].requests) : i \in DOMAIN spans}

_tool_use_ids_linked(spans) ==
    \A i \in DOMAIN spans : spans[i].call # None => spans[i].call \in Requested(spans)

Validates(spans) ==
    /\ _span_ids_unique(spans)
    /\ _parent_ids_reference_existing_spans(spans)
    /\ _tool_use_ids_linked(spans)

(* The first conversation id of the batch in order of arrival.               *)
_detect_thread_id(raws) ==
    LET with == {i \in DOMAIN raws : raws[i].thread # None} IN
    IF with = {} THEN None ELSE raws[CHOOSE i \in with : \A j \in with : i <= j].thread

Rejected == [spans |-> None, thread |-> None]

import_otel_spans(raws) ==
    LET linked == _link_tool_use_ids([i \in DOMAIN raws |-> Built(raws[i])]) IN
    IF /\ \A i \in DOMAIN raws : Builds(raws[i])
       /\ ~linked.raised
       /\ Validates(linked.out)
    THEN [spans |-> linked.out, thread |-> _detect_thread_id(raws)]
    ELSE Rejected

-----------------------------------------------------------------------------
(* Feeding a live recorder.                                                  *)

(* The decoder clamps the duration of a span, and a span without a start has *)
(* time zero.                                                                *)
decode_otlp_protobuf(r) ==
    [r EXCEPT !.duration = IF r.start = None \/ r.end = None \/ r.end < r.start
                           THEN 0 ELSE r.end - r.start,
              !.start = IF r.start = None THEN 0 ELSE r.start]

(* A builder that raises ends the request; what was appended stays.          *)
feed_to_recorder(rec, r) ==
    IF ~Builds(r) THEN rec
    ELSE [rec EXCEPT !.spans = Append(@, Built(r)),
                     !.llm = @ + (IF _classify_span(r) = "llm_call" THEN 1 ELSE 0)]

-----------------------------------------------------------------------------
Init ==
    /\ batch = <<>> /\ posted = <<>> /\ rows = {} /\ live = <<>>
    /\ recorder = [spans |-> <<>>, llm |-> 0, tools |-> 0]

Named(shape, id, parent) == shape @@ [id |-> id, parent |-> parent]

(* The agent ends a span and exports it.  It names any span of its trace as  *)
(* parent, the ones that end later included.                                 *)
Export(shape, id, parent) ==
    /\ posted = <<>> /\ Len(batch) < MaxSpans
    /\ batch' = Append(batch, Named(shape, id, parent))
    /\ recorder' = feed_to_recorder(recorder, decode_otlp_protobuf(Named(shape, id, parent)))
    /\ UNCHANGED <<posted, rows, live>>

Closed == 0     \* the event that ends a run; span ids start at 1

Events(spans) == [i \in DOMAIN spans |-> spans[i].id] \o <<Closed>>

(* The built trace is posted, under an id of the caller or under a minted    *)
(* one, again when the caller lost the answer.  It is stored before its      *)
(* spans and the end of the run are published, and a run ends once.          *)
ingest_trace(id) ==
    LET trace == import_otel_spans(batch)
        row == [id |-> IF id = None THEN Len(posted) ELSE id, spans |-> trace.spans]
    IN  /\ trace # Rejected /\ batch # <<>> /\ Len(posted) < MaxPosts
        /\ rows' = {r \in rows : r.id # row.id} \cup {row}
        /\ live' = IF Closed \in ToSet(live) THEN live ELSE live \o Events(row.spans)
        /\ posted' = Append(posted, id) /\ UNCHANGED <<batch, recorder>>

ExportNext ==
    \E s \in Shapes, p \in (1..MaxSpans) \cup Parents :
        \/ Export(s, Len(batch) + 1, p)
        \/ Reused /\ batch # <<>> /\ Export(s, 1, p)

CallerId == -1  \* an id the caller made; minted ones are counted from 0

PostNext == \E id \in {CallerId, None} : ingest_trace(id)

Next == ExportNext \/ PostNext

Spec == Init /\ [][Next]_vars

-----------------------------------------------------------------------------
(* Properties.                                                               *)

Imported == import_otel_spans(batch)
Accepted == Imported # Rejected

RequestedBy(spans, c) == {i \in DOMAIN spans : c \in ToSet(spans[i].requests)}
TimesRequested(spans, c) ==
    Cardinality({<<i, k>> \in (DOMAIN spans) \X (1..Len(batch)) :
                    k \in DOMAIN spans[i].requests /\ spans[i].requests[k] = c})

(* _link_tool_use_ids invents one request for each call id, and in a model   *)
(* call that is the parent of, or arrived before, a tool span with that id.  *)
LinksArePlausible ==
    Accepted =>
        \A i \in DOMAIN Imported.spans :
            LET s == Imported.spans[i] IN
            s.call # None =>
                /\ TimesRequested(Imported.spans, s.call) = 1
                /\ \E t \in DOMAIN Imported.spans, l \in RequestedBy(Imported.spans, s.call) :
                       /\ Imported.spans[t].call = s.call
                       /\ Imported.spans[l].id = Imported.spans[t].parent \/ l < t

UnderModel(i) ==
    Built(batch[i]).call # None /\ batch[i].parent # None
        /\ \E j \in DOMAIN batch :
               batch[j].id = batch[i].parent /\ _classify_span(batch[j]) = "llm_call"

(* Exporters send spans as they end, so the order of a batch means little:   *)
(* when model calls are the parents of their tool calls, the links do not    *)
(* depend on it.                                                             *)
OrderDoesNotMatter ==
    LET back == import_otel_spans(Reverse(batch))
        nested == \A i \in DOMAIN batch : Built(batch[i]).call # None => UnderModel(i)
        distinct == \A i, j \in DOMAIN batch :
            i # j /\ Built(batch[i]).call # None => Built(batch[i]).call # Built(batch[j]).call
    IN  (nested /\ distinct /\ _span_ids_unique(batch)) =>
            /\ Accepted <=> back # Rejected
            /\ Accepted => ToSet(Imported.spans) = ToSet(back.spans)

(* A batch with unique ids whose parents are in it, and whose spans build,   *)
(* is imported: linking keeps the trace valid                                *)
(* ("synthesize a ToolUseRequest on that LLM span so the schema invariant    *)
(* holds").                                                                  *)
WellFormedIsImported ==
    (/\ \A i \in DOMAIN batch : Builds(batch[i])
     /\ _span_ids_unique(batch) /\ _parent_ids_reference_existing_spans(batch)) => Accepted

(* The same for batches whose calls are all under model calls, each its own, *)
(* or none is.                                                               *)
UnmixedIsImported ==
    LET calls == {i \in DOMAIN batch : Built(batch[i]).call # None} IN
    ((\A i \in calls : ~UnderModel(i))
        \/ (\A i, j \in calls : UnderModel(i) /\ (i # j => batch[i].parent # batch[j].parent)))
    => WellFormedIsImported

(* "unknown attributes go into provider_metadata so nothing is silently      *)
(* dropped".                                                                 *)
(* The code does not keep it: tool, retrieval and agent spans have no place  *)
(* for unknown attributes.                                                   *)
NothingIsDropped ==
    Accepted => \A i \in DOMAIN batch : Imported.spans[i].kept = batch[i].keys

(* The counters of a fed recorder are those of its spans ("so trace metrics  *)
(* stay accurate").                                                          *)
(* The code does not keep it: feeding counts no tool call.                   *)
CountersMatchSpans ==
    LET Count(k) == Cardinality({i \in DOMAIN recorder.spans : recorder.spans[i].kind = k}) IN
    recorder.llm = Count("llm_call") /\ recorder.tools = Count("tool_call")

(* A recorder fed with a batch that imports ends in a trace that validates:  *)
(* the receiver claims the same classification and builders as the importer. *)
(* The code does not keep it: a fed tool span is not linked to its model     *)
(* call.                                                                     *)
FedLikeImported ==
    (Accepted /\ Len(recorder.spans) = Len(batch)) => Validates(recorder.spans)

(* A finished trace posted again under the caller's id, because the answer   *)
(* was lost, is one row ("idempotent re-ingest of the same call").           *)
RetriesAreOneRow ==
    Cardinality(rows) = Cardinality({r \in ToSet(posted) : r # None})
                            + Cardinality({i \in DOMAIN posted : posted[i] = None})

(* The viewer gets every span of the stored call, once, and then the end.    *)
ViewerGetsTheCall ==
    live # <<>> => /\ live[Len(live)] = Closed /\ IsInjective(live)
                   /\ \A r \in rows : \A i \in DOMAIN r.spans : r.spans[i].id \in ToSet(live)
=============================================================================
