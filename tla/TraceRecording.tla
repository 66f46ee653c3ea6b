--------------------------- MODULE TraceRecording ---------------------------
(***************************************************************************)
(* One embedded agent under one recorder: the executor binds the ambient   *)
(* trace handle, and every task the agent starts (asyncio tasks and        *)
(* to_thread calls inherit the context) opens and closes spans of its own  *)
(* through it, while the recorder keeps one stack for all of them.         *)
(***************************************************************************)
EXTENDS Naturals, Sequences, SequencesExt, FiniteSets

-----------------------------------------------------------------------------
(***************************************************************************)
(* The recorder of one trace (trace/recorder.py) as operators on a record: *)
(* the recorded spans, the one stack of open spans, what the live sink was *)
(* told and the counters that become the metrics of the trace.             *)
(***************************************************************************)

NoSpan == 0

NewRecorder ==
    [spans |-> <<>>, open |-> <<>>, live |-> <<>>, state |-> "unset",
     tokens |-> 0, llm_calls |-> 0, tool_calls |-> 0]

CurrentParent(r) == IF r.open = <<>> THEN NoSpan ELSE Last(r.open)

SinkCall(r, event) == [r EXCEPT !.live = Append(@, event)]

Event(name) == [event |-> name]

Begin(r) == SinkCall(r, Event("started"))

Record(r, span) == SinkCall([r EXCEPT !.spans = Append(@, span)], span)

\* Entering a with block: the parent is whatever is open last.
OpenSpan(r, id, kind) ==
    [id |-> id, kind |-> kind, parent |-> CurrentParent(r), failed |-> FALSE]

Push(r, id) == [r EXCEPT !.open = Append(@, id)]

\* Leaving it pops the last open span, whichever that is.
Pop(r) == [r EXCEPT !.open = Front(@)]

LeaveAgentTurn(r, span) == Record(Pop(r), span)

LeaveLLMCall(r, span) ==
    [Record(Pop(r), span) EXCEPT !.llm_calls = @ + 1, !.tokens = @ + 1]

LeaveToolCall(r, span, raised) ==
    [Record(Pop(r), [span EXCEPT !.failed = raised]) EXCEPT !.tool_calls = @ + 1]

LeaveVoice(r, span) == Record(Pop(r), span)

\* Slip: the parent is taken when the span is recorded.
LeaveReparented(r, span, raised) ==
    LET s == [span EXCEPT !.parent = CurrentParent(r)] IN
    CASE span.kind = "llm_call" -> LeaveLLMCall(r, s)
      [] span.kind = "tool_call" -> LeaveToolCall(r, s, raised)
      [] OTHER -> LeaveVoice(r, s)

Leave(r, span, raised) ==
    CASE span.kind = "agent_turn" -> LeaveAgentTurn(r, span)
      [] span.kind = "llm_call" -> LeaveLLMCall(r, span)
      [] span.kind = "tool_call" -> LeaveToolCall(r, span, raised)
      [] OTHER -> LeaveVoice(r, span)

Fact(r, id, kind) == OpenSpan(r, id, kind)

AddFact(r, id, kind) == Record(r, Fact(r, id, kind))

\* complete(), abort(), fail() and timeout() set the state; the last one wins.
SetState(r, s) == [r EXCEPT !.state = s]

\* __exit__: a state set before is kept.
End(r, raised) ==
    LET s == IF r.state # "unset" THEN r.state
             ELSE IF raised THEN "errored" ELSE "completed"
    IN  SinkCall([r EXCEPT !.state = s], Event("finished"))

Build(r) ==
    [spans |-> r.spans, state |-> IF r.state = "unset" THEN "completed" ELSE r.state,
     tokens |-> r.tokens, llm_calls |-> r.llm_calls, tool_calls |-> r.tool_calls]

-----------------------------------------------------------------------------
(* The agent and its tasks.                                                *)

CONSTANTS
    Tasks,         \* concurrent tasks of one invocation
    MaxSpans,      \* bound: spans of one trace, the case turn included
    MaxDepth       \* bound: with blocks one task holds

VARIABLES
    rec,           \* the recorder
    held,          \* of each task: the spans of the with blocks it is in
    within,        \* history: of each id, the span it was opened in by its own task
    phase,         \* of run_single
    used,          \* AgentTraceHandle.used
    trace          \* what build() returned

vars == <<rec, held, within, phase, used, trace>>

Turn == 1

NextId == Len(within) + 1

Idle == \A t \in Tasks : held[t] = <<>>

Innermost(t) == IF held[t] = <<>> THEN Turn ELSE Last(held[t]).id

\* with recorder, recorder.agent_turn(...), bind_trace_handle(recorder):
BeginTurn ==
    /\ phase = "new"
    /\ LET r == Begin(rec) IN rec' = Push(r, Turn)
    /\ within' = <<NoSpan>>
    /\ phase' = "agent"
    /\ UNCHANGED <<held, used, trace>>

\* The facade's context managers: agent_turn, llm_call, tool_call, stt, tts.
HandleOpen(t, kind) ==
    /\ phase = "agent"
    /\ NextId <= MaxSpans /\ Len(held[t]) < MaxDepth
    /\ used' = TRUE
    /\ held' = [held EXCEPT ![t] = Append(@, OpenSpan(rec, NextId, kind))]
    /\ within' = Append(within, Innermost(t))
    /\ rec' = Push(rec, NextId)
    /\ UNCHANGED <<phase, trace>>

\* A with block is left, by an exception too: it is caught around the block or leaves
\* the next one as well, and tasks in other threads run in between.
HandleClose(t, raised) ==
    /\ phase = "agent"
    /\ held[t] # <<>>
    /\ rec' = Leave(rec, Last(held[t]), raised)
    /\ held' = [held EXCEPT ![t] = Front(@)]
    /\ UNCHANGED <<within, phase, used, trace>>

HandleFact(t, kind) ==
    /\ phase = "agent"
    /\ NextId <= MaxSpans
    /\ used' = TRUE
    /\ rec' = AddFact(rec, NextId, kind)
    /\ within' = Append(within, Innermost(t))
    /\ UNCHANGED <<held, phase, trace>>

\* invoke() returned or raised: the case turn and the recorder are left.
EndTurn(failed) ==
    /\ phase = "agent"
    /\ Idle
    /\ LET a == IF failed THEN SetState(AddFact(rec, NextId, "error"), "errored") ELSE rec
           c == LeaveAgentTurn(a, [id |-> Turn, kind |-> "agent_turn",
                                   parent |-> NoSpan, failed |-> FALSE])
           e == End(c, FALSE)
       IN  rec' = e /\ trace' = Build(e)
    /\ within' = IF failed THEN Append(within, Turn) ELSE within
    /\ phase' = "built"
    /\ UNCHANGED <<held, used>>

Init ==
    /\ rec = NewRecorder /\ held = [t \in Tasks |-> <<>>]
    /\ within = <<>> /\ phase = "new" /\ used = FALSE
    /\ trace = Build(NewRecorder)

Next ==
    \/ BeginTurn
    \/ \E t \in Tasks, k \in {"agent_turn", "llm_call", "tool_call"} : HandleOpen(t, k)
    \/ \E t \in Tasks, raised \in BOOLEAN : HandleClose(t, raised)
    \/ \E t \in Tasks : HandleFact(t, "decision")
    \/ \E failed \in BOOLEAN : EndTurn(failed)

Spec == Init /\ [][Next]_vars

Recorded(kind) == {i \in DOMAIN rec.spans : rec.spans[i].kind = kind}

\* "so spans nest correctly under the executor's agent_turn" (trace/context.py):
\* the parent of a recorded span is the span its own task was in.
NestsCorrectly == \A i \in DOMAIN rec.spans : rec.spans[i].parent = within[rec.spans[i].id]

\* Spans reach the trace innermost first: whatever is recorded after its parent
\* has closed would be left out of the parent's duration in the viewer.
InnermostFirst ==
    \A i, j \in DOMAIN rec.spans : rec.spans[i].parent = rec.spans[j].id => i < j

\* The counters kept on the side say what the spans of the trace say, also when
\* a block was left by an exception.
MetricsMatchSpans ==
    phase = "built" =>
        /\ trace.llm_calls = Cardinality(Recorded("llm_call"))
        /\ trace.tokens = Cardinality(Recorded("llm_call"))
        /\ trace.tool_calls = Cardinality(Recorded("tool_call"))
        /\ trace.spans = rec.spans

\* "the live stream sees exactly what build() will persist" (recorder.py): each
\* span once, in order, between the start and the end of the channel.
LiveIsPersisted ==
    phase = "built" => rec.live = <<Event("started")>> \o trace.spans \o <<Event("finished")>>

\* Whichever task closes in whatever order, every span that was opened is in the
\* trace and the stack ends empty.
NoSpanIsLost ==
    phase = "built" =>
        /\ {trace.spans[i].id : i \in DOMAIN trace.spans} = DOMAIN within
        /\ Len(trace.spans) = Len(within)
        /\ rec.open = <<>>
=============================================================================
