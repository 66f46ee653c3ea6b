--------------------------- MODULE CaseExecution ---------------------------
(***************************************************************************)
(* The repetitions of a case in the executor: a semaphore bounds them, the *)
(* adapter is retried, and the spans of the agent reach the trace by one   *)
(* of two ways.  An embedded agent opens them on the recorder; an agent in *)
(* another process exports them to the OTLP receiver of the run, which has *)
(* one slot for the recorder that is bound.                                *)
(***************************************************************************)
EXTENDS Integers, FiniteSets

CONSTANTS
    Reps,          \* repetitions, of one or of several concurrent cases
    Concurrency,   \* of the executor's semaphore (run.parallelism)
    MaxRetries,    \* of the RetryPolicy
    Remote,        \* the agent is a cli or http one
    Flushes,       \* it exports its spans before it replies
    MaxCalls       \* bound: model calls of one repetition

Nobody == "nobody"

VARIABLES
    rep,           \* of each repetition: pc, attempt, model calls (in all and
                   \* since the last attempt began), used
    trace,         \* of each: the spans recorded and the tokens counted
    receiver,      \* the bound recorder, the pending spans, stopped
    unsent,        \* spans the agents have not posted yet
    failed         \* an exception has left run_case

vars == <<rep, trace, receiver, unsent, failed>>

Spans == Reps \X (1..MaxCalls)

\* The span the executor makes up from an adapter response.
Synthetic(r) == <<r, 0>>

Running(r) == rep[r].pc = "invoke"

\* async with sem: whichever way run_single is left.
Holding(r) == Running(r)

Set(r, pc) == rep' = [rep EXCEPT ![r].pc = pc]

\* The spans are appended and their tokens added to the recorder's totals.
feed_to_recorder(spans, r) ==
    trace' = [trace EXCEPT ![r].spans = @ \cup spans,
                           ![r].tokens = @ + Cardinality(spans)]

\* Slip: binding starts from an empty buffer.
BeginAfresh(r) ==
    /\ rep[r].pc = "queued"
    /\ Cardinality({q \in Reps : Holding(q)}) < Concurrency
    /\ ~failed
    /\ Set(r, "invoke")
    /\ receiver' = IF Remote THEN [receiver EXCEPT !.bound = r, !.pending = {}] ELSE receiver
    /\ UNCHANGED <<trace, unsent, failed>>

\* _bounded: the semaphore is taken, then the receiver is bound and the recorder
\* entered before the first await.
Begin(r) ==
    /\ rep[r].pc = "queued"
    /\ Cardinality({q \in Reps : Holding(q)}) < Concurrency
    /\ ~failed
    /\ Set(r, "invoke")
    /\ receiver' = IF Remote THEN [receiver EXCEPT !.bound = r] ELSE receiver
    /\ UNCHANGED <<trace, unsent, failed>>

\* The agent calls a model.  An embedded one may record the call on the handle;
\* a remote one has a span to export.
ModelCall(r) ==
    /\ Running(r)
    /\ rep[r].calls < MaxCalls
    /\ LET n == rep[r].calls + 1 IN
       \/ /\ Remote
          /\ unsent' = unsent \cup {<<r, n>>}
          /\ rep' = [rep EXCEPT ![r].calls = n, ![r].since = @ + 1]
          /\ UNCHANGED trace
       \/ /\ ~Remote
          /\ \E emits \in BOOLEAN :
                /\ rep' = [rep EXCEPT ![r].calls = n, ![r].since = @ + 1, ![r].used = @ \/ emits]
                /\ IF emits THEN feed_to_recorder({<<r, n>>}, r) ELSE UNCHANGED trace
          /\ UNCHANGED unsent
    /\ UNCHANGED <<receiver, failed>>

\* _SpanIngest.push, in a thread of the receiver's HTTP server.
Push(s) ==
    /\ s \in unsent
    /\ unsent' = unsent \ {s}
    /\ IF receiver.stopped THEN UNCHANGED <<trace, receiver>>
       ELSE IF receiver.bound # Nobody
       THEN feed_to_recorder({s}, receiver.bound) /\ UNCHANGED receiver
       ELSE receiver' = [receiver EXCEPT !.pending = @ \cup {s}] /\ UNCHANGED trace
    /\ UNCHANGED <<rep, failed>>

\* The post fails: the exporter of the agent gives the span up.
ExportFails(s) ==
    /\ s \in unsent
    /\ receiver.stopped
    /\ unsent' = unsent \ {s}
    /\ UNCHANGED <<rep, trace, receiver, failed>>

\* RetryingAdapter.invoke: a transient AdapterError and attempts left.
Retry(r) ==
    /\ Running(r)
    /\ rep[r].attempt < MaxRetries
    /\ rep' = [rep EXCEPT ![r].attempt = @ + 1, ![r].since = 0]
    /\ UNCHANGED <<trace, receiver, unsent, failed>>

Flushed(r) == Flushes => \A s \in unsent : s[1] # r

\* bind_recorder, on exit: what is pending goes to whatever recorder is bound
\* now, and the slot is emptied.
DrainAndUnbind(r, own) ==
    LET b == receiver.bound IN
    IF ~Remote THEN trace' = own /\ UNCHANGED receiver
    ELSE /\ trace' = IF b = Nobody THEN own
                     ELSE [own EXCEPT ![b].spans = @ \cup receiver.pending,
                                      ![b].tokens = @ + Cardinality(receiver.pending)]
         /\ receiver' = [receiver EXCEPT !.bound = Nobody,
                                         !.pending = IF b = Nobody THEN @ ELSE {}]

\* record_adapter_response: the reply's own account of its tokens, unless the
\* agent has opened spans on the handle.
Recorded(r) ==
    IF rep[r].used THEN trace
    ELSE [trace EXCEPT ![r].spans = @ \cup {Synthetic(r)}, ![r].tokens = @ + rep[r].since]

Reply(r) ==
    /\ Running(r) /\ Flushed(r)
    /\ Set(r, "done")
    /\ DrainAndUnbind(r, Recorded(r))
    /\ UNCHANGED <<unsent, failed>>

\* A permanent AdapterError, or the last transient one: recorder.fail.
AdapterFails(r) ==
    /\ Running(r) /\ Flushed(r)
    /\ Set(r, "errored")
    /\ DrainAndUnbind(r, [trace EXCEPT ![r].error = TRUE])
    /\ UNCHANGED <<unsent, failed>>

\* Any other exception (an object store that refuses a payload) leaves run_case
\* through gather, while the other repetitions go on.
Crash(r) ==
    /\ Running(r) /\ Flushed(r)
    /\ Set(r, "crashed")
    /\ failed' = TRUE
    /\ DrainAndUnbind(r, [trace EXCEPT ![r].error = TRUE])
    /\ UNCHANGED unsent

\* The loop's finally: executor.aclose() stops the receiver, if there is one.
Close ==
    /\ failed \/ \A r \in Reps : rep[r].pc \in {"done", "errored"}
    /\ ~receiver.stopped
    /\ receiver' = [receiver EXCEPT !.stopped = TRUE]
    /\ UNCHANGED <<rep, trace, unsent, failed>>

Init ==
    /\ rep = [r \in Reps |-> [pc |-> "queued", attempt |-> 0, calls |-> 0, since |-> 0, used |-> FALSE]]
    /\ trace = [r \in Reps |-> [spans |-> {}, tokens |-> 0, error |-> FALSE]]
    /\ receiver = [bound |-> Nobody, pending |-> {}, stopped |-> FALSE]
    /\ unsent = {} /\ failed = FALSE

Ends(r) == Reply(r) \/ AdapterFails(r) \/ Crash(r)

Next ==
    \/ \E r \in Reps : Begin(r) \/ ModelCall(r) \/ Retry(r) \/ Reply(r) \/ AdapterFails(r) \/ Crash(r)
    \/ \E s \in unsent : Push(s) \/ ExportFails(s)
    \/ Close

\* The event loop starts what is ready; cli and http agents have a timeout, so
\* an invocation ends; a span that was exported is posted.
Spec ==
    /\ Init /\ [][Next]_vars
    /\ \A r \in Reps : WF_vars(Begin(r)) /\ WF_vars(Ends(r))
    /\ WF_vars(\E s \in unsent : Push(s) \/ ExportFails(s))

Owned(r) == {s \in trace[r].spans : s[1] = r}

\* "spans the agent exports during invoke() ... drain into this case's trace"
\* (executor.py): every span of a trace was exported by that repetition's agent,
\* when agents flush before they reply.
SpansDrainIntoTheirCase == \A r \in Reps : trace[r].spans = Owned(r)

\* What the agent exported is in the trace once the repetition has ended.
NoExportIsLost ==
    \A r \in Reps : rep[r].pc \in {"done", "errored"} /\ Remote =>
        {<<r, n>> : n \in 1..rep[r].calls} \subseteq UNION {trace[q].spans : q \in Reps}

\* "it would double-count tokens/cost the real spans already recorded"
\* (executor.py): no trace counts more than the model calls of its repetition.
CountedOnce == \A r \in Reps : trace[r].tokens <= rep[r].calls

\* A span is in one place: with the exporter, in the buffer or in one trace.
OnePlace ==
    /\ unsent \cap receiver.pending = {}
    /\ \A r \in Reps :
          /\ trace[r].spans \cap (unsent \cup receiver.pending) = {}
          /\ \A q \in Reps \ {r} : trace[r].spans \cap trace[q].spans = {}

\* A span that was posted in time stays in the buffer or in a trace.
DrainedIntoATrace ==
    \A s \in Spans :
      s \in receiver.pending /\ s \notin receiver'.pending
         => \E r \in Reps : s \in trace'[r].spans
NeverDropped == [][DrainedIntoATrace]_vars

\* An error, a crash or a retry never keeps a place of the semaphore: whoever
\* waits gets its turn unless the run has failed.
EveryRepetitionEnds ==
    \A r \in Reps : <>(failed \/ rep[r].pc \in {"done", "errored"})
=============================================================================
