---------------------------- MODULE RedisBroker -----------------------------
(***************************************************************************)
(* The live trace of one run when the broker is Redis: a worker appends    *)
(* the spans to a stream, and every viewer of any API process reads the    *)
(* stream from its beginning (api/redis_broker.py, api/sse.py).            *)
(*                                                                         *)
(* A command of Redis is one step.  It may fail, whereupon the broker      *)
(* drops the rest of its call and the run goes on.                         *)
(***************************************************************************)
EXTENDS Integers, FiniteSets, Sequences, SequencesExt

CONSTANTS
    Viewers,
    MaxSpans,      \* bound: spans of the run
    MaxLen,        \* _STREAM_MAXLEN
    MaxFailures,   \* bound: commands that fail
    Persists       \* is the trace of the run stored when it is over

VARIABLES
    calls,         \* the commands the worker has still to send in the call under way
    phase,         \* "new", "open", "closing", "over"
    produced,      \* spans of the run so far: 1, 2, ..., produced
    stream,        \* the entries of the stream: [id, what], what a span or "closed"
    nextId,
    active,        \* the run is in the set of active runs
    closedKey,     \* the key that says the run is closed exists
    expires,       \* the stream has an expiry date
    stored,
    failures,
    viewer,        \* [pc, last, got, end]
    appended       \* history: the spans that reached the stream

redis == <<stream, nextId, active, closedKey, expires>>
worker == <<calls, phase, produced, stored, failures, appended>>
vars == <<redis, worker, viewer>>

Closed == 0        \* the entry that ends a stream; spans are 1, 2, ...

Away == [pc |-> "away", last |-> 0, got |-> <<>>, end |-> "none"]

Init ==
    /\ calls = <<>> /\ phase = "new" /\ produced = 0
    /\ stream = <<>> /\ nextId = 1 /\ active = FALSE /\ closedKey = FALSE /\ expires = FALSE
    /\ stored = FALSE /\ failures = 0 /\ viewer = [v \in Viewers |-> Away] /\ appended = {}

----------------------------------------------------------------------------
(* The worker: calls of the broker                                            *)
on_trace_started ==
    /\ phase = "new" /\ phase' = "open" /\ calls' = <<[cmd |-> "sadd"]>>
    /\ UNCHANGED <<redis, viewer, produced, stored, failures, appended>>

publish ==
    /\ phase = "open" /\ calls = <<>> /\ produced < MaxSpans
    /\ produced' = produced + 1
    /\ calls' = <<[cmd |-> "sadd"], [cmd |-> "xadd", what |-> produced + 1]>>
    /\ UNCHANGED <<redis, viewer, phase, stored, failures, appended>>

CloseCommands ==
    <<[cmd |-> "xadd", what |-> Closed], [cmd |-> "setex"], [cmd |-> "srem"], [cmd |-> "expire"]>>

close_run ==
    /\ phase = "open" /\ calls = <<>> /\ phase' = "closing" /\ calls' = CloseCommands
    /\ UNCHANGED <<redis, viewer, produced, stored, failures, appended>>

\* An append may trim the stream down to its length, or do it later.
XAdd(what) ==
    /\ \E drop \in {0, IF Len(stream) >= MaxLen THEN Len(stream) + 1 - MaxLen ELSE 0} :
          stream' = SubSeq(Append(stream, [id |-> nextId, what |-> what]), 1 + drop, Len(stream) + 1)
    /\ nextId' = nextId + 1
    /\ appended' = appended \cup ({what} \ {Closed})

Command ==
    /\ calls # <<>> /\ calls' = Tail(calls)
    /\ LET c == Head(calls) IN
       /\ IF c.cmd = "xadd" THEN XAdd(c.what) ELSE UNCHANGED <<stream, nextId, appended>>
       /\ active' = IF c.cmd = "sadd" THEN TRUE ELSE IF c.cmd = "srem" THEN FALSE ELSE active
       /\ closedKey' = (closedKey \/ c.cmd = "setex")
       /\ expires' = (expires \/ c.cmd = "expire")
    /\ UNCHANGED <<viewer, phase, produced, stored, failures>>

\* The command raises: the call is dropped, the run does not notice.
CommandFails ==
    /\ calls # <<>> /\ failures < MaxFailures
    /\ failures' = failures + 1 /\ calls' = <<>>
    /\ UNCHANGED <<redis, viewer, phase, produced, stored, appended>>

\* The repetition returns; the loop stores its trace when the policy says so.
Over == /\ phase = "closing" /\ calls = <<>> /\ phase' = "over" /\ stored' = Persists
        /\ UNCHANGED <<redis, viewer, calls, produced, failures, appended>>

Unread(v) == {i \in 1..Len(stream) : stream[i].id > viewer[v].last}

\* A day after, when the viewers have long read what there is: the keys with an expiry date go.
Expire ==
    /\ phase = "over" /\ closedKey
    /\ \A v \in Viewers : viewer[v].pc # "subscribe" /\ (viewer[v].pc = "live" => Unread(v) = {})
    /\ closedKey' = FALSE /\ stream' = IF expires THEN <<>> ELSE stream
    /\ UNCHANGED <<nextId, active, expires, worker, viewer>>

----------------------------------------------------------------------------
(* A viewer: stream_trace and subscribe                                       *)
Set(v, r) == viewer' = [viewer EXCEPT ![v] = r] /\ UNCHANGED <<redis, worker>>
Told(v, end) == Set(v, [viewer[v] EXCEPT !.pc = "done", !.end = end])

\* A stored trace is terminal: the viewer has all of it and is sent complete.
Snapshot(v) ==
    /\ viewer[v].pc = "away"
    /\ IF stored THEN Set(v, [viewer[v] EXCEPT !.pc = "done", !.end = "complete",
                              !.got = [i \in 1..produced |-> i]])
       ELSE Set(v, [viewer[v] EXCEPT !.pc = "subscribe"])

\* Slip: the subscription starts at the end of the stream.
SubscribeAtEnd(v) ==
    /\ viewer[v].pc = "subscribe"
    /\ IF closedKey THEN Told(v, "complete")
       ELSE Set(v, [viewer[v] EXCEPT !.pc = "live", !.last = nextId - 1])

subscribe(v) ==
    /\ viewer[v].pc = "subscribe"
    /\ IF closedKey THEN Told(v, "complete") ELSE Set(v, [viewer[v] EXCEPT !.pc = "live"])

\* Reading the key is not guarded: the generator raises and the connection ends without a word.
SubscribeFails(v) ==
    /\ viewer[v].pc = "subscribe" /\ failures < MaxFailures
    /\ failures' = failures + 1
    /\ viewer' = [viewer EXCEPT ![v].pc = "done", ![v].end = "raised"]
    /\ UNCHANGED <<redis, calls, phase, produced, stored, appended>>

\* xread returns entries after the last one, in their order; without any it blocks and is repeated.
xread(v) ==
    /\ viewer[v].pc = "live" /\ Unread(v) # {}
    /\ LET e == stream[CHOOSE i \in Unread(v) : \A j \in Unread(v) : i <= j]
       IN  IF e.what = Closed THEN Told(v, "complete")
           ELSE Set(v, [viewer[v] EXCEPT !.last = e.id, !.got = Append(@, e.what)])

ReadFails(v) ==
    /\ viewer[v].pc = "live" /\ failures < MaxFailures
    /\ failures' = failures + 1
    /\ viewer' = [viewer EXCEPT ![v].pc = "done", ![v].end = "disconnected"]
    /\ UNCHANGED <<redis, calls, phase, produced, stored, appended>>

Leave(v) == viewer[v].pc \in {"subscribe", "live"} /\ Told(v, "left")

Worker == on_trace_started \/ publish \/ close_run \/ Command \/ Over
View(v) == subscribe(v) \/ xread(v)
Next ==
    \/ Worker \/ CommandFails \/ Expire
    \/ \E v \in Viewers : Snapshot(v) \/ View(v) \/ SubscribeFails(v) \/ ReadFails(v) \/ Leave(v)

\* A run ends, and the event loop serves its viewers.
Fairness == WF_vars(on_trace_started) /\ WF_vars(close_run) /\ WF_vars(Command) /\ WF_vars(Over)
            /\ \A v \in Viewers : WF_vars(View(v))

Spec == Init /\ [][Next]_vars /\ Fairness

----------------------------------------------------------------------------
(* Properties                                                                 *)
\* A viewer gets the spans in the order of the run, and none of them twice.
InOrderOnce ==
    \A v \in Viewers : \A i, j \in 1..Len(viewer[v].got) :
        i < j => viewer[v].got[i] < viewer[v].got[j]

\* While nothing is trimmed, a viewer who reads the end from the stream has read every span that
\* ever reached it, those from before it came too.
ReplayIsComplete ==
    \A v \in Viewers :
        (viewer[v].end = "complete" /\ viewer[v].last > 0) =>
            ToSet(viewer[v].got) = appended

\* A viewer of a run that fits the stream (_STREAM_MAXLEN) is not told of its end before it has
\* read the whole; of a longer one it still reads what there is in order.
RedisViewersSeeTheRun == InOrderOnce /\ (MaxSpans < MaxLen => ReplayIsComplete)

\* The in-flight spans are never lost between the snapshot and going live: whoever is told that
\* the run is complete has seen every span that reached the stream.
\* The code does not keep it: the closed key is looked at before the stream is read.
CompleteMeansSeen ==
    \A v \in Viewers : viewer[v].end = "complete" => appended \subseteq ToSet(viewer[v].got)

\* Whoever watches a run is told of its end.
ViewersEnd == \A v \in Viewers : (viewer[v].pc = "live") ~> (viewer[v].pc = "done")

\* A run that is over is not listed as active for ever.
ActiveRunsEnd == (phase = "over") ~> ~active
=============================================================================
