----------------------------- MODULE SpanBroker -----------------------------
(***************************************************************************)
(* The live trace of one repetition (one run_id): the run thread posts its *)
(* spans to the API's event loop, the in-process SpanBroker fans them out  *)
(* to bounded queues, and one SSE connection per viewer drains its queue.  *)
(*                                                                         *)
(* A step is what runs on the event loop between two suspensions, or one   *)
(* call of the run thread.  A FIFO is kept as everything ever put in it    *)
(* and the number of items taken: its content is the rest.                 *)
(***************************************************************************)
EXTENDS Integers, Sequences

CONSTANTS
    Viewers,    \* SSE connections to this run, each one opened at most once
    MaxSpans,   \* bound: spans the repetition records
    QueueMax    \* _QUEUE_MAXSIZE

ASSUME ConstantsAssumption ==
    /\ MaxSpans \in Nat
    /\ QueueMax \in Nat \ {0}

VARIABLES
    run,       \* the TraceRecorder: "new", "open" or "finished"
    produced,  \* spans recorded so far; they are 1, 2, ..., produced
    log,       \* callbacks posted with call_soon_threadsafe
    ran,       \* how many of them the event loop has run
    stored,    \* the trace is in Postgres
    channel,   \* SpanBroker._channels[key]
    pc,        \* control state of every connection
    got,       \* everything put in a connection's queue
    taken,     \* how much of it the connection has taken
    flagged,   \* _Subscriber.closed
    joined,    \* spans whose callback had run when the connection subscribed
    missed,    \* a put to its queue found the queue full
    complete   \* connections that were sent the complete frame

thread  == <<run, produced, log, stored>>
viewer  == <<pc, taken, joined, complete>>
queues  == <<got, flagged, missed>>
vars    == <<thread, ran, channel, viewer, queues>>

-----------------------------------------------------------------------------
Mark    == [kind |-> "mark", n |-> 0]
Close   == [kind |-> "close", n |-> 0]
Span(i) == [kind |-> "span", n |-> i]
Event   == [kind : {"mark", "span", "close"}, n : Nat]

(* No entry for the run in _channels; a fresh _Channel(), open and empty.   *)
NoChannel    == [exists |-> FALSE, closed |-> FALSE, subscribers |-> {}]
FreshChannel == [exists |-> TRUE, closed |-> FALSE, subscribers |-> {}]

(* self._channels.setdefault(key, _Channel())                               *)
OpenedChannel == IF channel.exists THEN channel ELSE FreshChannel

(* SpanBroker.active_runs lists the run.                                    *)
Active == channel.exists /\ ~channel.closed

(* The callbacks that the loop has run: the spans among them, and the close. *)
Fanned   == IF ran = 0 THEN 0 ELSE IF log[ran] = Close THEN ran - 2 ELSE ran - 1
CloseRan == ran > 0 /\ log[ran] = Close

TypeOK ==
    /\ run \in {"new", "open", "finished"}
    /\ produced \in 0..MaxSpans
    /\ log \in Seq(Event)
    /\ ran \in 0..Len(log)
    /\ stored \in BOOLEAN
    /\ channel \in [exists : BOOLEAN, closed : BOOLEAN, subscribers : SUBSET Viewers]
    /\ pc \in [Viewers -> {"idle", "subscribe", "live", "detach", "done"}]
    /\ got \in [Viewers -> Seq(Event)]
    /\ taken \in [Viewers -> Nat]
    /\ \A v \in Viewers : taken[v] <= Len(got[v]) /\ Len(got[v]) - taken[v] <= QueueMax
    /\ flagged \in [Viewers -> BOOLEAN]
    /\ joined \in [Viewers -> Nat]
    /\ missed \in [Viewers -> BOOLEAN]
    /\ complete \subseteq Viewers

Init ==
    /\ run = "new" /\ produced = 0 /\ log = <<>> /\ stored = FALSE
    /\ ran = 0 /\ channel = NoChannel
    /\ pc = [v \in Viewers |-> "idle"]
    /\ got = [v \in Viewers |-> <<>>]
    /\ taken = [v \in Viewers |-> 0]
    /\ flagged = [v \in Viewers |-> FALSE]
    /\ joined = [v \in Viewers |-> 0]
    /\ missed = [v \in Viewers |-> FALSE]
    /\ complete = {}

-----------------------------------------------------------------------------
(* The run thread.                                                          *)
StartTrace ==   \* TraceRecorder.__enter__
    /\ run = "new"
    /\ run' = "open"
    /\ log' = Append(log, Mark)
    /\ UNCHANGED <<produced, stored, ran, channel, viewer, queues>>

(* Slip: a span may be recorded after the trace was closed. *)
RecordSpanLate ==
    /\ run # "new" /\ produced < MaxSpans
    /\ produced' = produced + 1
    /\ log' = Append(log, Span(produced + 1))
    /\ UNCHANGED <<run, stored, ran, channel, viewer, queues>>

RecordSpan ==   \* TraceRecorder._record
    /\ run = "open" /\ produced < MaxSpans
    /\ produced' = produced + 1
    /\ log' = Append(log, Span(produced + 1))
    /\ UNCHANGED <<run, stored, ran, channel, viewer, queues>>

FinishTrace ==   \* TraceRecorder.__exit__
    /\ run = "open"
    /\ run' = "finished"
    /\ log' = Append(log, Close)
    /\ UNCHANGED <<produced, stored, ran, channel, viewer, queues>>

(* _maybe_persist_trace, after the grading; with persist_traces none or     *)
(* failed it may never write.                                               *)
PersistTrace ==
    /\ run = "finished" /\ ~stored
    /\ stored' = TRUE
    /\ UNCHANGED <<run, produced, log, ran, channel, viewer, queues>>

-----------------------------------------------------------------------------
(* Callbacks of the event loop, in the order they were posted.              *)
Pending(kind) == ran < Len(log) /\ log[ran + 1].kind = kind

Full(v) == Len(got[v]) - taken[v] = QueueMax

(* put_nowait to the queue of every subscriber; QueueFull is the outcome    *)
(* for those whose queue is full.                                           *)
PutAll(e) ==
    /\ got' = [v \in Viewers |-> IF v \in channel.subscribers /\ ~Full(v)
                                 THEN Append(got[v], e) ELSE got[v]]
    /\ missed' = [v \in Viewers |-> missed[v] \/ (v \in channel.subscribers /\ Full(v))]

MarkActiveSync ==
    /\ Pending("mark")
    /\ ran' = ran + 1
    /\ channel' = OpenedChannel
    /\ UNCHANGED <<thread, viewer, queues>>

(* Slip: the first full queue ends the fan-out. *)
PublishSyncStopping ==
    /\ Pending("span")
    /\ ran' = ran + 1
    /\ IF Active /\ \A v \in channel.subscribers : ~Full(v)
       THEN /\ PutAll(log[ran + 1])
            /\ UNCHANGED flagged
       ELSE /\ flagged' = [v \in Viewers |-> flagged[v] \/ (v \in channel.subscribers /\ Full(v))]
            /\ UNCHANGED <<got, missed>>
    /\ UNCHANGED <<thread, channel, viewer>>

(* A subscriber that is too slow is flagged; the _Closed("disconnected")    *)
(* put right after the failed one meets the same full queue.                *)
PublishSync ==
    /\ Pending("span")
    /\ ran' = ran + 1
    /\ IF Active
       THEN /\ PutAll(log[ran + 1])
            /\ flagged' = [v \in Viewers |-> flagged[v] \/ (v \in channel.subscribers /\ Full(v))]
       ELSE UNCHANGED queues
    /\ UNCHANGED <<thread, channel, viewer>>

(* Slip: the channel is closed without telling the subscribers. *)
CloseSyncQuiet ==
    /\ Pending("close")
    /\ ran' = ran + 1
    /\ channel' = [OpenedChannel EXCEPT !.closed = TRUE]
    /\ UNCHANGED <<thread, viewer, queues>>

CloseSync ==
    /\ Pending("close")
    /\ ran' = ran + 1
    /\ channel' = [OpenedChannel EXCEPT !.closed = TRUE]
    /\ PutAll(Close)
    /\ UNCHANGED <<thread, viewer, flagged>>

-----------------------------------------------------------------------------
(* stream_trace and SpanBroker.subscribe.                                   *)
Goto(v, label) == pc' = [pc EXCEPT ![v] = label]

(* The snapshot: a stored trace is terminal and ends the stream; without    *)
(* one the viewer gets an empty snapshot and goes on to subscribe.          *)
Snapshot(v) ==
    /\ pc[v] = "idle"
    /\ \/ stored /\ Goto(v, "done") /\ complete' = complete \cup {v}
       \/ ~stored /\ Goto(v, "subscribe") /\ UNCHANGED complete
    /\ UNCHANGED <<thread, ran, channel, taken, joined, queues>>

(* The lock is never held across a suspension.  On a closed channel the     *)
(* generator returns before its try block: the subscriber stays listed.     *)
Subscribe(v) ==
    /\ pc[v] = "subscribe"
    /\ channel' = [OpenedChannel EXCEPT !.subscribers = @ \cup {v}]
    /\ joined' = [joined EXCEPT ![v] = Fanned]
    /\ \/ channel.closed /\ Goto(v, "done") /\ complete' = complete \cup {v}
       \/ ~channel.closed /\ Goto(v, "live") /\ UNCHANGED complete
    /\ UNCHANGED <<thread, ran, taken, queues>>

Receive(v) ==   \* await sub.queue.get(), then the span or complete frame
    /\ pc[v] = "live" /\ taken[v] < Len(got[v])
    /\ taken' = [taken EXCEPT ![v] = @ + 1]
    /\ \/ /\ got[v][taken[v] + 1] = Close
          /\ complete' = complete \cup {v}
          /\ Goto(v, "detach")
       \/ /\ got[v][taken[v] + 1] # Close
          /\ UNCHANGED <<pc, complete>>
    /\ UNCHANGED <<thread, ran, channel, joined, queues>>

(* The client goes away: the next-event task is cancelled, the finally      *)
(* clause of the subscription runs in a later step.                         *)
Disconnect(v) ==
    /\ \/ pc[v] = "subscribe" /\ Goto(v, "done")
       \/ pc[v] = "live" /\ Goto(v, "detach")
    /\ UNCHANGED <<thread, ran, channel, taken, joined, complete, queues>>

(* The finally clause: every flagged subscriber is dropped with it, and an  *)
(* empty closed channel is forgotten.                                       *)
Detach(v) ==
    /\ pc[v] = "detach"
    /\ Goto(v, "done")
    /\ flagged' = [flagged EXCEPT ![v] = TRUE]
    /\ LET rest == {s \in channel.subscribers : ~flagged'[s]} IN
       channel' = IF ~channel.exists \/ (rest = {} /\ channel.closed) THEN NoChannel
                  ELSE [channel EXCEPT !.subscribers = rest]
    /\ UNCHANGED <<thread, ran, taken, joined, complete, got, missed>>

-----------------------------------------------------------------------------
Thread     == StartTrace \/ RecordSpan \/ FinishTrace \/ PersistTrace
Callback   == MarkActiveSync \/ PublishSync \/ CloseSync
Stream(v)  == Subscribe(v) \/ Receive(v) \/ Detach(v)

Next == \/ Thread
        \/ Callback
        \/ \E v \in Viewers : Snapshot(v) \/ Stream(v) \/ Disconnect(v)

Spec == Init /\ [][Next]_vars

(* The event loop runs its callbacks and resumes its tasks; the run, the    *)
(* storage and the clients owe nothing.                                     *)
FairSpec == /\ Spec
            /\ WF_vars(Callback)
            /\ \A v \in Viewers : WF_vars(Stream(v))

-----------------------------------------------------------------------------
(* A viewer whose queue never overflowed has received, or will find in its  *)
(* queue, exactly the spans fanned out since it subscribed, in the order    *)
(* they were recorded, whatever the other viewers do and however slow they  *)
(* are (_publish_sync, broker.py 187-198).                                  *)
NoSilentGap ==
    \A v \in Viewers : pc[v] = "live" /\ ~missed[v] =>
        /\ \A i \in 1..(Fanned - joined[v]) : i \in DOMAIN got[v] /\ got[v][i] = Span(joined[v] + i)
        /\ \A i \in DOMAIN got[v] : i > Fanned - joined[v] => got[v][i] = Close

(* A viewer that took the complete frame from its queue has seen every span *)
(* that the repetition recorded after it subscribed: nothing is recorded or *)
(* delivered behind the close (recorder.py 431-448, broker.py 208-213).     *)
CompleteIsWhole ==
    \A v \in complete : taken[v] > 0 /\ ~missed[v] =>
        /\ taken[v] = produced - joined[v] + 1
        /\ \A i \in 1..(produced - joined[v]) : got[v][i] = Span(joined[v] + i)

(* A viewer that is attached when the run finishes and before its close has *)
(* been fanned out gets to the end of the stream, unless its queue          *)
(* overflowed (sse.py 93-114).                                              *)
AttachedViewersEnd ==
    \A v \in Viewers :
        pc[v] = "live" /\ run = "finished" /\ ~CloseRan ~> pc[v] = "done" \/ missed[v]

-----------------------------------------------------------------------------
(* Claims of comments that the code does not keep.                          *)

(* _QUEUE_MAXSIZE: "the slowest subscriber gets disconnected", so one whose *)
(* queue overflowed does not wait on when the run is over.                  *)
SlowIsDisconnected ==
    \A v \in Viewers : pc[v] = "live" /\ missed[v] /\ CloseRan ~> pc[v] = "done"

(* _close_sync records the closed state "so subscribe() can emit _Closed    *)
(* immediately": who subscribes after the close is told of the end.         *)
LateViewersEnd == \A v \in Viewers : pc[v] = "subscribe" /\ CloseRan ~> pc[v] = "done"
=============================================================================
