-------------------------- MODULE SpanBrokerProofs --------------------------
(***************************************************************************)
(* What the in-process broker delivers, for any number of viewers, spans   *)
(* and any queue size; then the same for the Redis broker (RedisBroker),   *)
(* and what the spans carry that are streamed (Payloads).                  *)
(***************************************************************************)
EXTENDS SpanBroker, WellFoundedInduction, TLAPS

(* The run thread posts Mark, the spans in order, and last the close.       *)
LogShape ==
    /\ run = "new" => produced = 0 /\ Len(log) = 0
    /\ run = "open" => Len(log) = produced + 1
    /\ run = "finished" => Len(log) = produced + 2 /\ log[produced + 2] = Close
    /\ run # "new" => log[1] = Mark
    /\ \A i \in 1..produced : log[i + 1] = Span(i)

(* A channel is closed by the close callback only, and one that is gone has *)
(* no subscribers.                                                          *)
ChannelShape ==
    /\ channel.closed => channel.exists /\ CloseRan
    /\ ~channel.exists => channel.subscribers = {}

(* Who is on the channel: nobody before subscribing, and until the close    *)
(* has run every viewer that is live and did not overflow.                  *)
Attached ==
    /\ \A v \in Viewers : pc[v] \in {"idle", "subscribe"} =>
          v \notin channel.subscribers /\ got[v] = <<>> /\ taken[v] = 0
          /\ ~missed[v] /\ ~flagged[v] /\ v \notin complete
    /\ \A v \in Viewers : pc[v] = "live" => v \notin complete /\ (flagged[v] => missed[v])
    /\ \A v \in Viewers : pc[v] = "live" /\ ~missed[v] /\ ~CloseRan => v \in channel.subscribers

(* Its queue history, span by span.                                         *)
Exact(v) ==
    /\ joined[v] <= Fanned
    /\ Len(got[v]) \in {Fanned - joined[v], Fanned - joined[v] + 1}
    /\ \A i \in 1..(Fanned - joined[v]) : got[v][i] = Span(joined[v] + i)
    /\ Len(got[v]) = Fanned - joined[v] + 1 =>
          CloseRan /\ got[v][Fanned - joined[v] + 1] = Close

Delivered == \A v \in Viewers : pc[v] = "live" /\ ~missed[v] => Exact(v)

Finished ==
    \A v \in complete : taken[v] > 0 /\ ~missed[v] =>
        CloseRan /\ Exact(v) /\ taken[v] = Fanned - joined[v] + 1

IInv == TypeOK /\ LogShape /\ ChannelShape /\ Attached /\ Delivered /\ Finished

-----------------------------------------------------------------------------
(* Where the loop is in the log tells which callback comes next and how     *)
(* many spans have been fanned out.                                         *)
LEMMA Position ==
    ASSUME TypeOK, LogShape
    PROVE  /\ Fanned \in 0..produced
           /\ CloseRan <=> run = "finished" /\ ran = produced + 2
           /\ CloseRan => Fanned = produced /\ ran = Len(log)
           /\ ran > 0 /\ ~CloseRan => Fanned = ran - 1
           /\ ran = 0 => Fanned = 0 /\ ~CloseRan
           /\ Pending("mark") => ran = 0
           /\ Pending("span") => ran > 0 /\ ran <= produced /\ log[ran + 1] = Span(ran)
           /\ Pending("close") => run = "finished" /\ ran = produced + 1
  <1>1. /\ produced \in Nat /\ ran \in Nat /\ Len(log) \in Nat /\ ran <= Len(log)
        /\ run \in {"new", "open", "finished"}
    BY ConstantsAssumption DEF TypeOK
  <1>2. run # "new" => log[1].kind = "mark"
    BY DEF LogShape, Mark
  <1>3. \A j \in 2..(produced + 1) : log[j] = Span(j - 1) /\ log[j].kind = "span"
    <2>1. TAKE j \in 2..(produced + 1)
    <2>2. j - 1 \in 1..produced /\ (j - 1) + 1 = j
      BY <1>1
    <2> QED BY <2>2 DEF LogShape, Span
  <1>4. run = "finished" => log[produced + 2].kind = "close"
    BY DEF LogShape, Close
  <1>5. Close.kind = "close"
    BY DEF Close
  <1>6. \A j \in 1..Len(log) :
           \/ j = 1 /\ log[j].kind = "mark" /\ log[j] # Close
           \/ j \in 2..(produced + 1) /\ log[j] = Span(j - 1) /\ log[j].kind = "span" /\ log[j] # Close
           \/ run = "finished" /\ j = produced + 2 /\ log[j] = Close /\ log[j].kind = "close"
    BY <1>1, <1>2, <1>3, <1>4, <1>5 DEF LogShape
  <1>7. CASE ran = 0
    BY <1>1, <1>6, <1>7 DEF Fanned, CloseRan, Pending, LogShape
  <1>8. CASE ran > 0
    <2>1. ran \in 1..Len(log)
      BY <1>1, <1>8
    <2>2. ran < Len(log) => ran + 1 \in 1..Len(log)
      BY <1>1
    <2> QED BY <1>1, <1>6, <1>8, <2>1, <2>2, SMTT(30) DEF Fanned, CloseRan, Pending, LogShape
  <1> QED BY <1>1, <1>7, <1>8
(* Posting a callback changes nothing of what the loop has run.             *)
LEMMA Posting ==
    ASSUME TypeOK, NEW e \in Event, log' = Append(log, e), ran' = ran
    PROVE  /\ Fanned' = Fanned
           /\ CloseRan' <=> CloseRan
           /\ log' \in Seq(Event) /\ Len(log') = Len(log) + 1
           /\ log'[Len(log) + 1] = e
           /\ \A i \in 1..Len(log) : log'[i] = log[i]
  <1>1. log \in Seq(Event) /\ ran \in Nat /\ ran <= Len(log) /\ Len(log) \in Nat
    BY DEF TypeOK
  <1>2. /\ log' \in Seq(Event) /\ Len(log') = Len(log) + 1 /\ log'[Len(log) + 1] = e
        /\ \A i \in 1..Len(log) : log'[i] = log[i]
    BY <1>1
  <1>3. ran > 0 => log'[ran] = log[ran]
    BY <1>1, <1>2
  <1> QED BY <1>1, <1>2, <1>3 DEF Fanned, CloseRan

(* Running the next callback advances the fan-out by at most one span.      *)
LEMMA Running ==
    ASSUME TypeOK, LogShape, UNCHANGED log, ran' = ran + 1
    PROVE  /\ Pending("mark") => Fanned = 0 /\ Fanned' = 0 /\ ~CloseRan /\ ~CloseRan'
           /\ Pending("span") => /\ Fanned' = Fanned + 1 /\ ~CloseRan /\ ~CloseRan'
                                 /\ log[ran + 1] = Span(Fanned + 1)
           /\ Pending("close") => Fanned' = Fanned /\ ~CloseRan /\ CloseRan'
  <1>1. ran \in Nat /\ produced \in Nat
    BY ConstantsAssumption DEF TypeOK
  <1>2. ASSUME Pending("mark")
        PROVE  Fanned = 0 /\ Fanned' = 0 /\ ~CloseRan /\ ~CloseRan'
    <2>1. ran = 0 /\ Fanned = 0 /\ ~CloseRan
      BY <1>2, Position
    <2>2. log'[ran'] # Close
      BY <1>2 DEF Pending, Close
    <2> QED BY <2>1, <2>2 DEF Fanned, CloseRan
  <1>3. ASSUME Pending("span")
        PROVE  /\ Fanned' = Fanned + 1 /\ ~CloseRan /\ ~CloseRan'
               /\ log[ran + 1] = Span(Fanned + 1)
    <2>1. ran > 0 /\ ran <= produced /\ log[ran + 1] = Span(ran)
      BY <1>3, Position
    <2>2. ~CloseRan /\ Fanned = ran - 1
      BY <1>1, <2>1, Position
    <2>3. log'[ran'] # Close
      BY <1>3 DEF Pending, Close
    <2> QED BY <1>1, <2>1, <2>2, <2>3 DEF Fanned, CloseRan
  <1>4. ASSUME Pending("close")
        PROVE  Fanned' = Fanned /\ ~CloseRan /\ CloseRan'
    <2>1. run = "finished" /\ ran = produced + 1
      BY <1>4, Position
    <2>2. ~CloseRan /\ Fanned = ran - 1
      BY <1>1, <2>1, Position
    <2>3. log'[ran'] = Close
      BY <1>1, <2>1 DEF LogShape
    <2> QED BY <1>1, <2>1, <2>2, <2>3 DEF Fanned, CloseRan
  <1> QED BY <1>2, <1>3, <1>4

-----------------------------------------------------------------------------
LEMMA InitIInv == Init => IInv
  <1> SUFFICES ASSUME Init PROVE IInv
    OBVIOUS
  <1>1. TypeOK
    <2>1. <<>> \in Seq(Event) /\ Len(<<>>) = 0 /\ QueueMax >= 0 /\ 0 \in 0..MaxSpans
      BY ConstantsAssumption
    <2>2. got = [v \in Viewers |-> <<>>] /\ \A v \in Viewers : Len(got[v]) = 0
      BY <2>1 DEF Init
    <2>3. got \in [Viewers -> Seq(Event)]
      BY <2>1, <2>2
    <2>4. channel \in [exists : BOOLEAN, closed : BOOLEAN, subscribers : SUBSET Viewers]
      BY DEF Init, NoChannel
    <2>5. \A v \in Viewers : taken[v] <= Len(got[v]) /\ Len(got[v]) - taken[v] <= QueueMax
      <3>1. \A v \in Viewers : taken[v] = 0
        BY DEF Init
      <3>2. QueueMax \in Nat
        BY ConstantsAssumption
      <3>3. \A v \in Viewers : Len(got[v]) = 0
        BY <2>2
      <3>4. TAKE v \in Viewers
      <3>5. taken[v] = 0 /\ Len(got[v]) = 0
        BY <3>1, <3>3
      <3> QED BY <3>2, <3>5
    <2>6. log \in Seq(Event) /\ ran \in 0..Len(log) /\ produced \in 0..MaxSpans
      BY <2>1 DEF Init
    <2> QED BY <2>3, <2>4, <2>5, <2>6 DEF Init, TypeOK
  <1>2. LogShape
    BY DEF Init, LogShape
  <1>3. ChannelShape /\ Attached /\ Delivered /\ Finished
    BY DEF Init, ChannelShape, Attached, Delivered, Finished, NoChannel
  <1> QED BY <1>1, <1>2, <1>3 DEF IInv

(* A step of the run thread that posts a callback, and PersistTrace.        *)
LEMMA ThreadStep == IInv /\ Thread => IInv'
  <1> SUFFICES ASSUME IInv, Thread PROVE IInv'
    OBVIOUS
  <1> USE DEF viewer, queues
  <1>1. TypeOK /\ LogShape
    BY DEF IInv
  <1>2. /\ Mark \in Event /\ Close \in Event
        /\ \A i \in Nat : Span(i) \in Event
    BY DEF Mark, Close, Span, Event
  <1>3. produced \in Nat /\ MaxSpans \in Nat /\ Len(log) \in Nat /\ log \in Seq(Event)
    BY <1>1, ConstantsAssumption DEF TypeOK
  <1>4. TypeOK' /\ LogShape' /\ Fanned' = Fanned /\ (CloseRan' <=> CloseRan)
    <2>1. CASE StartTrace
      <3>1. /\ Fanned' = Fanned /\ (CloseRan' <=> CloseRan)
            /\ log' \in Seq(Event) /\ Len(log') = Len(log) + 1 /\ log'[Len(log) + 1] = Mark
        BY <2>1, <1>1, <1>2, Posting DEF StartTrace
      <3>2. TypeOK'
        BY <2>1, <3>1, <1>1, <1>3 DEF StartTrace, TypeOK
      <3>3. LogShape'
        BY <2>1, <3>1, <1>1, <1>3 DEF StartTrace, LogShape
      <3> QED BY <3>1, <3>2, <3>3
    <2>2. CASE RecordSpan
      <3>1. /\ Fanned' = Fanned /\ (CloseRan' <=> CloseRan)
            /\ log' \in Seq(Event) /\ Len(log') = Len(log) + 1
            /\ log'[Len(log) + 1] = Span(produced + 1)
            /\ \A i \in 1..Len(log) : log'[i] = log[i]
        BY <2>2, <1>1, <1>2, <1>3, Posting DEF RecordSpan
      <3>2. TypeOK'
        BY <2>2, <3>1, <1>1, <1>3 DEF RecordSpan, TypeOK
      <3>3. Len(log) = produced + 1
        BY <2>2, <1>1 DEF RecordSpan, LogShape
      <3>4. \A i \in 1..produced' : log'[i + 1] = Span(i)
        <4>1. TAKE i \in 1..produced'
        <4> produced' = produced + 1
          BY <2>2 DEF RecordSpan
        <4>2. CASE i = produced + 1
          BY <4>2, <3>1, <3>3
        <4>3. CASE i \in 1..produced
          <5>1. i + 1 \in 1..Len(log)
            BY <4>3, <3>3, <1>3
          <5> QED BY <5>1, <4>3, <3>1, <1>1 DEF LogShape
        <4> QED BY <4>2, <4>3, <1>3
      <3>5. log'[1] = Mark
        BY <2>2, <3>1, <3>3, <1>1, <1>3 DEF RecordSpan, LogShape
      <3>6. LogShape'
        BY <2>2, <3>1, <3>3, <3>4, <3>5, <1>3 DEF RecordSpan, LogShape
      <3> QED BY <3>1, <3>2, <3>6
    <2>3. CASE FinishTrace
      <3>1. /\ Fanned' = Fanned /\ (CloseRan' <=> CloseRan)
            /\ log' \in Seq(Event) /\ Len(log') = Len(log) + 1 /\ log'[Len(log) + 1] = Close
            /\ \A i \in 1..Len(log) : log'[i] = log[i]
        BY <2>3, <1>1, <1>2, Posting DEF FinishTrace
      <3>2. TypeOK'
        BY <2>3, <3>1, <1>1, <1>3 DEF FinishTrace, TypeOK
      <3>3. Len(log) = produced + 1
        BY <2>3, <1>1 DEF FinishTrace, LogShape
      <3>4. \A i \in 1..produced : i + 1 \in 1..Len(log)
        BY <3>3, <1>3
      <3>5. LogShape'
        BY <2>3, <3>1, <3>3, <3>4, <1>1, <1>3 DEF FinishTrace, LogShape
      <3> QED BY <3>1, <3>2, <3>5
    <2>4. CASE PersistTrace
      BY <2>4, <1>1 DEF PersistTrace, TypeOK, LogShape, Fanned, CloseRan
    <2> QED BY <2>1, <2>2, <2>3, <2>4 DEF Thread
  <1>5. UNCHANGED <<ran, channel, viewer, queues>>
    BY DEF Thread, StartTrace, RecordSpan, FinishTrace, PersistTrace
  <1>6. ChannelShape' /\ Attached'
    BY <1>4, <1>5 DEF IInv, ChannelShape, Attached
  <1>7. \A v \in Viewers : Exact(v) => Exact(v)'
    BY <1>4, <1>5 DEF Exact
  <1>8. Delivered'
    BY <1>4, <1>5, <1>7 DEF IInv, Delivered
  <1>9. Finished'
    BY <1>1, <1>4, <1>5, <1>7 DEF IInv, Finished, TypeOK
  <1> QED BY <1>4, <1>6, <1>8, <1>9 DEF IInv
-----------------------------------------------------------------------------
(* A fan-out puts its event behind everything a subscriber got before,      *)
(* except where the queue was full.                                         *)
LEMMA FanOut ==
    ASSUME TypeOK, NEW e \in Event, PutAll(e), UNCHANGED taken
    PROVE  /\ got' \in [Viewers -> Seq(Event)] /\ missed' \in [Viewers -> BOOLEAN]
           /\ \A v \in Viewers : taken'[v] <= Len(got'[v]) /\ Len(got'[v]) - taken'[v] <= QueueMax
           /\ \A v \in Viewers \ channel.subscribers :
                 got'[v] = got[v] /\ (missed'[v] <=> missed[v])
           /\ \A v \in Viewers : missed[v] => missed'[v]
           /\ \A v \in channel.subscribers : ~missed'[v] =>
                 /\ Len(got'[v]) = Len(got[v]) + 1
                 /\ got'[v][Len(got[v]) + 1] = e
                 /\ \A i \in 1..Len(got[v]) : got'[v][i] = got[v][i]
           /\ \A v \in channel.subscribers : Full(v) => missed'[v]
  <1>1. /\ got \in [Viewers -> Seq(Event)] /\ missed \in [Viewers -> BOOLEAN]
        /\ channel.subscribers \subseteq Viewers
        /\ \A v \in Viewers : Len(got[v]) \in Nat /\ taken[v] \in Nat
        /\ \A v \in Viewers : taken[v] <= Len(got[v]) /\ Len(got[v]) - taken[v] <= QueueMax
        /\ QueueMax \in Nat
    BY ConstantsAssumption DEF TypeOK
  <1>2. \A v \in Viewers : /\ Append(got[v], e) \in Seq(Event)
                            /\ Len(Append(got[v], e)) = Len(got[v]) + 1
                            /\ Append(got[v], e)[Len(got[v]) + 1] = e
                            /\ \A i \in 1..Len(got[v]) : Append(got[v], e)[i] = got[v][i]
    BY <1>1
  <1>3. \A v \in Viewers : got'[v] = IF v \in channel.subscribers /\ ~Full(v)
                                      THEN Append(got[v], e) ELSE got[v]
    BY DEF PutAll
  <1>7. \A v \in Viewers : missed'[v] <=> missed[v] \/ (v \in channel.subscribers /\ Full(v))
    BY DEF PutAll
  <1>4. got' \in [Viewers -> Seq(Event)]
    BY <1>1, <1>2 DEF PutAll
  <1>5. missed' \in [Viewers -> BOOLEAN]
    BY DEF PutAll
  <1>6. \A v \in Viewers : taken'[v] <= Len(got'[v]) /\ Len(got'[v]) - taken'[v] <= QueueMax
    <2>1. TAKE v \in Viewers
    <2>2. CASE v \in channel.subscribers /\ ~Full(v)
      <3>1. got'[v] = Append(got[v], e) /\ taken'[v] = taken[v]
        BY <1>3, <2>2
      <3>2. Len(got'[v]) = Len(got[v]) + 1
        BY <1>2, <3>1
      <3>3. Len(got[v]) - taken[v] # QueueMax
        BY <2>2 DEF Full
      <3>4. /\ Len(got[v]) \in Nat /\ taken[v] \in Nat /\ QueueMax \in Nat
            /\ taken[v] <= Len(got[v]) /\ Len(got[v]) - taken[v] <= QueueMax
        BY <1>1
      <3> QED BY <3>1, <3>2, <3>3, <3>4
    <2>3. CASE ~(v \in channel.subscribers /\ ~Full(v))
      BY <1>1, <1>3, <2>3
    <2> QED BY <2>2, <2>3
  <1>8. \A v \in channel.subscribers : ~missed'[v] => got'[v] = Append(got[v], e)
    BY <1>1, <1>3, <1>7
  <1> QED BY <1>1, <1>2, <1>3, <1>4, <1>5, <1>6, <1>7, <1>8

(* What a callback leaves of Attached, whatever it fanned out.              *)
LEMMA CallbackStep == IInv /\ Callback => IInv'
  <1> SUFFICES ASSUME IInv, Callback PROVE IInv'
    OBVIOUS
  <1> USE DEF thread, viewer
  <1>1. TypeOK /\ LogShape /\ ChannelShape /\ Attached /\ Delivered /\ Finished
    BY DEF IInv
  <1>2. /\ UNCHANGED <<run, produced, log, stored, pc, taken, joined, complete>>
        /\ ran' = ran + 1 /\ ran \in Nat /\ ran < Len(log) /\ Len(log) \in Nat
    BY <1>1 DEF Callback, MarkActiveSync, PublishSync, CloseSync, Pending, TypeOK
  <1>3. LogShape' /\ ran' \in 0..Len(log')
    BY <1>1, <1>2 DEF LogShape
  <1>4. ~CloseRan
    BY <1>1, <1>2, Running DEF Callback, MarkActiveSync, PublishSync, CloseSync
  <1>5. \A v \in complete : ~(taken[v] > 0 /\ ~missed[v])
    BY <1>1, <1>4 DEF Finished
  <1>6. \A v \in Viewers : pc[v] = "live" /\ ~missed[v] =>
           Exact(v) /\ Len(got[v]) = Fanned - joined[v] /\ v \in channel.subscribers
    BY <1>1, <1>4 DEF Delivered, Exact, Attached
  <1>7. Fanned \in Nat /\ \A v \in Viewers : joined[v] \in Nat
    BY <1>1, Position DEF TypeOK
  <1>8. CASE MarkActiveSync
    <2>1. Fanned' = Fanned /\ ~CloseRan' /\ UNCHANGED <<got, flagged, missed>>
      BY <1>1, <1>2, <1>8, Running DEF MarkActiveSync, queues
    <2>2. channel' = OpenedChannel
      BY <1>8 DEF MarkActiveSync
    <2>3. channel' \in [exists : BOOLEAN, closed : BOOLEAN, subscribers : SUBSET Viewers]
      BY <1>1, <2>2 DEF OpenedChannel, FreshChannel, TypeOK
    <2>4. channel'.subscribers = channel.subscribers /\ ~channel'.closed /\ channel'.exists
      BY <1>1, <1>4, <2>2 DEF OpenedChannel, FreshChannel, ChannelShape
    <2>5. TypeOK'
      BY <1>1, <1>2, <1>3, <2>1, <2>3 DEF TypeOK
    <2>6. ChannelShape' /\ Attached'
      BY <1>1, <1>2, <1>4, <2>1, <2>4 DEF ChannelShape, Attached
    <2>7. Delivered' /\ Finished'
      BY <1>1, <1>2, <1>5, <1>6, <2>1, <1>4 DEF Delivered, Finished, Exact
    <2> QED BY <1>3, <2>5, <2>6, <2>7 DEF IInv
  <1>9. CASE PublishSync /\ ~Active
    <2>1. /\ Fanned' = Fanned + 1 /\ ~CloseRan'
          /\ UNCHANGED <<got, flagged, missed, channel>>
      BY <1>1, <1>2, <1>9, Running DEF PublishSync, queues
    <2>2. \A v \in Viewers : ~(pc[v] = "live" /\ ~missed[v])
      BY <1>1, <1>4, <1>6, <1>9 DEF Active, ChannelShape
    <2>3. TypeOK'
      BY <1>1, <1>2, <1>3, <2>1 DEF TypeOK
    <2>4. ChannelShape' /\ Attached'
      BY <1>1, <1>2, <1>4, <2>1 DEF ChannelShape, Attached
    <2>5. Delivered' /\ Finished'
      BY <1>1, <1>2, <1>5, <2>1, <2>2 DEF Delivered, Finished
    <2> QED BY <1>3, <2>3, <2>4, <2>5 DEF IInv
  <1>10. CASE PublishSync /\ Active
    <2>1. /\ Fanned' = Fanned + 1 /\ ~CloseRan' /\ log[ran + 1] = Span(Fanned + 1)
          /\ PutAll(Span(Fanned + 1)) /\ UNCHANGED channel
          /\ flagged' = [v \in Viewers |-> flagged[v] \/ (v \in channel.subscribers /\ Full(v))]
      BY <1>1, <1>2, <1>10, Running DEF PublishSync
    <2>2. Span(Fanned + 1) \in Event
      BY <1>7 DEF Span, Event
    <2>3. flagged' \in [Viewers -> BOOLEAN]
      BY <1>1, <2>1 DEF TypeOK
    <2>4. TypeOK'
      BY <1>1, <1>2, <1>3, <2>1, <2>2, <2>3, FanOut DEF TypeOK
    <2>5. ChannelShape'
      BY <1>1, <1>4, <2>1 DEF ChannelShape
    <2>6. Attached'
      <3>1. \A v \in Viewers : flagged'[v] => flagged[v] \/ missed'[v]
        BY <1>1, <1>2, <2>1, <2>2, FanOut
      <3>2. \A v \in Viewers \ channel.subscribers :
               got'[v] = got[v] /\ (missed'[v] <=> missed[v]) /\ (flagged'[v] <=> flagged[v])
        BY <1>1, <1>2, <2>1, <2>2, FanOut
      <3>3. \A v \in Viewers : missed[v] => missed'[v]
        BY <1>1, <1>2, <2>1, <2>2, FanOut
      <3>4. UNCHANGED <<pc, taken, complete, channel>> /\ ~CloseRan /\ ~CloseRan'
        BY <1>2, <1>4, <2>1, SMTT(30)
      <3>5. \A v \in Viewers : pc'[v] \in {"idle", "subscribe"} =>
               v \notin channel'.subscribers /\ got'[v] = <<>> /\ taken'[v] = 0
               /\ ~missed'[v] /\ ~flagged'[v] /\ v \notin complete'
        BY <1>1, <3>2, <3>4 DEF Attached
      <3>6. \A v \in Viewers : pc'[v] = "live" => v \notin complete' /\ (flagged'[v] => missed'[v])
        BY <1>1, <3>1, <3>3, <3>4 DEF Attached
      <3>7. \A v \in Viewers : pc'[v] = "live" /\ ~missed'[v] /\ ~CloseRan' => v \in channel'.subscribers
        BY <1>1, <3>3, <3>4 DEF Attached
      <3> QED BY <3>5, <3>6, <3>7 DEF Attached
    <2>7. \A v \in Viewers : pc[v] = "live" /\ ~missed'[v] => Exact(v)'
      <3>1. SUFFICES ASSUME NEW v \in Viewers, pc[v] = "live", ~missed'[v] PROVE Exact(v)'
        OBVIOUS
      <3>2. ~missed[v]
        BY <1>1, <1>2, <2>1, <2>2, <3>1, FanOut
      <3>3. Exact(v) /\ Len(got[v]) = Fanned - joined[v] /\ v \in channel.subscribers
        BY <1>6, <3>1, <3>2
      <3>4. /\ Len(got'[v]) = Len(got[v]) + 1
            /\ got'[v][Len(got[v]) + 1] = Span(Fanned + 1)
            /\ \A i \in 1..Len(got[v]) : got'[v][i] = got[v][i]
        BY <1>1, <1>2, <2>1, <2>2, <3>1, <3>3, FanOut
      <3>5. \A i \in 1..(Fanned' - joined'[v]) : got'[v][i] = Span(joined'[v] + i)
        <4>1. joined'[v] = joined[v] /\ joined[v] \in Nat /\ joined[v] <= Fanned
          BY <1>2, <1>7, <3>3 DEF Exact
        <4>2. Fanned' - joined'[v] = Len(got[v]) + 1 /\ Len(got[v]) \in Nat
          BY <1>7, <2>1, <3>3, <4>1
        <4>5. TAKE i \in 1..(Fanned' - joined'[v])
        <4>3. CASE i = Len(got[v]) + 1
          BY <1>7, <3>3, <3>4, <4>1, <4>2, <4>3
        <4>4. CASE i \in 1..Len(got[v])
          BY <3>3, <3>4, <4>1, <4>2, <4>4 DEF Exact
        <4> QED BY <4>2, <4>3, <4>4, <4>5
      <3>6. joined'[v] <= Fanned' /\ Len(got'[v]) = Fanned' - joined'[v]
        <4>1. joined'[v] = joined[v] /\ joined[v] \in Nat /\ joined[v] <= Fanned
          BY <1>2, <1>7, <3>3 DEF Exact
        <4> QED BY <1>7, <2>1, <3>3, <3>4, <4>1
      <3>7. Fanned' \in Nat /\ joined'[v] \in Nat
        BY <1>2, <1>7, <2>1, <3>3 DEF Exact
      <3> QED BY <3>5, <3>6, <3>7 DEF Exact
    <2>8. Delivered' /\ Finished'
      BY <1>1, <1>2, <1>5, <2>1, <2>2, <2>7, FanOut DEF Delivered, Finished, TypeOK
    <2> QED BY <1>3, <2>4, <2>5, <2>6, <2>8 DEF IInv
  <1>11. CASE CloseSync
    <2>1. /\ Fanned' = Fanned /\ CloseRan' /\ UNCHANGED flagged /\ PutAll(Close)
          /\ channel' = [OpenedChannel EXCEPT !.closed = TRUE]
      BY <1>1, <1>2, <1>11, Running DEF CloseSync
    <2>2. Close \in Event
      BY DEF Close, Event
    <2>3. channel' \in [exists : BOOLEAN, closed : BOOLEAN, subscribers : SUBSET Viewers]
      BY <1>1, <2>1 DEF OpenedChannel, FreshChannel, TypeOK
    <2>4. channel'.subscribers = channel.subscribers /\ channel'.exists
      BY <1>1, <2>1 DEF OpenedChannel, FreshChannel, ChannelShape, TypeOK
    <2>5. TypeOK'
      BY <1>1, <1>2, <1>3, <2>1, <2>2, <2>3, FanOut DEF TypeOK
    <2>6. ChannelShape'
      BY <2>1, <2>4 DEF ChannelShape
    <2>7. Attached'
      BY <1>1, <1>2, <2>1, <2>2, <2>4, FanOut DEF Attached
    <2>8. \A v \in Viewers : pc[v] = "live" /\ ~missed'[v] => Exact(v)'
      <3>1. SUFFICES ASSUME NEW v \in Viewers, pc[v] = "live", ~missed'[v] PROVE Exact(v)'
        OBVIOUS
      <3>2. ~missed[v]
        BY <1>1, <1>2, <2>1, <2>2, <3>1, FanOut
      <3>3. Exact(v) /\ Len(got[v]) = Fanned - joined[v] /\ v \in channel.subscribers
        BY <1>6, <3>1, <3>2
      <3>4. /\ Len(got'[v]) = Len(got[v]) + 1
            /\ got'[v][Len(got[v]) + 1] = Close
            /\ \A i \in 1..Len(got[v]) : got'[v][i] = got[v][i]
        BY <1>1, <1>2, <2>1, <2>2, <3>1, <3>3, FanOut
      <3> QED BY <1>2, <1>7, <2>1, <3>3, <3>4 DEF Exact
    <2>9. Delivered' /\ Finished'
      BY <1>1, <1>2, <1>5, <2>1, <2>2, <2>8, FanOut DEF Delivered, Finished, TypeOK
    <2> QED BY <1>3, <2>5, <2>6, <2>7, <2>9 DEF IInv
  <1> QED BY <1>8, <1>9, <1>10, <1>11 DEF Callback
-----------------------------------------------------------------------------
LEMMA SnapshotStep ==
    ASSUME IInv, NEW v \in Viewers, Snapshot(v)
    PROVE  IInv'
  <1> USE DEF thread, queues, Goto
  <1>1. TypeOK /\ LogShape /\ ChannelShape /\ Attached /\ Delivered /\ Finished
    BY DEF IInv
  <1>2. /\ UNCHANGED <<run, produced, log, stored, ran, channel, taken, joined, got, flagged, missed>>
        /\ pc[v] = "idle" /\ taken[v] = 0
        /\ \/ pc' = [pc EXCEPT ![v] = "done"] /\ complete' = complete \cup {v}
           \/ pc' = [pc EXCEPT ![v] = "subscribe"] /\ complete' = complete
    BY <1>1 DEF Snapshot, Attached
  <1>3. Fanned' = Fanned /\ (CloseRan' <=> CloseRan)
    BY <1>2 DEF Fanned, CloseRan
  <1>4. TypeOK'
    BY <1>1, <1>2 DEF TypeOK
  <1>5. LogShape' /\ ChannelShape'
    BY <1>1, <1>2, <1>3 DEF LogShape, ChannelShape
  <1>6. Attached'
    BY <1>1, <1>2, <1>3, SMTT(30) DEF Attached, TypeOK
  <1>7. Delivered'
    BY <1>1, <1>2, <1>3 DEF Delivered, Exact, TypeOK
  <1>8. Finished'
    BY <1>1, <1>2, <1>3 DEF Finished, Exact, TypeOK
  <1> QED BY <1>4, <1>5, <1>6, <1>7, <1>8 DEF IInv

LEMMA SubscribeStep ==
    ASSUME IInv, NEW v \in Viewers, Subscribe(v)
    PROVE  IInv'
  <1> USE DEF thread, queues, Goto
  <1>1. TypeOK /\ LogShape /\ ChannelShape /\ Attached /\ Delivered /\ Finished
    BY DEF IInv
  <1>2. /\ UNCHANGED <<run, produced, log, stored, ran, taken, got, flagged, missed>>
        /\ pc[v] = "subscribe" /\ taken[v] = 0 /\ got[v] = <<>> /\ v \notin complete
        /\ joined' = [joined EXCEPT ![v] = Fanned]
        /\ \/ channel.closed /\ pc' = [pc EXCEPT ![v] = "done"] /\ complete' = complete \cup {v}
           \/ ~channel.closed /\ pc' = [pc EXCEPT ![v] = "live"] /\ complete' = complete
    BY <1>1 DEF Subscribe, Attached
  <1>3. /\ channel' \in [exists : BOOLEAN, closed : BOOLEAN, subscribers : SUBSET Viewers]
        /\ channel'.exists /\ channel'.subscribers = channel.subscribers \cup {v}
        /\ channel'.closed <=> channel.closed
    BY <1>1 DEF Subscribe, OpenedChannel, FreshChannel, TypeOK, ChannelShape
  <1>4. Fanned' = Fanned /\ (CloseRan' <=> CloseRan) /\ Fanned \in Nat
    BY <1>1, <1>2, Position DEF Fanned, CloseRan
  <1>5. TypeOK'
    BY <1>1, <1>2, <1>3, <1>4 DEF TypeOK
  <1>6. LogShape' /\ ChannelShape'
    BY <1>1, <1>2, <1>3, <1>4 DEF LogShape, ChannelShape
  <1>7. Attached'
    BY <1>1, <1>2, <1>3, <1>4, SMTT(30) DEF Attached, TypeOK
  <1>8. \A w \in Viewers : w # v => joined'[w] = joined[w] /\ pc'[w] = pc[w]
    BY <1>1, <1>2 DEF TypeOK
  <1>9. \A w \in Viewers : w # v /\ Exact(w) => Exact(w)'
    BY <1>2, <1>4, <1>8 DEF Exact
  <1>10. Exact(v)'
    <2>1. joined'[v] = Fanned /\ Len(got'[v]) = 0
      BY <1>1, <1>2 DEF TypeOK
    <2> QED BY <1>4, <2>1 DEF Exact
  <1>11. Delivered'
    BY <1>1, <1>2, <1>8, <1>9, <1>10 DEF Delivered
  <1>12. Finished'
    BY <1>1, <1>2, <1>4, <1>8, <1>9 DEF Finished, TypeOK
  <1> QED BY <1>5, <1>6, <1>7, <1>11, <1>12 DEF IInv

LEMMA ReceiveStep ==
    ASSUME IInv, NEW v \in Viewers, Receive(v)
    PROVE  IInv'
  <1> USE DEF thread, queues, Goto
  <1>1. TypeOK /\ LogShape /\ ChannelShape /\ Attached /\ Delivered /\ Finished
    BY DEF IInv
  <1>2. /\ UNCHANGED <<run, produced, log, stored, ran, channel, joined, got, flagged, missed>>
        /\ pc[v] = "live" /\ taken[v] < Len(got[v]) /\ v \notin complete
        /\ taken' = [taken EXCEPT ![v] = taken[v] + 1]
        /\ \/ /\ got[v][taken[v] + 1] = Close
              /\ complete' = complete \cup {v} /\ pc' = [pc EXCEPT ![v] = "detach"]
           \/ complete' = complete /\ pc' = pc
    BY <1>1 DEF Receive, Attached
  <1>3. Fanned' = Fanned /\ (CloseRan' <=> CloseRan) /\ Fanned \in Nat
    BY <1>1, <1>2, Position DEF Fanned, CloseRan
  <1>4. /\ taken[v] \in Nat /\ Len(got[v]) \in Nat /\ joined[v] \in Nat /\ taken'[v] = taken[v] + 1
        /\ \A w \in Viewers : w # v => taken'[w] = taken[w] /\ pc'[w] = pc[w]
    BY <1>1, <1>2 DEF TypeOK
  <1>5. TypeOK'
    <2>1. taken' \in [Viewers -> Nat]
      BY <1>1, <1>2, <1>4 DEF TypeOK
    <2>2. \A w \in Viewers : taken'[w] <= Len(got'[w]) /\ Len(got'[w]) - taken'[w] <= QueueMax
      <3>1. TAKE w \in Viewers
      <3>2. /\ taken[w] \in Nat /\ Len(got[w]) \in Nat /\ QueueMax \in Nat /\ got'[w] = got[w]
            /\ taken[w] <= Len(got[w]) /\ Len(got[w]) - taken[w] <= QueueMax
        BY <1>1, <1>2, ConstantsAssumption DEF TypeOK
      <3>3. CASE w = v
        BY <1>2, <1>4, <3>2, <3>3
      <3>4. CASE w # v
        BY <1>4, <3>2, <3>4
      <3> QED BY <3>3, <3>4
    <2> QED BY <1>1, <1>2, <2>1, <2>2 DEF TypeOK
  <1>6. LogShape' /\ ChannelShape'
    BY <1>1, <1>2, <1>3 DEF LogShape, ChannelShape
  <1>7. Attached'
    BY <1>1, <1>2, <1>3, <1>4, SMTT(30) DEF Attached, TypeOK
  <1>8. \A w \in Viewers : Exact(w) => Exact(w)'
    BY <1>2, <1>3 DEF Exact
  <1>9. Delivered'
    BY <1>1, <1>2, <1>4, <1>8 DEF Delivered
  <1>10. Finished'
    <2>1. ASSUME v \in complete', ~missed[v]
          PROVE  CloseRan /\ Exact(v) /\ taken'[v] = Fanned - joined[v] + 1
      <3>1. Exact(v) /\ got[v][taken[v] + 1] = Close
        BY <1>1, <1>2, <2>1 DEF Delivered
      <3>2. taken[v] + 1 \notin 1..(Fanned - joined[v])
        <4>1. \A i : Span(i) # Close
          <5>1. \A i : Span(i).kind = "span" /\ Close.kind = "close"
            BY DEF Span, Close
          <5> QED BY <5>1
        <4> QED BY <1>3, <1>4, <3>1, <4>1 DEF Exact
      <3>3. Len(got[v]) = Fanned - joined[v] + 1 /\ taken[v] + 1 = Len(got[v])
        BY <1>2, <1>3, <1>4, <3>1, <3>2, SMTT(30) DEF Exact
      <3> QED BY <1>4, <3>1, <3>3 DEF Exact
    <2>2. \A w \in complete' : w # v => w \in complete /\ w \in Viewers
      BY <1>1, <1>2 DEF TypeOK
    <2> QED BY <1>1, <1>2, <1>3, <1>4, <1>8, <2>1, <2>2 DEF Finished
  <1> QED BY <1>5, <1>6, <1>7, <1>9, <1>10 DEF IInv

LEMMA LeaveStep ==
    ASSUME IInv, NEW v \in Viewers, Disconnect(v) \/ Detach(v)
    PROVE  IInv'
  <1> USE DEF thread, queues, Goto
  <1>1. TypeOK /\ LogShape /\ ChannelShape /\ Attached /\ Delivered /\ Finished
    BY DEF IInv
  <1>2. /\ UNCHANGED <<run, produced, log, stored, ran, taken, joined, complete, got, missed>>
        /\ pc' \in [Viewers -> {"idle", "subscribe", "live", "detach", "done"}]
        /\ pc'[v] \in {"detach", "done"} /\ \A w \in Viewers : w # v => pc'[w] = pc[w]
    BY <1>1 DEF Disconnect, Detach, TypeOK
  <1>3. Fanned' = Fanned /\ (CloseRan' <=> CloseRan)
    BY <1>2 DEF Fanned, CloseRan
  <1>4. /\ flagged' \in [Viewers -> BOOLEAN] /\ \A w \in Viewers : w # v => (flagged'[w] <=> flagged[w])
        /\ channel' \in [exists : BOOLEAN, closed : BOOLEAN, subscribers : SUBSET Viewers]
        /\ channel'.subscribers \subseteq channel.subscribers
        /\ channel'.closed => channel.closed /\ channel'.exists
        /\ ~channel'.exists => channel'.subscribers = {}
        /\ ~channel.closed => \A w \in channel.subscribers : w # v /\ ~flagged[w] => w \in channel'.subscribers
    <2>1. CASE Disconnect(v)
      BY <1>1, <2>1 DEF Disconnect, TypeOK, ChannelShape
    <2>2. CASE Detach(v)
      <3>1. flagged' = [flagged EXCEPT ![v] = TRUE]
        BY <2>2 DEF Detach
      <3>2. flagged' \in [Viewers -> BOOLEAN] /\ \A w \in Viewers : w # v => (flagged'[w] <=> flagged[w])
        BY <1>1, <3>1 DEF TypeOK
      <3> DEFINE rest == {s \in channel.subscribers : ~flagged'[s]}
      <3>3. channel' = IF ~channel.exists \/ (rest = {} /\ channel.closed) THEN NoChannel
                       ELSE [channel EXCEPT !.subscribers = rest]
        BY <2>2 DEF Detach
      <3>4. rest \subseteq channel.subscribers /\ channel.subscribers \subseteq Viewers
        BY <1>1 DEF TypeOK
      <3>5. \A w \in channel.subscribers : w # v /\ ~flagged[w] => w \in rest
        BY <3>2, <3>4
      <3> HIDE DEF rest
      <3> QED BY <1>1, <3>2, <3>3, <3>4, <3>5 DEF NoChannel, TypeOK, ChannelShape
    <2> QED BY <2>1, <2>2
  <1>5. TypeOK'
    BY <1>1, <1>2, <1>4 DEF TypeOK
  <1>6. LogShape' /\ ChannelShape'
    BY <1>1, <1>2, <1>3, <1>4 DEF LogShape, ChannelShape
  <1>7. Attached'
    BY <1>1, <1>2, <1>3, <1>4 DEF Attached, ChannelShape
  <1>8. \A w \in Viewers : Exact(w) => Exact(w)'
    BY <1>2, <1>3 DEF Exact
  <1>9. Delivered' /\ Finished'
    BY <1>1, <1>2, <1>3, <1>8 DEF Delivered, Finished, TypeOK
  <1> QED BY <1>5, <1>6, <1>7, <1>9 DEF IInv

-----------------------------------------------------------------------------
(* The inductive invariant of the broker holds in every reachable state.    *)
THEOREM Inductive == Spec => []IInv
  <1>1. IInv /\ UNCHANGED vars => IInv'
    BY SMTT(30) DEF IInv, TypeOK, LogShape, ChannelShape, Attached, Delivered, Finished, Exact,
           Fanned, CloseRan, vars, thread, viewer, queues
  <1>2. IInv /\ [Next]_vars => IInv'
    BY <1>1, ThreadStep, CallbackStep, SnapshotStep, SubscribeStep, ReceiveStep, LeaveStep
       DEF Next, Stream
  <1> QED BY InitIInv, <1>2, PTL DEF Spec

(* Type correctness, with the bound of every queue, for any number of       *)
(* viewers, spans and any _QUEUE_MAXSIZE.                                    *)
THEOREM TypeCorrect == Spec => []TypeOK
  <1>1. IInv => TypeOK
    BY DEF IInv
  <1> QED BY Inductive, <1>1, PTL

(* A viewer that never overflowed misses nothing of what is fanned out      *)
(* while it is live (_publish_sync).                                        *)
THEOREM NothingIsSkipped == Spec => []NoSilentGap
  <1>1. IInv => NoSilentGap
    <2> SUFFICES ASSUME IInv, NEW v \in Viewers, pc[v] = "live", ~missed[v]
                 PROVE  /\ \A i \in 1..(Fanned - joined[v]) :
                              i \in DOMAIN got[v] /\ got[v][i] = Span(joined[v] + i)
                        /\ \A i \in DOMAIN got[v] : i > Fanned - joined[v] => got[v][i] = Close
      BY DEF NoSilentGap
    <2>1. Exact(v)
      BY DEF IInv, Delivered
    <2>2. Fanned \in Nat /\ joined[v] \in Nat
      BY Position DEF IInv, TypeOK
    <2>3. DOMAIN got[v] = 1..Len(got[v]) /\ Len(got[v]) \in Nat
      BY DEF IInv, TypeOK
    <2> DEFINE n == Fanned - joined[v]
               whole == got[v]
    <2>4. /\ joined[v] <= Fanned /\ Len(whole) \in {n, n + 1}
          /\ \A i \in 1..n : whole[i] = Span(joined[v] + i)
          /\ Len(whole) = n + 1 => whole[n + 1] = Close
      BY <2>1 DEF Exact
    <2>5. n \in Nat
      BY <2>2, <2>4
    <2>6. n = Fanned - joined[v] /\ whole = got[v]
      OBVIOUS
    <2> HIDE DEF n, whole
    <2>7. \A i \in 1..n : i \in DOMAIN whole /\ whole[i] = Span(joined[v] + i)
      BY <2>3, <2>4, <2>5, <2>6
    <2>8. \A i \in DOMAIN whole : i > n => i = n + 1 /\ Len(whole) = n + 1
      BY <2>3, <2>4, <2>5, <2>6
    <2> QED BY <2>4, <2>6, <2>7, <2>8
  <1> QED BY Inductive, <1>1, PTL

(* The complete frame comes after every span of the trace (recorder exit,   *)
(* _close_sync).                                                            *)
THEOREM CompletesAreWhole == Spec => []CompleteIsWhole
  <1>1. IInv => CompleteIsWhole
    BY Position DEF IInv, CompleteIsWhole, Finished, Exact
  <1> QED BY Inductive, <1>1, PTL

-----------------------------------------------------------------------------
(***************************************************************************)
(* The same stream through Redis (RedisBroker), for any number of viewers  *)
(* and failures.                                                           *)
(***************************************************************************)
CONSTANTS MaxLen, MaxFailures, Persists
VARIABLES calls, phase, reported, stream, nextId, active, closedKey, expires, persisted, failures,
          watching, appended
Redis == INSTANCE RedisBroker WITH produced <- reported, stored <- persisted, viewer <- watching

(* No assumption is made on what may fail, nor on whether the trace is stored. *)
RedisConstants == MaxSpans \in Nat /\ MaxLen \in Nat /\ Persists \in BOOLEAN

Entry == [id : Nat, what : Nat]
Viewing == [pc : {"away", "subscribe", "live", "done"}, last : Nat, got : Seq(Nat),
            end : {"none", "complete", "raised", "disconnected", "left"}]

AddSpan == [cmd |-> "xadd", what |-> reported]
AddEnd == [cmd |-> "xadd", what |-> Redis!Closed]
Opens == [cmd |-> "sadd"]
AfterEnd == {<<[cmd |-> "setex"], [cmd |-> "srem"], [cmd |-> "expire"]>>,
             <<[cmd |-> "srem"], [cmd |-> "expire"]>>, <<[cmd |-> "expire"]>>, <<>>}

SpanWaits == calls \in {<<Opens, AddSpan>>, <<AddSpan>>}
EndWaits == calls = Redis!CloseCommands
Ended == phase \in {"closing", "over"} /\ calls \in AfterEnd

RedisType ==
    /\ phase \in {"new", "open", "closing", "over"}
    /\ reported \in 0..MaxSpans /\ nextId \in Nat \ {0}
    /\ stream \in Seq(Entry) /\ watching \in [Viewers -> Viewing]
    /\ persisted \in BOOLEAN

(* What the worker has still to send. *)
CallShape ==
    /\ phase = "new" => calls = <<>>
    /\ phase = "open" => calls \in {<<>>, <<Opens>>} \/ (SpanWaits /\ reported >= 1)
    /\ phase = "closing" => EndWaits \/ calls \in AfterEnd
    /\ phase = "over" => calls = <<>>

(* The spans up to this one have been sent, or their commands have failed. *)
Sent == IF SpanWaits THEN reported - 1 ELSE reported

StreamShape ==
    /\ \A i \in 1..Len(stream) : stream[i].id \in 1..(nextId - 1) /\ stream[i].what <= Sent
    /\ \A i, j \in 1..Len(stream) : i < j =>
          /\ stream[i].id < stream[j].id
          /\ stream[i].what # Redis!Closed
          /\ stream[j].what # Redis!Closed => stream[i].what < stream[j].what
    /\ \A i \in 1..Len(stream) : stream[i].what = Redis!Closed => Ended

(* What a viewer has read comes before what it has still to read. *)
InOrder(r) ==
    /\ r.pc \in {"away", "subscribe"} => r.last = 0 /\ r.got = <<>>
    /\ r.pc # "done" => r.end = "none"
    /\ r.last < nextId
    /\ \A i, j \in 1..Len(r.got) : i < j => r.got[i] < r.got[j]
    /\ r.pc # "done" => \A k \in 1..Len(r.got) :
          /\ r.got[k] <= Sent
          /\ \A i \in 1..Len(stream) :
                stream[i].id > r.last /\ stream[i].what # Redis!Closed => r.got[k] < stream[i].what

OrderInv ==
    RedisType /\ CallShape /\ StreamShape /\ \A v \in Viewers : InOrder(watching[v])

(* The stream of a run that is over expires. *)
Gone == phase = "over" /\ stream = <<>>

Kept ==
    /\ Redis!Closed \notin appended
    /\ Ended \/ Len(stream) <= Sent
    /\ \A i \in 1..Len(stream) : stream[i].what # Redis!Closed => stream[i].what \in appended
    /\ Gone \/ \A s \in appended : \E i \in 1..Len(stream) : stream[i].what = s

(* Every span that reached the stream has been read or is still to be read; whoever read the
   end has read them all. *)
Whole(r) ==
    /\ r.pc = "live" =>
          /\ \A k \in 1..Len(r.got) : r.got[k] \in appended
          /\ Gone \/ \A s \in appended :
                \/ \E k \in 1..Len(r.got) : r.got[k] = s
                \/ \E i \in 1..Len(stream) : stream[i].id > r.last /\ stream[i].what = s
    /\ r.end = "complete" /\ r.last > 0 => Ended /\ Redis!ToSet(r.got) = appended

WholeInv == OrderInv /\ Kept /\ \A v \in Viewers : Whole(watching[v])

(* The stream after a command: the old entries, without some of the first, and the new one. *)
LEMMA Appending ==
    ASSUME NEW what \in Nat, RedisType, RedisConstants, Redis!XAdd(what)
    PROVE  /\ nextId' = nextId + 1 /\ stream' \in Seq(Entry)
           /\ \E d \in Nat :
                /\ MaxLen > Len(stream) => d = 0
                /\ Len(stream') = Len(stream) + 1 - d
                /\ \A i \in 1..Len(stream') :
                     \/ i + d \in 1..Len(stream) /\ stream'[i] = stream[i + d]
                     \/ i + d = Len(stream) + 1 /\ stream'[i] = [id |-> nextId, what |-> what]
<1>. DEFINE new == [id |-> nextId, what |-> what]
            all == Append(stream, new)
<1>1. /\ stream \in Seq(Entry) /\ new \in Entry /\ all \in Seq(Entry)
      /\ Len(all) = Len(stream) + 1 /\ all[Len(stream) + 1] = new
      /\ \A i \in 1..Len(stream) : all[i] = stream[i]
  BY DEF RedisType, Entry
<1>2. PICK d \in {0, IF Len(stream) >= MaxLen THEN Len(stream) + 1 - MaxLen ELSE 0} :
         stream' = SubSeq(all, 1 + d, Len(stream) + 1)
  BY DEF Redis!XAdd
<1>3. d \in Nat /\ (MaxLen > Len(stream) => d = 0) /\ d <= Len(stream) + 1 /\ Len(stream) \in Nat
  BY <1>1, <1>2 DEF RedisConstants
<1>. HIDE DEF all, new
<1>4. /\ stream' \in Seq(Entry) /\ Len(stream') = Len(stream) + 1 - d
      /\ \A i \in 1..Len(stream') : stream'[i] = all[i + d]
  BY <1>1, <1>2, <1>3, SMTT(30)
<1>5. \A i \in 1..(Len(stream) + 1 - d) : i + d \in 1..Len(stream) \/ i + d = Len(stream) + 1
  BY <1>3
<1>6. \A i \in 1..Len(stream') :
         \/ i + d \in 1..Len(stream) /\ stream'[i] = stream[i + d]
         \/ i + d = Len(stream) + 1 /\ stream'[i] = new
  BY <1>1, <1>4, <1>5
<1>. QED  BY <1>3, <1>4, <1>6 DEF Redis!XAdd, new

-----------------------------------------------------------------------------
(* The calls of the worker. *)
LEMMA CallFacts ==
    /\ \A c \in AfterEnd : ~(c # <<>> /\ Head(c).cmd \in {"xadd", "sadd"}) /\ (c # <<>> => Tail(c) \in AfterEnd)
    /\ Redis!CloseCommands \notin AfterEnd /\ Redis!CloseCommands # <<>> /\ Head(Redis!CloseCommands) = AddEnd
    /\ Tail(Redis!CloseCommands) \in AfterEnd
    /\ <<>> \in AfterEnd
BY DEF AfterEnd, Redis!CloseCommands, AddEnd, Redis!Closed

LEMMA SpanCallFacts ==
    /\ Head(<<Opens>>) = Opens /\ Tail(<<Opens>>) = <<>> /\ <<Opens>> # <<>>
    /\ Head(<<Opens, AddSpan>>) = Opens /\ Tail(<<Opens, AddSpan>>) = <<AddSpan>>
    /\ Head(<<AddSpan>>) = AddSpan /\ Tail(<<AddSpan>>) = <<>> /\ <<AddSpan>> # <<>>
    /\ AddSpan.cmd = "xadd" /\ AddSpan.what = reported /\ Opens.cmd = "sadd"
    /\ <<Opens, AddSpan>> # <<>>
BY DEF Opens, AddSpan

(* Which of the calls do what to Sent and to Ended. *)
LEMMA CallCases ==
    ASSUME CallShape, calls # <<>>, phase \in {"new", "open", "closing", "over"}
    PROVE  \/ phase = "open" /\ calls = <<Opens>>
           \/ phase = "open" /\ calls = <<Opens, AddSpan>> /\ reported >= 1
           \/ phase = "open" /\ calls = <<AddSpan>> /\ reported >= 1
           \/ phase = "closing" /\ calls = Redis!CloseCommands
           \/ phase = "closing" /\ calls \in AfterEnd
BY DEF CallShape, SpanWaits, EndWaits

-----------------------------------------------------------------------------
(* A step of the worker that leaves the stream alone. *)
Quiet ==
    /\ UNCHANGED <<stream, nextId, watching, appended>>
    /\ RedisType' /\ CallShape' /\ Sent' >= Sent
    /\ Ended => Ended' 
    /\ Gone => Gone'

LEMMA SentFacts ==
    /\ calls = <<>> => ~SpanWaits /\ Sent = reported
    /\ calls = <<Opens>> => ~SpanWaits /\ Sent = reported
    /\ calls \in AfterEnd \cup {Redis!CloseCommands} => ~SpanWaits /\ Sent = reported
    /\ calls \in {<<Opens, AddSpan>>, <<AddSpan>>} => SpanWaits /\ Sent = reported - 1
<1>1. calls = <<>> => ~SpanWaits
  BY DEF SpanWaits
<1>2. calls = <<Opens>> => ~SpanWaits
  BY DEF SpanWaits, Opens, AddSpan
<1>3. calls \in AfterEnd => ~SpanWaits
  BY DEF SpanWaits, AfterEnd, Opens, AddSpan
<1>4. calls = Redis!CloseCommands => ~SpanWaits
  BY DEF SpanWaits, Redis!CloseCommands, Opens, AddSpan
<1>. QED  BY <1>1, <1>2, <1>3, <1>4 DEF Sent, SpanWaits

(* The same of the next state, whose span is that of the next state. *)
LEMMA SentNext ==
    /\ calls' = <<>> => ~SpanWaits' /\ Sent' = reported'
    /\ calls' = <<Opens>> => ~SpanWaits' /\ Sent' = reported'
    /\ calls' \in AfterEnd \cup {Redis!CloseCommands} => ~SpanWaits' /\ Sent' = reported'
    /\ calls' \in {<<Opens, AddSpan'>>, <<AddSpan'>>} => SpanWaits' /\ Sent' = reported' - 1
<1>1. calls' = <<>> => ~SpanWaits'
  BY DEF SpanWaits
<1>2. calls' = <<Opens>> => ~SpanWaits'
  BY DEF SpanWaits, Opens, AddSpan
<1>3. calls' \in AfterEnd => ~SpanWaits'
  BY DEF SpanWaits, AfterEnd, Opens, AddSpan
<1>4. calls' = Redis!CloseCommands => ~SpanWaits'
  BY DEF SpanWaits, Redis!CloseCommands, Opens, AddSpan
<1>5. Opens' = Opens
  BY DEF Opens
<1>. QED  BY <1>1, <1>2, <1>3, <1>4, <1>5 DEF Sent, SpanWaits

LEMMA WholeInit == RedisConstants /\ Redis!Init => WholeInv
<1>. SUFFICES ASSUME RedisConstants, Redis!Init PROVE WholeInv
  OBVIOUS
<1>1. /\ stream = <<>> /\ Len(stream) = 0 /\ calls = <<>> /\ phase = "new" /\ reported = 0
      /\ appended = {} /\ nextId = 1 /\ persisted = FALSE
  BY DEF Redis!Init
<1>2. <<>> \in Seq(Nat) /\ <<>> \in Seq(Entry) /\ Len(<<>>) = 0
  OBVIOUS
<1>3. Redis!Away \in Viewing /\ Redis!Away.got = <<>> /\ Redis!Away.last = 0 /\ Redis!Away.end = "none" /\ Redis!Away.pc = "away"
  BY <1>2 DEF Redis!Away, Viewing
<1>4. watching \in [Viewers -> Viewing] /\ \A v \in Viewers : watching[v] = Redis!Away
  BY <1>3 DEF Redis!Init
<1>5. RedisType
  <2>1. stream \in Seq(Entry) /\ reported \in 0..MaxSpans /\ nextId \in Nat \ {0}
    BY <1>1, <1>2 DEF RedisConstants
  <2>. QED  BY <1>1, <1>4, <2>1 DEF RedisType
<1>6. CallShape /\ StreamShape /\ Kept
  BY <1>1, SentFacts DEF CallShape, StreamShape, Kept
<1>7. ASSUME NEW v \in Viewers PROVE InOrder(watching[v]) /\ Whole(watching[v])
  <2>1. /\ watching[v].got = <<>> /\ Len(watching[v].got) = 0 /\ watching[v].last = 0
        /\ watching[v].end = "none" /\ watching[v].pc = "away"
    BY <1>2, <1>3, <1>4
  <2>2. InOrder(watching[v])
    BY <1>1, <2>1 DEF InOrder
  <2>3. Whole(watching[v])
    BY <2>1 DEF Whole
  <2>. QED  BY <2>2, <2>3
<1>. QED  BY <1>5, <1>6, <1>7 DEF WholeInv, OrderInv

LEMMA CallSteps ==
    ASSUME RedisConstants, OrderInv, Redis!on_trace_started \/ Redis!publish \/ Redis!close_run \/ Redis!CommandFails \/ Redis!Over
    PROVE  Quiet
<1>1. /\ RedisType /\ CallShape /\ reported \in Nat /\ Redis!Closed = 0
      /\ phase \in {"new", "open", "closing", "over"}
  BY DEF OrderInv, RedisType, RedisConstants, Redis!Closed
<1>2. CASE Redis!on_trace_started
  <2>1. calls = <<>> /\ phase = "new" /\ calls' = <<Opens>> /\ phase' = "open"
        /\ UNCHANGED <<reported, stream, nextId, watching, appended, persisted>>
    BY <1>1, <1>2 DEF Redis!on_trace_started, CallShape, Opens, Redis!redis
  <2>. QED  BY <1>1, <2>1, SentFacts, SentNext DEF Quiet, RedisType, CallShape, Ended, Gone
<1>3. CASE Redis!publish
  <2>1. /\ calls = <<>> /\ phase = "open" /\ phase' = "open" /\ reported' = reported + 1
        /\ calls' = <<Opens, AddSpan'>> /\ reported < MaxSpans
        /\ UNCHANGED <<stream, nextId, watching, appended, persisted>>
    BY <1>3 DEF Redis!publish, Opens, AddSpan, Redis!redis
  <2>2. Sent' = Sent /\ SpanWaits' /\ reported' >= 1
    BY <1>1, <2>1, SentFacts, SentNext
  <2>3. RedisType'
    BY <1>1, <2>1 DEF RedisType, RedisConstants
  <2>4. Sent \in Int
    BY <1>1 DEF Sent
  <2>. QED  BY <1>1, <2>1, <2>2, <2>3, <2>4 DEF Quiet, CallShape, Ended, Gone
<1>4. CASE Redis!close_run
  <2>1. /\ calls = <<>> /\ phase = "open" /\ phase' = "closing" /\ calls' = Redis!CloseCommands
        /\ UNCHANGED <<reported, stream, nextId, watching, appended, persisted>>
    BY <1>4 DEF Redis!close_run, Redis!redis
  <2>. QED  BY <1>1, <2>1, SentFacts, SentNext DEF Quiet, RedisType, CallShape, EndWaits, Ended, Gone
<1>5. CASE Redis!CommandFails
  <2>1. calls' = <<>> /\ calls # <<>>
        /\ UNCHANGED <<phase, reported, stream, nextId, watching, appended, persisted>>
    BY <1>5 DEF Redis!CommandFails, Redis!redis
  <2>2. Sent' = reported /\ Sent' >= Sent
    BY <1>1, <2>1, SentNext DEF Sent
  <2>3. phase \in {"open", "closing"} /\ calls' \in AfterEnd
    BY <1>1, <2>1, CallFacts DEF CallShape
  <2>. QED  BY <1>1, <2>1, <2>2, <2>3 DEF Quiet, RedisType, CallShape, Ended, Gone
<1>6. CASE Redis!Over
  <2>1. /\ calls = <<>> /\ calls' = <<>> /\ phase = "closing" /\ phase' = "over"
        /\ UNCHANGED <<reported, stream, nextId, watching, appended>> /\ persisted' = Persists
    BY <1>6 DEF Redis!Over, Redis!redis
  <2>. QED  BY <1>1, <2>1, SentFacts, SentNext, CallFacts
            DEF Quiet, RedisType, CallShape, Ended, Gone, RedisConstants
<1>. QED  BY <1>2, <1>3, <1>4, <1>5, <1>6

SpanLands ==
    /\ Redis!XAdd(reported) /\ UNCHANGED <<watching, reported, persisted, phase>>
    /\ phase = "open" /\ calls' = <<>> /\ reported >= 1
    /\ Sent = reported - 1 /\ Sent' = reported /\ ~Ended /\ ~Ended' /\ ~Gone /\ ~Gone'

EndLands ==
    /\ Redis!XAdd(Redis!Closed) /\ UNCHANGED <<watching, reported, persisted, phase>>
    /\ phase = "closing" /\ calls' \in AfterEnd
    /\ Sent = reported /\ Sent' = reported /\ ~Ended /\ Ended' /\ ~Gone /\ ~Gone'

LEMMA CommandSteps ==
    ASSUME RedisConstants, OrderInv, Redis!Command
    PROVE  Quiet \/ SpanLands \/ EndLands
<1>1. /\ RedisType /\ CallShape /\ reported \in Nat /\ Redis!Closed = 0
      /\ phase \in {"new", "open", "closing", "over"}
  BY DEF OrderInv, RedisType, RedisConstants, Redis!Closed
<1>2. /\ calls # <<>> /\ calls' = Tail(calls)
      /\ UNCHANGED <<watching, phase, reported, persisted>>
      /\ IF Head(calls).cmd = "xadd" THEN Redis!XAdd(Head(calls).what)
                                     ELSE UNCHANGED <<stream, nextId, appended>>
  BY DEF Redis!Command
<1>3. AddSpan' = AddSpan
  BY <1>2 DEF AddSpan
<1>4. CASE phase = "open" /\ calls = <<Opens>>
  <2>1. Sent = reported /\ Sent' = reported' /\ calls' = <<>>
    BY <1>2, <1>4, SentFacts, SentNext, SpanCallFacts
  <2>. QED  BY <1>1, <1>2, <1>4, <2>1, SpanCallFacts DEF Quiet, RedisType, CallShape, Ended, Gone
<1>5. CASE phase = "open" /\ calls = <<Opens, AddSpan>> /\ reported >= 1
  <2>1. Sent = reported - 1 /\ Sent' = reported' - 1 /\ calls' = <<AddSpan>> /\ SpanWaits'
    BY <1>2, <1>3, <1>5, SentFacts, SentNext, SpanCallFacts
  <2>2. Sent' >= Sent
    BY <1>1, <1>2, <2>1
  <2>. QED  BY <1>1, <1>2, <1>5, <2>1, <2>2, SpanCallFacts DEF Quiet, RedisType, CallShape, Ended, Gone
<1>6. CASE phase = "open" /\ calls = <<AddSpan>> /\ reported >= 1
  <2>1. Sent = reported - 1 /\ Sent' = reported' /\ calls' = <<>>
    BY <1>2, <1>6, SentFacts, SentNext, SpanCallFacts
  <2>. QED  BY <1>1, <1>2, <1>6, <2>1, SpanCallFacts DEF SpanLands, Ended, Gone
<1>7. CASE phase = "closing" /\ calls = Redis!CloseCommands
  <2>1. Sent = reported /\ Sent' = reported' /\ calls' \in AfterEnd
    BY <1>2, <1>7, SentFacts, SentNext, CallFacts
  <2>. QED  BY <1>1, <1>2, <1>7, <2>1, CallFacts DEF EndLands, Ended, Gone, AddEnd
<1>8. CASE phase = "closing" /\ calls \in AfterEnd
  <2>1. Sent = reported /\ Sent' = reported' /\ calls' \in AfterEnd
    BY <1>2, <1>8, SentFacts, SentNext, CallFacts
  <2>. QED  BY <1>1, <1>2, <1>8, <2>1, CallFacts DEF Quiet, RedisType, CallShape, Ended, Gone
<1>. QED  BY <1>1, <1>2, <1>4, <1>5, <1>6, <1>7, <1>8, CallCases

(* Sent as a number. *)
LEMMA SentType == RedisConstants /\ RedisType => Sent \in Int
BY DEF RedisConstants, RedisType, Sent

LEMMA SentTypeNext == RedisConstants /\ RedisType' => Sent' \in Int
BY DEF RedisConstants, RedisType, Sent

LEMMA ViewingFacts ==
    ASSUME RedisType, NEW v \in Viewers
    PROVE  /\ watching[v] \in Viewing /\ watching[v].last \in Nat /\ Len(watching[v].got) \in Nat
           /\ watching[v].got \in Seq(Nat)
           /\ \A k \in 1..Len(watching[v].got) : watching[v].got[k] \in Nat
<1>1. watching[v] \in Viewing
  BY DEF RedisType
<1>. QED  BY <1>1 DEF Viewing

LEMMA EntryFacts ==
    ASSUME RedisType
    PROVE  /\ Len(stream) \in Nat
           /\ \A i \in 1..Len(stream) : stream[i].id \in Nat /\ stream[i].what \in Nat
<1>1. stream \in Seq(Entry)
  BY DEF RedisType
<1>2. \A i \in 1..Len(stream) : stream[i] \in Entry
  BY <1>1
<1>. QED  BY <1>1, <1>2 DEF Entry

LEMMA QuietKeepsOrder ==
    ASSUME RedisConstants, OrderInv, Quiet PROVE OrderInv'
<1>1. RedisType /\ RedisType' /\ CallShape' /\ Sent \in Int /\ Sent' \in Int /\ Sent' >= Sent
  BY SentType, SentTypeNext DEF OrderInv, Quiet
<1>2. StreamShape'
  <2>1. \A i \in 1..Len(stream) : stream[i].what \in Nat
    BY <1>1, EntryFacts
  <2>. QED  BY <1>1, <2>1 DEF OrderInv, Quiet, StreamShape
<1>3. ASSUME NEW v \in Viewers PROVE InOrder(watching[v])'
  <2>1. \A k \in 1..Len(watching[v].got) : watching[v].got[k] \in Nat
    BY <1>1, ViewingFacts
  <2>. QED  BY <1>1, <2>1 DEF OrderInv, Quiet, InOrder
<1>. QED  BY <1>1, <1>2, <1>3 DEF OrderInv

LEMMA QuietKeepsWhole ==
    ASSUME RedisConstants, WholeInv, Quiet PROVE Kept' /\ \A v \in Viewers : Whole(watching[v])'
<1>1. /\ Sent \in Int /\ Sent' \in Int /\ Sent' >= Sent /\ Len(stream) \in Nat
  BY SentType, SentTypeNext, EntryFacts DEF WholeInv, OrderInv, Quiet
<1>2. Kept'
  BY <1>1 DEF WholeInv, Quiet, Kept
<1>3. ASSUME NEW v \in Viewers PROVE Whole(watching[v])'
  BY DEF WholeInv, Quiet, Whole
<1>. QED  BY <1>2, <1>3

(* The entries of the stream after an append, by their places. *)
LEMMA LandsKeepOrder ==
    ASSUME RedisConstants, OrderInv, SpanLands \/ EndLands PROVE OrderInv'
<1>1. RedisType /\ CallShape /\ StreamShape /\ reported \in Nat /\ nextId \in Nat \ {0}
  BY DEF OrderInv, RedisType, RedisConstants
<1>2. PICK what \in Nat :
        /\ Redis!XAdd(what) /\ what <= Sent' /\ (what # Redis!Closed => Sent < what)
        /\ what = Redis!Closed => Ended'
        /\ UNCHANGED <<watching, reported, persisted, phase>> /\ ~Ended /\ Sent' >= Sent
        /\ CallShape'
  <2>1. CASE SpanLands
    BY <1>1, <2>1 DEF SpanLands, CallShape, Redis!Closed
  <2>2. CASE EndLands
    BY <1>1, <2>2 DEF EndLands, CallShape, Redis!Closed
  <2>. QED  BY <2>1, <2>2
<1>3. PICK d \in Nat :
        /\ Len(stream') = Len(stream) + 1 - d
        /\ \A i \in 1..Len(stream') :
             \/ i + d \in 1..Len(stream) /\ stream'[i] = stream[i + d]
             \/ i + d = Len(stream) + 1 /\ stream'[i] = [id |-> nextId, what |-> what]
  BY <1>1, <1>2, Appending
<1>4. nextId' = nextId + 1 /\ stream' \in Seq(Entry)
  BY <1>1, <1>2, Appending
<1>5. RedisType'
  BY <1>1, <1>2, <1>4 DEF RedisType
<1>6. Sent \in Int /\ Sent' \in Int
  BY <1>1, <1>5, SentType, SentTypeNext
<1>7. /\ \A i \in 1..Len(stream) : stream[i].id \in 1..(nextId - 1) /\ stream[i].what <= Sent
                                   /\ stream[i].what # Redis!Closed /\ stream[i].what \in Nat
      /\ Len(stream) \in Nat
  BY <1>1, <1>2, EntryFacts DEF StreamShape
<1>8. StreamShape'
  <2>1. \A i \in 1..Len(stream') : /\ stream'[i].id \in 1..(nextId' - 1) /\ stream'[i].what <= Sent'
                                   /\ stream'[i].what = Redis!Closed => Ended'
    <3>. SUFFICES ASSUME NEW i \in 1..Len(stream')
                  PROVE  /\ stream'[i].id \in 1..(nextId' - 1) /\ stream'[i].what <= Sent'
                         /\ stream'[i].what = Redis!Closed => Ended'
      OBVIOUS
    <3>1. CASE i + d \in 1..Len(stream) /\ stream'[i] = stream[i + d]
      <4>. DEFINE e == stream[i + d]
      <4>1. e.id \in 1..(nextId - 1) /\ e.what <= Sent /\ e.what # Redis!Closed /\ e.what \in Nat
        BY <1>7, <3>1
      <4>2. stream'[i] = e /\ nextId' = nextId + 1 /\ nextId \in Nat /\ Sent' >= Sent
        BY <1>1, <1>2, <1>4, <3>1
      <4>. HIDE DEF e
      <4>. QED  BY <1>6, <4>1, <4>2
    <3>2. CASE stream'[i] = [id |-> nextId, what |-> what]
      BY <1>1, <1>2, <1>4, <3>2
    <3>. QED  BY <1>3, <3>1, <3>2
  <2>2. ASSUME NEW i \in 1..Len(stream'), NEW j \in 1..Len(stream'), i < j
        PROVE  /\ stream'[i].id < stream'[j].id
               /\ stream'[i].what # Redis!Closed
               /\ stream'[j].what # Redis!Closed => stream'[i].what < stream'[j].what
    <3>1. i + d \in 1..Len(stream) /\ stream'[i] = stream[i + d] /\ i + d < j + d
      <4>1. j + d <= Len(stream) + 1
        BY <1>3, <1>7
      <4>. QED  BY <1>3, <1>7, <2>2, <4>1
    <3>2. CASE j + d \in 1..Len(stream) /\ stream'[j] = stream[j + d]
      BY <1>1, <3>1, <3>2 DEF StreamShape
    <3>3. CASE stream'[j] = [id |-> nextId, what |-> what]
      BY <1>1, <1>2, <1>6, <1>7, <3>1, <3>3, SMTT(30)
    <3>. QED  BY <1>3, <3>2, <3>3
  <2>. QED  BY <2>1, <2>2 DEF StreamShape
<1>9. ASSUME NEW v \in Viewers PROVE InOrder(watching[v])'
  <2>1. /\ \A k \in 1..Len(watching[v].got) : watching[v].got[k] \in Nat
        /\ InOrder(watching[v]) /\ watching' = watching
    BY <1>1, <1>2, ViewingFacts DEF OrderInv
  <2>2. ASSUME watching[v].pc # "done", NEW k \in 1..Len(watching[v].got), NEW i \in 1..Len(stream'),
               stream'[i].id > watching[v].last, stream'[i].what # Redis!Closed
        PROVE  watching[v].got[k] < stream'[i].what
    <3>1. CASE i + d \in 1..Len(stream) /\ stream'[i] = stream[i + d]
      BY <2>1, <2>2, <3>1 DEF InOrder
    <3>2. CASE stream'[i] = [id |-> nextId, what |-> what]
      <4>1. watching[v].got[k] \in Nat /\ watching[v].got[k] <= Sent /\ Sent < what
        BY <1>2, <2>1, <2>2, <3>2, SMTT(30) DEF InOrder
      <4>. QED  BY <1>6, <3>2, <4>1
    <3>. QED  BY <1>3, <3>1, <3>2
  <2>3. watching[v].pc # "done" => \A k \in 1..Len(watching[v].got) : watching[v].got[k] <= Sent'
    BY <1>2, <1>6, <2>1 DEF InOrder
  <2>4. watching[v].last < nextId'
    <3>1. watching[v].last < nextId + 1
      BY <1>1, <2>1, ViewingFacts DEF InOrder
    <3>. QED  BY <1>4, <3>1
  <2>. QED  BY <2>1, <2>2, <2>3, <2>4 DEF InOrder
<1>. QED  BY <1>2, <1>5, <1>8, <1>9 DEF OrderInv

(* While the stream has room for the run, nothing is trimmed. *)
LEMMA LandsKeepWhole ==
    ASSUME RedisConstants, MaxSpans < MaxLen, WholeInv, SpanLands \/ EndLands
    PROVE  Kept' /\ \A v \in Viewers : Whole(watching[v])'
<1>1. /\ RedisType /\ Kept /\ reported \in 0..MaxSpans /\ StreamShape /\ Len(stream) \in Nat
      /\ ~Ended /\ ~Gone /\ watching' = watching /\ Len(stream) <= Sent
  BY EntryFacts DEF WholeInv, OrderInv, RedisType, Kept, SpanLands, EndLands
<1>2. Len(stream) < MaxLen
  BY <1>1 DEF SpanLands, EndLands, RedisConstants
<1>3. PICK what \in Nat :
        /\ Redis!XAdd(what) /\ (what = Redis!Closed => Ended')
        /\ Ended' \/ Sent' = Sent + 1
  <2>1. CASE SpanLands
    BY <1>1, <2>1 DEF SpanLands, RedisConstants, Redis!Closed, CallShape, WholeInv, OrderInv
  <2>2. CASE EndLands
    BY <1>1, <2>2 DEF EndLands, Redis!Closed
  <2>. QED  BY <2>1, <2>2
<1>4. PICK d \in Nat :
        /\ d = 0 /\ Len(stream') = Len(stream) + 1 - d
        /\ \A i \in 1..Len(stream') :
             \/ i + d \in 1..Len(stream) /\ stream'[i] = stream[i + d]
             \/ i + d = Len(stream) + 1 /\ stream'[i] = [id |-> nextId, what |-> what]
  BY <1>1, <1>2, <1>3, Appending
<1>5. /\ Len(stream') = Len(stream) + 1
      /\ \A i \in 1..Len(stream) : stream'[i] = stream[i]
      /\ stream'[Len(stream) + 1] = [id |-> nextId, what |-> what]
      /\ appended' = appended \cup ({what} \ {Redis!Closed})
  <2>1. \A i \in 1..Len(stream) : i \in 1..Len(stream') /\ i + d = i /\ i # Len(stream) + 1
    BY <1>1, <1>4
  <2>2. Len(stream) + 1 \in 1..Len(stream') /\ ~(Len(stream) + 1 \in 1..Len(stream))
    BY <1>1, <1>4
  <2>. QED  BY <1>1, <1>3, <1>4, <2>1, <2>2 DEF Redis!XAdd
<1>. DEFINE n == Len(stream) + 1
<1>6. /\ n \in Nat /\ n \in 1..n /\ 1..Len(stream') = 1..n
      /\ \A i \in 1..n : i \in 1..Len(stream) \/ i = n
      /\ \A i \in 1..Len(stream) : i \in 1..n
  BY <1>1, <1>5
<1>. HIDE DEF n
<1>7. stream'[n].id = nextId /\ stream'[n].what = what
  BY <1>5 DEF n
<1>8. Kept'
  <2>1. Ended' \/ Len(stream') <= Sent'
    <3>1. Sent \in Int
      BY <1>1, SentType
    <3>2. Sent' = Sent + 1 => Len(stream) + 1 <= Sent + 1
      BY <1>1, <3>1
    <3>. QED  BY <1>3, <1>5, <3>2
  <2>2. \A i \in 1..n : stream'[i].what # Redis!Closed => stream'[i].what \in appended'
    BY <1>1, <1>5, <1>6, <1>7 DEF Kept
  <2>3. \A s \in appended' : \E i \in 1..n : stream'[i].what = s
    BY <1>1, <1>5, <1>6, <1>7 DEF Kept
  <2>. QED  BY <1>1, <1>5, <1>6, <2>1, <2>2, <2>3 DEF Kept
<1>9. ASSUME NEW v \in Viewers PROVE Whole(watching[v])'
  <2>1. Whole(watching[v])
    BY DEF WholeInv
  <2>2. ~(watching[v].end = "complete" /\ watching[v].last > 0)
    BY <1>1, <2>1 DEF Whole
  <2>3. ASSUME watching[v].pc = "live", NEW s \in appended'
        PROVE  \/ \E k \in 1..Len(watching[v].got) : watching[v].got[k] = s
               \/ \E i \in 1..n : stream'[i].id > watching[v].last /\ stream'[i].what = s
    <3>1. CASE s \in appended
      BY <1>1, <1>5, <1>6, <2>1, <2>3, <3>1 DEF Whole
    <3>2. CASE s = what
      BY <1>6, <1>7, <3>2 DEF WholeInv, OrderInv, InOrder
    <3>. QED  BY <1>5, <3>1, <3>2
  <2>. QED  BY <1>1, <1>5, <1>6, <2>1, <2>2, <2>3 DEF Whole
<1>. QED  BY <1>8, <1>9

-----------------------------------------------------------------------------
(* The viewers, and the day after. *)

(* A step of one viewer. *)
LEMMA ViewerKeepsOrder ==
    ASSUME OrderInv, NEW v \in Viewers, NEW r \in Viewing, InOrder(r),
           watching' = [watching EXCEPT ![v] = r],
           UNCHANGED <<stream, nextId, calls, phase, reported, persisted>>
    PROVE  OrderInv'
<1>1. RedisType'
  BY DEF OrderInv, RedisType
<1>2. Sent' = Sent /\ Ended' = Ended
  BY DEF Sent, SpanWaits, Opens, AddSpan, Ended, AfterEnd
<1>3. CallShape' /\ StreamShape'
  BY <1>2 DEF OrderInv, CallShape, StreamShape, SpanWaits, EndWaits, Opens, AddSpan, AfterEnd,
     Redis!CloseCommands, Redis!Closed
<1>4. ASSUME NEW u \in Viewers PROVE InOrder(watching[u])'
  <2>1. watching'[u] = r \/ watching'[u] = watching[u]
    BY DEF OrderInv, RedisType
  <2>. QED  BY <1>2, <2>1, SMTT(30) DEF OrderInv, InOrder
<1>. QED  BY <1>1, <1>3, <1>4 DEF OrderInv

LEMMA ViewerKeepsWhole ==
    ASSUME WholeInv, NEW v \in Viewers, NEW r \in Viewing, Whole(r),
           watching' = [watching EXCEPT ![v] = r],
           UNCHANGED <<stream, nextId, calls, phase, reported, appended>>
    PROVE  Kept' /\ \A u \in Viewers : Whole(watching[u])'
<1>2. Sent' = Sent /\ Ended' = Ended /\ Gone' = Gone
  BY DEF Sent, SpanWaits, Opens, AddSpan, Ended, AfterEnd, Gone
<1>3. Kept'
  BY <1>2 DEF WholeInv, Kept
<1>4. ASSUME NEW u \in Viewers PROVE Whole(watching[u])'
  <2>1. watching'[u] = r \/ watching'[u] = watching[u]
    BY DEF WholeInv, OrderInv, RedisType
  <2>. QED  BY <1>2, <2>1 DEF WholeInv, Whole
<1>. QED  BY <1>3, <1>4

(* What a step of a viewer makes of its record. *)
Becomes(v, r) ==
    /\ watching' = [watching EXCEPT ![v] = r]
    /\ UNCHANGED <<stream, nextId, calls, phase, reported, persisted, appended>>

(* The viewer is told something, or leaves, and has read no more than before. *)
Ending(v, end) == [watching[v] EXCEPT !.pc = "done", !.end = end]

LEMMA EndsViewing ==
    ASSUME RedisConstants, OrderInv, NEW v \in Viewers, watching[v].pc # "done",
           NEW end \in {"complete", "raised", "disconnected", "left"}
    PROVE  LET r == Ending(v, end)
           IN  /\ r \in Viewing /\ InOrder(r) /\ r.end = end /\ r.last = watching[v].last
               /\ r.got = watching[v].got /\ r.pc = "done"
<1>. DEFINE r == Ending(v, end)
<1>1. watching[v] \in Viewing /\ InOrder(watching[v])
  BY DEF OrderInv, RedisType
<1>2. r \in Viewing /\ r.end = end /\ r.last = watching[v].last /\ r.got = watching[v].got
      /\ r.pc = "done"
  BY <1>1 DEF Viewing, Ending
<1>. HIDE DEF r
<1>3. InOrder(r)
  BY <1>1, <1>2 DEF InOrder
<1>. QED  BY <1>2, <1>3 DEF r

(* What the step of a viewer makes of its record keeps the invariants. *)
Fits(v, r) == r \in Viewing /\ InOrder(r) /\ Becomes(v, r) /\ (WholeInv => Whole(r))

LEMMA RedisSnapshotStep ==
    ASSUME RedisConstants, OrderInv, NEW v \in Viewers, Redis!Snapshot(v)
    PROVE  \E r \in Viewing : Fits(v, r)
<1>1. watching[v] \in Viewing /\ InOrder(watching[v]) /\ watching[v].pc = "away" /\ reported \in Nat
      /\ nextId \in Nat \ {0}
  BY DEF OrderInv, RedisType, Redis!Snapshot, RedisConstants
<1>2. watching[v].last = 0 /\ watching[v].got = <<>> /\ watching[v].end = "none"
  BY <1>1 DEF InOrder
<1>3. CASE persisted
  <2>. DEFINE all == [i \in 1..reported |-> i]
              r == [watching[v] EXCEPT !.pc = "done", !.end = "complete", !.got = all]
  <2>1. all \in Seq(Nat) /\ Len(all) = reported /\ \A i \in 1..reported : all[i] = i
    BY <1>1
  <2>2. Becomes(v, r)
    BY <1>3 DEF Redis!Snapshot, Redis!Set, Becomes, Redis!redis, Redis!worker
  <2>. HIDE DEF all
  <2>3. r \in Viewing /\ r.last = 0 /\ r.got = all /\ r.pc = "done"
    BY <1>1, <1>2, <2>1 DEF Viewing
  <2>. HIDE DEF r
  <2>4. InOrder(r) /\ Whole(r)
    BY <1>1, <2>1, <2>3 DEF InOrder, Whole
  <2>. QED  BY <2>2, <2>3, <2>4 DEF Fits
<1>4. CASE ~persisted
  <2>. DEFINE r == [watching[v] EXCEPT !.pc = "subscribe"]
  <2>1. Becomes(v, r)
    BY <1>4 DEF Redis!Snapshot, Redis!Set, Becomes, Redis!redis, Redis!worker
  <2>2. r \in Viewing /\ r.last = 0 /\ r.got = <<>> /\ r.pc = "subscribe" /\ r.end = "none"
    BY <1>1, <1>2 DEF Viewing
  <2>. HIDE DEF r
  <2>3. InOrder(r) /\ Whole(r)
    BY <1>1, <2>2 DEF InOrder, Whole
  <2>. QED  BY <2>1, <2>2, <2>3 DEF Fits
<1>. QED  BY <1>3, <1>4

LEMMA FailsStep ==
    ASSUME RedisConstants, OrderInv, NEW v \in Viewers,
           Redis!SubscribeFails(v) \/ Redis!ReadFails(v) \/ Redis!Leave(v)
    PROVE  \E r \in Viewing : Fits(v, r)
<1>1. PICK end \in {"raised", "disconnected", "left"} :
        /\ watching' = [watching EXCEPT ![v] = [watching[v] EXCEPT !.pc = "done", !.end = end]]
        /\ UNCHANGED <<stream, nextId, calls, phase, reported, persisted, appended>>
        /\ watching[v].pc # "done"
  <2>1. watching \in [Viewers -> Viewing] /\ watching[v] \in Viewing
    BY DEF OrderInv, RedisType
  <2>2. CASE Redis!SubscribeFails(v)
    BY <2>1, <2>2 DEF Redis!SubscribeFails, Redis!redis
  <2>3. CASE Redis!ReadFails(v)
    BY <2>1, <2>3 DEF Redis!ReadFails, Redis!redis
  <2>4. CASE Redis!Leave(v)
    BY <2>4 DEF Redis!Leave, Redis!Told, Redis!Set, Redis!redis, Redis!worker
  <2>. QED  BY <2>2, <2>3, <2>4
<1>. DEFINE r == Ending(v, end)
<1>2. Becomes(v, r)
  BY <1>1 DEF Becomes, Ending
<1>3. r \in Viewing /\ InOrder(r) /\ r.end = end /\ r.pc = "done"
  BY <1>1, EndsViewing
<1>. HIDE DEF r
<1>. QED  BY <1>2, <1>3 DEF Fits, Whole

LEMMA RedisSubscribeStep ==
    ASSUME RedisConstants, OrderInv, NEW v \in Viewers, Redis!subscribe(v)
    PROVE  \E r \in Viewing : Fits(v, r)
<1>1. watching[v] \in Viewing /\ InOrder(watching[v]) /\ watching[v].pc = "subscribe"
      /\ nextId \in Nat \ {0}
  BY DEF OrderInv, RedisType, Redis!subscribe
<1>2. watching[v].last = 0 /\ watching[v].got = <<>> /\ watching[v].end = "none"
  BY <1>1 DEF InOrder
<1>3. CASE closedKey
  <2>. DEFINE r == Ending(v, "complete")
  <2>1. Becomes(v, r)
    BY <1>3 DEF Redis!subscribe, Redis!Told, Redis!Set, Becomes, Ending, Redis!redis, Redis!worker
  <2>2. r \in Viewing /\ InOrder(r) /\ r.last = 0 /\ r.pc = "done"
    BY <1>1, <1>2, EndsViewing
  <2>. HIDE DEF r
  <2>. QED  BY <2>1, <2>2 DEF Fits, Whole
<1>4. CASE ~closedKey
  <2>. DEFINE r == [watching[v] EXCEPT !.pc = "live"]
  <2>1. Becomes(v, r)
    BY <1>4 DEF Redis!subscribe, Redis!Told, Redis!Set, Becomes, Redis!redis, Redis!worker
  <2>2. r \in Viewing /\ r.last = 0 /\ r.got = <<>> /\ r.pc = "live" /\ r.end = "none"
    BY <1>1, <1>2 DEF Viewing
  <2>. HIDE DEF r
  <2>3. InOrder(r)
    BY <1>1, <2>2 DEF InOrder
  <2>4. WholeInv => Whole(r)
    <3>1. \A i \in 1..Len(stream) : stream[i].id > 0
      BY <1>1 DEF OrderInv, StreamShape
    <3>. QED  BY <2>2, <3>1 DEF WholeInv, Kept, Whole
  <2>. QED  BY <2>1, <2>2, <2>3, <2>4 DEF Fits
<1>. QED  BY <1>3, <1>4

(* Every nonempty set of numbers has a least one. *)
LEMMA SmallestOfNat ==
    ASSUME NEW S, S \subseteq Nat, S # {} PROVE \E i \in S : \A j \in S : i <= j
<1>1. PICK i \in S : \A j \in S : <<j, i>> \notin OpToRel(<, Nat)
  BY NatLessThanWellFounded, WFMin
<1>2. \A j \in S : ~(j < i)
  BY <1>1 DEF OpToRel
<1>. QED  BY <1>2

(* The first unread entry. *)
LEMMA FirstUnread ==
    ASSUME RedisType, NEW v \in Viewers, Redis!Unread(v) # {}
    PROVE  (CHOOSE i \in Redis!Unread(v) : \A j \in Redis!Unread(v) : i <= j)
              \in {i \in Redis!Unread(v) : \A j \in Redis!Unread(v) : i <= j}
<1>1. Redis!Unread(v) \subseteq Nat
  BY DEF Redis!Unread
<1>2. \E i \in Redis!Unread(v) : \A j \in Redis!Unread(v) : i <= j
  BY <1>1, SmallestOfNat
<1>. QED  BY <1>2

LEMMA ReadStep ==
    ASSUME RedisConstants, OrderInv, NEW v \in Viewers, Redis!xread(v)
    PROVE  \E r \in Viewing : Fits(v, r)
<1>1. /\ watching[v] \in Viewing /\ InOrder(watching[v]) /\ watching[v].pc = "live" /\ RedisType
      /\ watching[v].end = "none" /\ nextId \in Nat \ {0} /\ StreamShape
  BY DEF OrderInv, RedisType, Redis!xread, InOrder
<1>. DEFINE i0 == CHOOSE i \in Redis!Unread(v) : \A j \in Redis!Unread(v) : i <= j
            e == stream[i0]
            w == watching[v]
<1>2. /\ i0 \in 1..Len(stream) /\ e.id > w.last
      /\ \A j \in 1..Len(stream) : stream[j].id > w.last => i0 <= j
  BY <1>1, FirstUnread DEF Redis!xread, Redis!Unread
<1>3. /\ w.last \in Nat /\ w.got \in Seq(Nat) /\ Len(w.got) \in Nat /\ Len(stream) \in Nat
      /\ e.id \in Nat /\ e.what \in Nat
      /\ \A j \in 1..Len(stream) : stream[j].id \in Nat /\ stream[j].what \in Nat
  BY <1>1, <1>2, EntryFacts, ViewingFacts
<1>4. IF e.what = Redis!Closed THEN Redis!Told(v, "complete")
           ELSE Redis!Set(v, [w EXCEPT !.last = e.id, !.got = Append(w.got, e.what)])
  BY DEF Redis!xread
<1>. HIDE DEF i0
<1>5. CASE e.what = Redis!Closed
  <2>. DEFINE r == Ending(v, "complete")
  <2>1. Becomes(v, r)
    BY <1>4, <1>5 DEF Redis!Told, Redis!Set, Becomes, Ending, Redis!redis, Redis!worker
  <2>2. r \in Viewing /\ InOrder(r) /\ r.got = w.got /\ r.pc = "done"
    BY <1>1, EndsViewing
  <2>. HIDE DEF r
  <2>3. ASSUME WholeInv PROVE Ended /\ Redis!ToSet(w.got) = appended
    <3>1. Ended /\ ~Gone
      BY <1>2, <1>5 DEF OrderInv, StreamShape, Gone
    <3>2. \A j \in 1..Len(stream) : stream[j].id > w.last => stream[j].what \notin appended
      BY <1>1, <1>2, <1>5, <2>3 DEF StreamShape, WholeInv, Kept
    <3>3. \A s \in appended : \E k \in 1..Len(w.got) : w.got[k] = s
      BY <1>1, <2>3, <3>1, <3>2 DEF WholeInv, Whole
    <3>4. \A k \in 1..Len(w.got) : w.got[k] \in appended
      BY <1>1, <2>3 DEF WholeInv, Whole
    <3>5. DOMAIN w.got = 1..Len(w.got)
      BY <1>3
    <3>. QED  BY <3>1, <3>3, <3>4, <3>5 DEF Redis!ToSet
  <2>. QED  BY <2>1, <2>2, <2>3 DEF Fits, Whole
<1>6. CASE e.what # Redis!Closed
  <2>. DEFINE more == Append(w.got, e.what)
              r == [w EXCEPT !.last = e.id, !.got = more]
              n == Len(w.got)
  <2>1. Becomes(v, r)
    BY <1>4, <1>6 DEF Redis!Set, Becomes, Redis!redis, Redis!worker
  <2>2. /\ more \in Seq(Nat) /\ Len(more) = n + 1 /\ more[n + 1] = e.what
        /\ \A k \in 1..n : more[k] = w.got[k]
    BY <1>3
  <2>. HIDE DEF more
  <2>3. r \in Viewing /\ r.last = e.id /\ r.got = more /\ r.pc = "live" /\ r.end = "none"
    BY <1>1, <1>3, <2>2 DEF Viewing
  <2>. HIDE DEF r
  <2>4. \A j \in 1..Len(stream) : stream[j].id > e.id => i0 < j /\ stream[j].id > w.last
    <3>. SUFFICES ASSUME NEW j \in 1..Len(stream), stream[j].id > e.id
                  PROVE  i0 < j /\ stream[j].id > w.last
      OBVIOUS
    <3>1. stream[j].id > w.last
      BY <1>2, <1>3
    <3>. QED  BY <1>2, <1>3, <3>1
  <2>5. \A k \in 1..n : w.got[k] < e.what /\ w.got[k] \in Nat /\ w.got[k] <= Sent
    <3>. SUFFICES ASSUME NEW k \in 1..n PROVE w.got[k] < e.what /\ w.got[k] \in Nat /\ w.got[k] <= Sent
      OBVIOUS
    <3>1. /\ w.got[k] <= Sent
          /\ \A i \in 1..Len(stream) :
                stream[i].id > w.last /\ stream[i].what # Redis!Closed => w.got[k] < stream[i].what
      BY <1>1 DEF InOrder
    <3>2. w.got[k] < e.what
      BY <1>2, <1>6, <3>1
    <3>. QED  BY <1>3, <3>1, <3>2, SMTT(30)
  <2>6. e.what <= Sent /\ e.id < nextId /\ Sent \in Int
    BY <1>1, <1>2, SentType DEF StreamShape
  <2>7. \A i \in 1..(n + 1) : i \in 1..n \/ i = n + 1
    <3>1. n \in Nat
      BY <1>3
    <3>. HIDE DEF n
    <3>. QED  BY <3>1
  <2>8. InOrder(r)
    <3>1. \A i, j \in 1..(n + 1) : i < j => more[i] < more[j]
      <4>1. \A i, j \in 1..(n + 1) : i < j => i \in 1..n
        BY <1>3
      <4>. QED  BY <1>1, <2>2, <2>5, <2>7, <4>1 DEF InOrder
    <3>2. ASSUME NEW k \in 1..(n + 1), NEW j \in 1..Len(stream), stream[j].id > e.id,
                 stream[j].what # Redis!Closed
          PROVE  more[k] < stream[j].what
      <4>1. e.what < stream[j].what
        BY <1>1, <1>2, <2>4, <3>2 DEF StreamShape
      <4>2. \A m \in 1..n : w.got[m] < stream[j].what
        <5>1. stream[j].what \in Nat /\ e.what \in Nat
          BY <1>3
        <5>. HIDE DEF e
        <5>. QED  BY <2>5, <4>1, <5>1, SMTT(30)
      <4>. QED  BY <2>2, <2>7, <4>1, <4>2
    <3>3. \A k \in 1..(n + 1) : more[k] <= Sent
      BY <2>2, <2>5, <2>6, <2>7
    <3>. QED  BY <2>2, <2>3, <2>6, <3>1, <3>2, <3>3 DEF InOrder
  <2>9. ASSUME WholeInv PROVE Whole(r)
    <3>1. Whole(w) /\ Kept
      BY <2>9 DEF WholeInv
    <3>2. \A k \in 1..(n + 1) : more[k] \in appended
      BY <1>1, <1>2, <1>6, <2>2, <2>7, <3>1 DEF Whole, Kept
    <3>3. ASSUME NEW s \in appended, ~Gone
          PROVE  \/ \E k \in 1..(n + 1) : more[k] = s
                 \/ \E j \in 1..Len(stream) : stream[j].id > e.id /\ stream[j].what = s
      <4>1. CASE \E k \in 1..n : w.got[k] = s
        <5>1. \A k \in 1..n : k \in 1..(n + 1)
          BY <1>3
        <5>. QED  BY <2>2, <4>1, <5>1
      <4>2. ASSUME NEW j \in 1..Len(stream), stream[j].id > w.last, stream[j].what = s
            PROVE  s = e.what \/ stream[j].id > e.id
        BY <1>1, <1>2, <1>3, <4>2 DEF StreamShape
      <4>3. n + 1 \in 1..(n + 1)
        BY <1>3
      <4>. QED  BY <1>1, <2>2, <3>1, <3>3, <4>1, <4>2, <4>3 DEF Whole
    <3>. QED  BY <2>2, <2>3, <3>2, <3>3 DEF Whole
  <2>. QED  BY <2>1, <2>3, <2>8, <2>9 DEF Fits
<1>. QED  BY <1>5, <1>6

(* The keys with an expiry date are gone. *)
LEMMA ExpireStep ==
    ASSUME RedisConstants, OrderInv, Redis!Expire
    PROVE  OrderInv' /\ (WholeInv => WholeInv')
<1>1. /\ phase = "over" /\ calls = <<>> /\ RedisType /\ CallShape
      /\ stream' = <<>> \/ stream' = stream
      /\ UNCHANGED <<nextId, calls, phase, reported, persisted, appended, watching>>
  BY DEF Redis!Expire, OrderInv, CallShape, Redis!worker
<1>2. Sent' = Sent /\ Ended' = Ended /\ Ended /\ CallShape'
  BY <1>1 DEF Sent, SpanWaits, Opens, AddSpan, Ended, AfterEnd, CallShape
<1>3. CASE stream' = stream
  BY <1>1, <1>2, <1>3 DEF OrderInv, RedisType, StreamShape, InOrder, WholeInv, Kept, Whole, Gone
<1>4. CASE stream' = <<>>
  <2>1. Len(stream') = 0 /\ stream' \in Seq(Entry) /\ Gone'
    BY <1>1, <1>4 DEF Gone
  <2>2. RedisType' /\ StreamShape'
    BY <1>1, <2>1 DEF RedisType, StreamShape
  <2>3. \A v \in Viewers : InOrder(watching[v])'
    BY <1>1, <1>2, <2>1 DEF OrderInv, InOrder
  <2>4. OrderInv'
    BY <1>2, <2>2, <2>3 DEF OrderInv
  <2>5. ASSUME WholeInv PROVE WholeInv'
    BY <1>1, <1>2, <2>1, <2>4, <2>5 DEF WholeInv, Kept, Whole
  <2>. QED  BY <2>4, <2>5
<1>. QED  BY <1>1, <1>3, <1>4

-----------------------------------------------------------------------------
LEMMA ViewSteps ==
    ASSUME RedisConstants, OrderInv, NEW v \in Viewers,
           Redis!Snapshot(v) \/ Redis!View(v) \/ Redis!SubscribeFails(v) \/ Redis!ReadFails(v) \/ Redis!Leave(v)
    PROVE  OrderInv' /\ (WholeInv => WholeInv')
<1>1. PICK r \in Viewing : Fits(v, r)
  BY RedisSnapshotStep, RedisSubscribeStep, ReadStep, FailsStep DEF Redis!View
<1>2. OrderInv'
  BY <1>1, ViewerKeepsOrder DEF Fits, Becomes
<1>3. ASSUME WholeInv PROVE Kept' /\ \A u \in Viewers : Whole(watching[u])'
  BY <1>1, <1>3, ViewerKeepsWhole DEF Fits, Becomes
<1>. QED  BY <1>2, <1>3 DEF WholeInv

LEMMA RedisNext ==
    ASSUME RedisConstants, OrderInv, [Redis!Next]_Redis!vars
    PROVE  OrderInv' /\ (MaxSpans < MaxLen /\ WholeInv => WholeInv')
<1>1. CASE UNCHANGED Redis!vars
  <2>1. Quiet
    BY <1>1, SentType DEF Redis!vars, Redis!redis, Redis!worker, Quiet, OrderInv, RedisType, CallShape, Sent, SpanWaits,
       EndWaits, AddSpan, Opens, Ended, AfterEnd, Gone, Redis!CloseCommands, Redis!Closed
  <2>. QED  BY <2>1, QuietKeepsOrder, QuietKeepsWhole DEF WholeInv
<1>2. CASE Redis!Worker \/ Redis!CommandFails
  <2>1. Quiet \/ SpanLands \/ EndLands
    BY <1>2, CallSteps, CommandSteps DEF Redis!Worker
  <2>. QED  BY <2>1, QuietKeepsOrder, QuietKeepsWhole, LandsKeepOrder, LandsKeepWhole DEF WholeInv
<1>. QED  BY <1>1, <1>2, ExpireStep, ViewSteps DEF Redis!Next

(* With a stream of any length and any commands failing, no viewer reads a span twice or after a
   later one: xread asks for what comes after the last id, and ids grow with the spans. *)
THEOREM ViewersReadInOrder == ASSUME RedisConstants PROVE Redis!Spec => []Redis!InOrderOnce
<1>1. Redis!Init => OrderInv
  BY WholeInit DEF WholeInv
<1>2. OrderInv /\ [Redis!Next]_Redis!vars => OrderInv'
  BY RedisNext
<1>3. OrderInv => Redis!InOrderOnce
  BY DEF OrderInv, InOrder, Redis!InOrderOnce
<1>. QED  BY <1>1, <1>2, <1>3, PTL DEF Redis!Spec

(* All that is known of the stream and its viewers. *)
RedisSound == OrderInv /\ (MaxSpans < MaxLen => WholeInv)

LEMMA RedisSoundInit == ASSUME RedisConstants, Redis!Init PROVE RedisSound
BY WholeInit DEF RedisSound, WholeInv

LEMMA RedisSoundNext == ASSUME RedisConstants, RedisSound, [Redis!Next]_Redis!vars PROVE RedisSound'
BY RedisNext DEF RedisSound

LEMMA RedisSoundGives == ASSUME RedisSound PROVE Redis!RedisViewersSeeTheRun
BY DEF RedisSound, WholeInv, OrderInv, InOrder, Redis!InOrderOnce, Whole, Redis!ReplayIsComplete,
       Redis!RedisViewersSeeTheRun

(* Moreover, of a run with fewer spans than _STREAM_MAXLEN, whoever reads the end has read all
   that ever reached the stream: subscribe reads it from its beginning, the end is appended last,
   and nothing is trimmed or expires under a viewer who still reads. *)
THEOREM RedisViewersDo == ASSUME RedisConstants PROVE Redis!Spec => []Redis!RedisViewersSeeTheRun
<1>1. RedisSound /\ [Redis!Next]_Redis!vars => RedisSound'
  BY RedisSoundNext
<1>. QED  BY <1>1, RedisSoundInit, RedisSoundGives, PTL DEF Redis!Spec

-----------------------------------------------------------------------------
(* What a span carries (Payloads).                                           *)
CONSTANTS Writers, Values, Chars, Bytes, Audio, InlineMax, Threshold, WritersDie, None
VARIABLES file, writing, job, spans, raised, answer
Files == INSTANCE Payloads WITH pc <- writing, Dies <- WritersDie

(* For any number of writers and payloads, and any lengths and limits: what  *)
(* is behind a pointer is never read cut, clips are always behind one, and   *)
(* the one payload that can be cut is one that the router takes for small    *)
(* and whose text is longer than what a span carries.                        *)

(* A recorded field has a pointer, or is a payload the router left inline.   *)
FieldOK(s) ==
    \/ s.pointer
    \/ ~Files!Offloads(s.value) /\ s.inline = Files!Preview(s.value)

FieldsOK == \A s \in spans : FieldOK(s)

SpansTyped == \A s \in spans : s.value \in Values
JobsTyped == \A w \in Writers : writing[w] # "idle" => job[w] \in Values

WriterStates == {"idle", "put", "open", "write"}

LEMMA FieldWithPointer == \A v : FieldOK(Files!Field(v, TRUE)) /\ Files!Field(v, TRUE).value = v
BY DEF FieldOK, Files!Field

LEMMA FieldWithout ==
    ASSUME NEW v, ~Files!Offloads(v)
    PROVE  FieldOK(Files!Field(v, FALSE)) /\ Files!Field(v, FALSE).value = v
<1>1. v \notin Audio
    BY DEF Files!Offloads
<1> QED BY <1>1 DEF FieldOK, Files!Field

FilesShape == job \in [Writers -> Values \cup {None}] /\ writing \in [Writers -> WriterStates]

FilesFit == FilesShape /\ SpansTyped /\ JobsTyped /\ FieldsOK

LEMMA DoneJobs ==
    ASSUME NEW w \in Writers, Files!Done(w), FilesShape, JobsTyped
    PROVE  FilesShape' /\ JobsTyped'
<1>1. FilesShape'
    <2>1. writing' = [writing EXCEPT ![w] = "idle"] /\ job' = [job EXCEPT ![w] = None]
        BY DEF Files!Done
    <2>2. writing' \in [Writers -> WriterStates]
        BY <2>1 DEF FilesShape, WriterStates
    <2>3. job' \in [Writers -> Values \cup {None}]
        BY <2>1 DEF FilesShape
    <2> QED BY <2>2, <2>3 DEF FilesShape
<1>2. ASSUME NEW x \in Writers, writing'[x] # "idle" PROVE job'[x] \in Values
    <2>1. x # w
        BY <1>2 DEF Files!Done, FilesShape
    <2>2. writing'[x] = writing[x] /\ job'[x] = job[x]
        BY <2>1 DEF Files!Done, FilesShape
    <2> QED BY <1>2, <2>2 DEF JobsTyped
<1> QED BY <1>1, <1>2 DEF JobsTyped

LEMMA MovesKeepJobs ==
    ASSUME NEW w \in Writers, NEW to \in WriterStates, job[w] \in Values, FilesShape, JobsTyped,
           writing' = [writing EXCEPT ![w] = to], UNCHANGED job
    PROVE  FilesShape' /\ JobsTyped'
<1>1. FilesShape'
    BY DEF FilesShape, WriterStates
<1>2. ASSUME NEW x \in Writers, writing'[x] # "idle" PROVE job'[x] \in Values
    BY <1>2 DEF FilesShape, JobsTyped
<1> QED BY <1>1, <1>2 DEF JobsTyped

(* The fields are recorded by route_payload without a pointer, and by put    *)
(* and write_bytes with one; the other steps record nothing.                 *)
LEMMA FilesInit == Files!Init => FilesFit
<1> SUFFICES ASSUME Files!Init PROVE FilesFit
    OBVIOUS
<1>1. writing \in [Writers -> WriterStates] /\ job \in [Writers -> Values \cup {None}]
    BY DEF Files!Init, WriterStates
<1>2. \A w \in Writers : writing[w] = "idle"
    BY DEF Files!Init
<1>3. spans = {}
    BY DEF Files!Init
<1> QED BY <1>1, <1>2, <1>3 DEF FilesFit, FilesShape, SpansTyped, JobsTyped, FieldsOK

LEMMA FilesNext == FilesFit /\ [Files!Next]_Files!vars => FilesFit'
<1> SUFFICES ASSUME FilesFit, [Files!Next]_Files!vars PROVE FilesFit'
    OBVIOUS
<1>1. ASSUME NEW w \in Writers, NEW v \in Values, Files!route_payload(w, v) PROVE FilesFit'
    <2>1. CASE Files!Offloads(v)
        <3>1. /\ writing' = [writing EXCEPT ![w] = "put"] /\ job' = [job EXCEPT ![w] = v]
              /\ UNCHANGED spans
            BY <1>1, <2>1 DEF Files!route_payload
        <3>2. writing' \in [Writers -> WriterStates] /\ job' \in [Writers -> Values \cup {None}]
            BY <3>1 DEF FilesFit, FilesShape, WriterStates
        <3>3. JobsTyped'
            BY <3>1 DEF FilesFit, FilesShape, JobsTyped
        <3> QED BY <3>1, <3>2, <3>3 DEF FilesFit, FilesShape, SpansTyped, FieldsOK
    <2>2. CASE ~Files!Offloads(v)
        <3>1. spans' = spans \cup {Files!Field(v, FALSE)} /\ UNCHANGED <<writing, job>>
            BY <1>1, <2>2 DEF Files!route_payload
        <3>2. SpansTyped' /\ FieldsOK'
            BY <2>2, <3>1, FieldWithout DEF FilesFit, SpansTyped, FieldsOK
        <3> QED BY <3>1, <3>2 DEF FilesFit, FilesShape, JobsTyped
    <2> QED BY <2>1, <2>2
<1>2. ASSUME NEW w \in Writers, Files!put(w) PROVE FilesFit'
    <2>0. writing[w] = "put" /\ job[w] \in Values
        BY <1>2 DEF Files!put, FilesFit, JobsTyped
    <2>1. CASE writing' = [writing EXCEPT ![w] = "open"] /\ UNCHANGED <<job, spans>>
        <3>1. FilesShape' /\ JobsTyped'
            BY <2>0, <2>1, MovesKeepJobs DEF FilesFit, WriterStates
        <3> QED BY <2>1, <3>1 DEF FilesFit, SpansTyped, FieldsOK
    <2>2. CASE spans' = spans \cup {Files!Field(job[w], TRUE)} /\ Files!Done(w)
        <3>1. SpansTyped' /\ FieldsOK'
            BY <2>0, <2>2, FieldWithPointer DEF FilesFit, SpansTyped, FieldsOK
        <3> QED BY <2>2, <3>1, DoneJobs DEF FilesFit
    <2>3. CASE UNCHANGED spans /\ Files!Done(w)
        BY <2>3, DoneJobs DEF FilesFit, SpansTyped, FieldsOK
    <2> QED BY <1>2, <2>1, <2>2, <2>3 DEF Files!put
<1>3. ASSUME NEW w \in Writers, Files!Open(w) PROVE FilesFit'
    <2>1. /\ writing' = [writing EXCEPT ![w] = "write"] /\ UNCHANGED <<job, spans>>
          /\ job[w] \in Values
        BY <1>3 DEF Files!Open, FilesFit, JobsTyped
    <2>2. FilesShape' /\ JobsTyped'
        BY <2>1, MovesKeepJobs DEF FilesFit, WriterStates
    <2> QED BY <2>1, <2>2 DEF FilesFit, SpansTyped, FieldsOK
<1>4. ASSUME NEW w \in Writers, Files!write_bytes(w) PROVE FilesFit'
    <2>1. spans' = spans \cup {Files!Field(job[w], TRUE)} /\ Files!Done(w) /\ job[w] \in Values
        BY <1>4 DEF Files!write_bytes, FilesFit, JobsTyped
    <2>2. SpansTyped' /\ FieldsOK'
        BY <2>1, FieldWithPointer DEF FilesFit, SpansTyped, FieldsOK
    <2> QED BY <2>1, <2>2, DoneJobs DEF FilesFit
<1>5. ASSUME NEW w \in Writers, Files!Die(w) PROVE FilesFit'
    BY <1>5, DoneJobs DEF Files!Die, FilesFit, SpansTyped, FieldsOK
<1>6. ASSUME NEW s \in spans, Files!replay_span(s) PROVE FilesFit'
    BY <1>6 DEF Files!replay_span, FilesFit, FilesShape, SpansTyped, JobsTyped, FieldsOK
<1>7. CASE UNCHANGED Files!vars
    BY <1>7 DEF Files!vars, FilesFit, FilesShape, SpansTyped, JobsTyped, FieldsOK
<1> QED BY <1>1, <1>2, <1>3, <1>4, <1>5, <1>6, <1>7 DEF Files!Next

(* A clip is behind a pointer: the router leaves no clip inline              *)
(* (AgentTraceHandle.route_audio).                                           *)
THEOREM ClipsAlwaysHavePointers == Files!Spec => []Files!ClipsHavePointers
<1>1. FilesFit => Files!ClipsHavePointers
    BY DEF FilesFit, FieldsOK, FieldOK, Files!ClipsHavePointers, Files!Offloads
<1> QED BY <1>1, FilesInit, FilesNext, PTL DEF Files!Spec

(* Whoever writes or dies meanwhile, a reader gets the whole payload or an   *)
(* error, unless the payload is too small for a pointer and its text too     *)
(* long for a span: get compares hashes, and the pointer wins over the       *)
(* preview (span_replay._resolve, route_payload).                            *)
THEOREM NoReadIsEverCut == Files!Spec => []Files!NoReadIsCut
<1>1. Files!Init => Files!NoReadIsCut
    BY DEF Files!Init, Files!NoReadIsCut
<1>2. ASSUME FilesFit, Files!NoReadIsCut, [Files!Next]_Files!vars PROVE Files!NoReadIsCut'
    <2>1. ASSUME NEW s \in spans, Files!replay_span(s) PROVE Files!NoReadIsCut'
        <3>1. CASE s.pointer
            BY <2>1, <3>1 DEF Files!replay_span, Files!resolve, Files!get, Files!NoReadIsCut
        <3>2. CASE ~s.pointer
            <4>1. ~Files!Offloads(s.value) /\ s.inline = Files!Preview(s.value)
                BY <1>2, <3>2 DEF FilesFit, FieldsOK, FieldOK
            <4>2. s.inline = "cut" => Files!LostInBetween(s.value)
                BY <4>1 DEF Files!Preview, Files!LostInBetween
            <4>3. answer' = [value |-> s.value, got |-> s.inline]
                BY <2>1, <3>2 DEF Files!replay_span, Files!resolve
            <4> QED BY <4>2, <4>3 DEF Files!NoReadIsCut
        <3> QED BY <3>1, <3>2
    <2>2. ASSUME UNCHANGED answer PROVE Files!NoReadIsCut'
        BY <1>2, <2>2 DEF Files!NoReadIsCut
    <2> QED BY <1>2, <2>1, <2>2
        DEF Files!Next, Files!route_payload, Files!put, Files!Open, Files!write_bytes, Files!Die, Files!vars
<1> QED BY <1>1, <1>2, FilesInit, FilesNext, PTL DEF Files!Spec

(* With one writer: what it is about to write is not there yet, and what a   *)
(* pointer was given for is.                                                 *)
OneWriter == \A v, w \in Writers : v = w

FilesGood ==
    /\ file \in [Values -> {"absent", "torn", "whole"}]
    /\ \A s \in spans : s.pointer => file[s.value] = "whole"
    /\ \A w \in Writers : writing[w] \in {"open", "write"} => file[job[w]] # "whole"

(* ... and, when it does not die, no file stays half-written.                *)
NoneTorn ==
    /\ raised = {}
    /\ \A v \in Values : file[v] = "torn" => \E w \in Writers : writing[w] = "write" /\ job[w] = v

LEMMA GoodInit == Files!Init => FilesGood /\ NoneTorn
BY DEF Files!Init, FilesGood, NoneTorn

LEMMA GoodNext ==
    ASSUME OneWriter, FilesFit, FilesGood, [Files!Next]_Files!vars
    PROVE  FilesGood' /\ (~WritersDie /\ NoneTorn => NoneTorn')
<1>0. /\ job \in [Writers -> Values \cup {None}] /\ writing \in [Writers -> WriterStates]
      /\ \A w \in Writers : writing[w] # "idle" => job[w] \in Values
      /\ \A s \in spans : s.value \in Values
  BY DEF FilesFit, FilesShape, JobsTyped, SpansTyped
<1>1. ASSUME NEW w \in Writers, NEW v \in Values, Files!route_payload(w, v)
      PROVE  FilesGood' /\ (NoneTorn => NoneTorn')
  <2>1. CASE Files!Offloads(v)
    <3>1. /\ writing' = [writing EXCEPT ![w] = "put"] /\ job' = [job EXCEPT ![w] = v] /\ writing[w] = "idle"
          /\ UNCHANGED <<file, spans, raised>>
      BY <1>1, <2>1 DEF Files!route_payload
    <3>. QED  BY <1>0, <3>1 DEF FilesGood, NoneTorn
  <2>2. CASE ~Files!Offloads(v)
    <3>1. spans' = spans \cup {Files!Field(v, FALSE)} /\ UNCHANGED <<writing, job, file, raised>>
      BY <1>1, <2>2 DEF Files!route_payload
    <3>2. ~Files!Field(v, FALSE).pointer
      BY DEF Files!Field
    <3>. QED  BY <3>1, <3>2 DEF FilesGood, NoneTorn
  <2>. QED  BY <2>1, <2>2
<1>2. ASSUME NEW w \in Writers, Files!put(w) PROVE FilesGood' /\ (NoneTorn => NoneTorn')
  <2>0. writing[w] = "put" /\ job[w] \in Values /\ file' = file
    BY <1>0, <1>2 DEF Files!put
  <2>1. CASE file[job[w]] = "absent" /\ writing' = [writing EXCEPT ![w] = "open"] /\ UNCHANGED <<job, spans, raised>>
    BY <1>0, <2>0, <2>1 DEF FilesGood, NoneTorn
  <2>2. CASE file[job[w]] = "whole" /\ spans' = spans \cup {Files!Field(job[w], TRUE)} /\ Files!Done(w) /\ UNCHANGED raised
    <3>1. Files!Field(job[w], TRUE).value = job[w]
      BY DEF Files!Field
    <3>2. writing' = [writing EXCEPT ![w] = "idle"] /\ job' = [job EXCEPT ![w] = None]
      BY <2>2 DEF Files!Done
    <3>. QED  BY <1>0, <2>0, <2>2, <3>1, <3>2 DEF FilesGood, NoneTorn
  <2>3. CASE file[job[w]] = "torn" /\ Files!Done(w) /\ UNCHANGED spans
    <3>1. writing' = [writing EXCEPT ![w] = "idle"] /\ job' = [job EXCEPT ![w] = None]
      BY <2>3 DEF Files!Done
    <3>2. ~NoneTorn
      BY <2>0, <2>3 DEF NoneTorn, OneWriter
    <3>. QED  BY <1>0, <2>0, <2>3, <3>1, <3>2 DEF FilesGood
  <2>. QED  BY <1>2, <2>1, <2>2, <2>3 DEF Files!put
<1>3. ASSUME NEW w \in Writers, Files!Open(w) PROVE FilesGood' /\ (NoneTorn => NoneTorn')
  <2>1. /\ writing[w] = "open" /\ job[w] \in Values
        /\ file' = [file EXCEPT ![job[w]] = "torn"] /\ writing' = [writing EXCEPT ![w] = "write"]
        /\ UNCHANGED <<job, spans, raised>>
    BY <1>0, <1>3 DEF Files!Open
  <2>2. file[job[w]] # "whole"
    BY <2>1 DEF FilesGood
  <2>3. \A s \in spans' : s.pointer => file'[s.value] = "whole"
    BY <1>0, <2>1, <2>2 DEF FilesGood
  <2>4. FilesGood'
    BY <1>0, <2>1, <2>3 DEF FilesGood, OneWriter
  <2>5. NoneTorn => NoneTorn'
    BY <1>0, <2>1 DEF NoneTorn, FilesGood, OneWriter
  <2>. QED  BY <2>4, <2>5
<1>4. ASSUME NEW w \in Writers, Files!write_bytes(w) PROVE FilesGood' /\ (NoneTorn => NoneTorn')
  <2>1. /\ writing[w] = "write" /\ job[w] \in Values
        /\ file' = [file EXCEPT ![job[w]] = "whole"] /\ writing' = [writing EXCEPT ![w] = "idle"]
        /\ job' = [job EXCEPT ![w] = None]
        /\ spans' = spans \cup {Files!Field(job[w], TRUE)} /\ UNCHANGED raised
    BY <1>0, <1>4 DEF Files!write_bytes, Files!Done
  <2>2. Files!Field(job[w], TRUE).value = job[w]
    BY DEF Files!Field
  <2>3. \A s \in spans' : s.pointer => file'[s.value] = "whole"
    BY <1>0, <2>1, <2>2 DEF FilesGood
  <2>4. \A x \in Writers : writing'[x] = "idle"
    BY <1>0, <2>1 DEF OneWriter
  <2>5. NoneTorn => NoneTorn'
    BY <1>0, <2>1 DEF NoneTorn, FilesGood, OneWriter
  <2>. QED  BY <2>1, <2>3, <2>4, <2>5 DEF FilesGood
<1>5. ASSUME NEW w \in Writers, Files!Die(w) PROVE FilesGood' /\ WritersDie
  <2>1. /\ writing' = [writing EXCEPT ![w] = "idle"] /\ job' = [job EXCEPT ![w] = None] /\ WritersDie
        /\ UNCHANGED <<file, spans>>
    BY <1>5 DEF Files!Die, Files!Done
  <2>. QED  BY <1>0, <2>1 DEF FilesGood
<1>6. ASSUME NEW s \in spans, Files!replay_span(s) PROVE FilesGood' /\ (NoneTorn => NoneTorn')
  BY <1>6 DEF Files!replay_span, FilesGood, NoneTorn
<1>7. CASE UNCHANGED Files!vars
  BY <1>7 DEF Files!vars, FilesGood, NoneTorn
<1>. QED  BY <1>1, <1>2, <1>3, <1>4, <1>5, <1>6, <1>7 DEF Files!Next

(* One writer, if it may die: what is recorded can be read, but for what is  *)
(* too small for a pointer and too long for a span (FilesystemPayloadStore.put *)
(* writes a file only where there was none).                                 *)
THEOREM RecordedStaysReadable ==
    ASSUME OneWriter PROVE Files!Spec => []Files!RecordedIsReadable
<1>1. FilesFit /\ FilesGood => Files!RecordedIsReadable
  <2>. SUFFICES ASSUME FilesFit, FilesGood, NEW s \in spans, ~Files!LostInBetween(s.value)
                PROVE  Files!resolve(s) = "whole"
    BY DEF Files!RecordedIsReadable
  <2>1. CASE s.pointer
    BY <2>1 DEF FilesGood, Files!resolve, Files!get
  <2>2. CASE ~s.pointer
    <3>1. ~Files!Offloads(s.value) /\ s.inline = Files!Preview(s.value)
      BY <2>2 DEF FilesFit, FieldsOK, FieldOK
    <3>2. Files!FitsInline(s.value)
      BY <3>1 DEF Files!LostInBetween
    <3>3. s.inline = "whole"
      BY <3>1, <3>2 DEF Files!Preview
    <3>. QED  BY <2>2, <3>3 DEF Files!resolve
  <2>. QED  BY <2>1, <2>2
<1>2. Files!Init => FilesFit /\ FilesGood
  BY FilesInit, GoodInit
<1>3. FilesFit /\ FilesGood /\ [Files!Next]_Files!vars => (FilesFit /\ FilesGood)'
  BY FilesNext, GoodNext
<1>. QED  BY <1>1, <1>2, <1>3, PTL DEF Files!Spec

(* ... and one that does not die is never told that equal bytes collide:     *)
(* writing them again gives the same pointer (FilesystemPayloadStore.put).   *)
THEOREM EqualBytesEqualPointers ==
    ASSUME OneWriter, ~WritersDie PROVE Files!Spec => []Files!SameBytesSamePointer
<1>1. Files!Init => FilesFit /\ FilesGood /\ NoneTorn
  BY FilesInit, GoodInit
<1>2. FilesFit /\ FilesGood /\ NoneTorn /\ [Files!Next]_Files!vars => (FilesFit /\ FilesGood /\ NoneTorn)'
  BY FilesNext, GoodNext
<1>3. NoneTorn => Files!SameBytesSamePointer
  BY DEF NoneTorn, Files!SameBytesSamePointer
<1>. QED  BY <1>1, <1>2, <1>3, PTL DEF Files!Spec

=============================================================================
