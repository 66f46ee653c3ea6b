------------------------------ MODULE Throttle ------------------------------
(***************************************************************************)
(* The resilience layers around an adapter: a token bucket outside         *)
(* (in-process, or in Redis and shared by the workers), the retry with     *)
(* backoff inside, the physical request innermost.  Time is counted in     *)
(* ticks and tokens in ticks of refill, so that a request costs Period and *)
(* the bucket's lazy refill is exact; ages stop growing once the bucket    *)
(* they stand for would be full, which keeps the instance finite without   *)
(* ending time.                                                            *)
(***************************************************************************)
EXTENDS Integers, FiniteSets

CONSTANTS
    Calls,         \* invocations of the adapter
    Workers,       \* processes
    Home,          \* Calls -> Workers
    Shared,        \* the bucket is the one in Redis
    Period,        \* ticks per token: 60 / requests_per_minute
    Burst,         \* tokens the bucket holds
    Ttl,           \* ticks until an unused Redis key expires
    MaxRetries, BaseDelay, MaxDelay,   \* RetryPolicy; multiplier 2, jitter 1/2
    RetryAfter,    \* what a provider may ask for, in ticks; 0 for nothing
    MaxOutages     \* bound: times Redis goes away

Capacity == Burst * Period

\* Keys live for an hour: long enough for the bucket of a run to fill up.
ASSUME ThrottleAssumption ==
    /\ Home \in [Calls -> Workers] /\ Shared \in BOOLEAN
    /\ Period \in Nat \ {0} /\ Burst \in Nat \ {0}
    /\ Ttl \in Nat /\ Ttl >= Capacity
    /\ MaxRetries \in Nat /\ BaseDelay \in Nat \ {0} /\ MaxDelay \in Nat \ {0}
    /\ RetryAfter \subseteq Nat /\ MaxOutages \in Nat

VARIABLES
    bucket,        \* of each key: tokens and the age of that reading
    call,          \* of each call: pc, ticks left to sleep, attempt, waited
    granted,       \* reference: what an eager bucket would hold, by acquisitions
    sent,          \* the same, by physical requests
    redis          \* up, and the outages so far

vars == <<bucket, call, granted, sent, redis>>

Keys == IF Shared THEN {"redis"} ELSE Workers

\* _rate_limit_key: one bucket for a workspace and provider, or one per process.
Key(c) == IF Shared THEN "redis" ELSE Home[c]

Lesser(a, b) == IF a < b THEN a ELSE b
Greater(a, b) == IF a < b THEN b ELSE a

Goto(c, pc) == call' = [call EXCEPT ![c].pc = pc]

\* Lazy refill against the clock; a key that has expired starts full.
Refilled(k) ==
    IF Shared /\ bucket[k].age >= Ttl THEN Capacity
    ELSE Lesser(Capacity, bucket[k].tokens + bucket[k].age)

Arrive(c) ==
    /\ call[c].pc = "new"
    /\ Goto(c, "acquire")
    /\ UNCHANGED <<bucket, granted, sent, redis>>

Grant(c) ==
    /\ Goto(c, "request")
    /\ granted' = [granted EXCEPT ![Key(c)] = @ - Period]

\* Slip: a miss stores the refilled tokens and not the time of the reading.
AcquireStale(c) ==
    /\ call[c].pc = "acquire"
    /\ LET k == Key(c)  t == Refilled(k) IN
       IF t >= Period
       THEN /\ bucket' = [bucket EXCEPT ![k] = [tokens |-> t - Period, age |-> 0]]
            /\ Grant(c)
       ELSE /\ bucket' = [bucket EXCEPT ![k].tokens = t]
            /\ call' = [call EXCEPT ![c].pc = "sleep", ![c].left = Period - t]
            /\ UNCHANGED granted
    /\ UNCHANGED <<sent, redis>>

\* Slip: a miss consumes as well, down to an empty bucket.
AcquireGreedy(c) ==
    /\ call[c].pc = "acquire"
    /\ LET k == Key(c)  t == Refilled(k) IN
       IF t >= Period
       THEN /\ bucket' = [bucket EXCEPT ![k] = [tokens |-> t - Period, age |-> 0]]
            /\ Grant(c)
       ELSE /\ bucket' = [bucket EXCEPT ![k] = [tokens |-> 0, age |-> 0]]
            /\ call' = [call EXCEPT ![c].pc = "sleep", ![c].left = 1]
            /\ UNCHANGED granted
    /\ UNCHANGED <<sent, redis>>

\* The critical section of acquire (a lock, or one Lua script): take a token, or
\* compute the wait and sleep it outside.
Acquire(c) ==
    /\ call[c].pc = "acquire"
    /\ Shared => redis.up
    /\ LET k == Key(c)  t == Refilled(k) IN
       IF t >= Period
       THEN /\ bucket' = [bucket EXCEPT ![k] = [tokens |-> t - Period, age |-> 0]]
            /\ Grant(c)
       ELSE /\ bucket' = [bucket EXCEPT ![k] = [tokens |-> t, age |-> 0]]
            /\ call' = [call EXCEPT ![c].pc = "sleep", ![c].left = Period - t]
            /\ UNCHANGED granted
    /\ UNCHANGED <<sent, redis>>

\* Redis does not answer: the limiter fails open.
FailOpen(c) ==
    /\ call[c].pc = "acquire"
    /\ Shared /\ ~redis.up
    /\ Goto(c, "request")
    /\ UNCHANGED <<bucket, granted, sent, redis>>

\* The loop of acquire looks again: a second waiter may have been faster.
Wake(c) ==
    /\ call[c].pc = "sleep" /\ call[c].left = 0
    /\ Goto(c, "acquire")
    /\ UNCHANGED <<bucket, granted, sent, redis>>

\* Slip: the provider's wish is taken as it is.
DelaysAsAsked(attempt, asked) ==
    LET expo == Lesser(MaxDelay, BaseDelay * 2 ^ attempt) IN
    {Greater(d, asked) : d \in ((expo + 1) \div 2)..expo}

\* _compute_delay: exponential with jitter, at least what the provider asked
\* for, at most MaxDelay.
Delays(attempt, asked) ==
    LET expo == Lesser(MaxDelay, BaseDelay * 2 ^ attempt) IN
    {Lesser(MaxDelay, Greater(d, asked)) : d \in ((expo + 1) \div 2)..expo}

\* One physical request.  429, 5xx, time-outs and connection errors are
\* transient; a transient failure with retries left backs off.
Request(c) ==
    /\ call[c].pc = "request"
    /\ sent' = [sent EXCEPT ![Key(c)] = @ - Period]
    /\ \/ Goto(c, "done")
       \/ Goto(c, "failed")
       \/ /\ call[c].attempt < MaxRetries
          /\ \E asked \in RetryAfter : \E d \in Delays(call[c].attempt, asked) :
                call' = [call EXCEPT ![c] =
                    [pc |-> "backoff", left |-> d, attempt |-> @.attempt + 1,
                     waited |-> @.waited + d]]
    /\ UNCHANGED <<bucket, granted, redis>>

\* RetryingAdapter's loop: the next attempt goes straight to the inner adapter.
TryAgain(c) ==
    /\ call[c].pc = "backoff" /\ call[c].left = 0
    /\ Goto(c, "request")
    /\ UNCHANGED <<bucket, granted, sent, redis>>

Tick ==
    /\ bucket' = [k \in Keys |-> [bucket[k] EXCEPT !.age = Lesser(Ttl, @ + 1)]]
    /\ call' = [c \in Calls |-> [call[c] EXCEPT !.left = Greater(0, @ - 1)]]
    /\ granted' = [k \in Keys |-> Lesser(Capacity, granted[k] + 1)]
    /\ sent' = [k \in Keys |-> Lesser(Capacity, sent[k] + 1)]
    /\ UNCHANGED redis

Outage ==
    /\ Shared
    /\ redis.up => redis.outages < MaxOutages
    /\ redis' = [up |-> ~redis.up, outages |-> redis.outages + IF redis.up THEN 1 ELSE 0]
    /\ UNCHANGED <<bucket, call, granted, sent>>

Init ==
    /\ bucket = [k \in Keys |-> [tokens |-> Capacity, age |-> 0]]
    /\ call = [c \in Calls |-> [pc |-> "new", left |-> 0, attempt |-> 0, waited |-> 0]]
    /\ granted = [k \in Keys |-> Capacity]
    /\ sent = [k \in Keys |-> Capacity]
    /\ redis = [up |-> TRUE, outages |-> 0]

Advance(c) == Arrive(c) \/ Acquire(c) \/ FailOpen(c) \/ Wake(c) \/ Request(c) \/ TryAgain(c)

Next == (\E c \in Calls : Advance(c)) \/ Tick \/ Outage

\* Time passes and every task of the event loop runs on.
Spec == Init /\ [][Next]_vars /\ WF_vars(Tick) /\ \A c \in Calls : WF_vars(Advance(c))

\* However the waiters of all workers interleave, at most Burst acquisitions plus
\* one per Period are made in any interval: an eager bucket is never overdrawn.
GrantsConform == \A k \in Keys : granted[k] >= 0

\* "every physical request - first try or retry - passes the bucket"
\* (_wrap_resilience): the physical requests keep to the rate as well.
\* The code does not keep it: the retries are inside the limiter and take no token.
RequestsConform == redis.outages = 0 => \A k \in Keys : sent[k] >= 0

\* The waits of a call add up to no more than max_retries * max_delay, the bound
\* that has to stay below a worker's lease (retry.py).
BackoffWithinLease == \A c \in Calls : call[c].waited <= MaxRetries * MaxDelay

\* Nobody sleeps for ever on tokens that others take, with or without Redis.
EveryCallEnds == \A c \in Calls : <>(call[c].pc \in {"done", "failed"})
=============================================================================
