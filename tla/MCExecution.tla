---------------------------- MODULE MCExecution -----------------------------
(***************************************************************************)
(* How cases are run: calls through the rate limiter, repetitions of a     *)
(* case, conversations, the trace of a repetition.  A behaviour exercises  *)
(* the component named by `part`; "fleet" is Throttle itself with its      *)
(* bucket in Redis.  The variables of the others are the first of s1, s2,  *)
(* ...; the rest is Off.                                                   *)
(*                                                                         *)
(* What is proved of Throttle comes first.  The other components are taken *)
(* through the module in which their invariants are proved: the theorems   *)
(* at the end, about the suite, use those lemmas for the constants that    *)
(* the suite gives.                                                        *)
(***************************************************************************)
EXTENDS Throttle, Sequences, TLC, FiniteSetTheorems, TLAPS

-----------------------------------------------------------------------------
(* For any number of workers and calls, any rate, burst and retry policy:    *)
(* the lazily refilled bucket grants what an eagerly refilled one would, and *)
(* a call's waits stay within the bound the lease of a worker is chosen by.  *)

BucketType == bucket \in [Keys -> [tokens : 0..Capacity, age : 0..Ttl]]

GrantedType == granted \in [Keys -> Int]

(* The lazy bucket, read at any moment, is the eager one.  It is what makes  *)
(* GrantsConform inductive: a grant needs Period tokens of the lazy bucket   *)
(* and takes them from the eager one.                                        *)
LazyIsEager == \A k \in Keys : granted[k] = Refilled(k)

BucketInv == BucketType /\ GrantedType /\ LazyIsEager

LEMMA CapacityIsPositive == Capacity \in Nat \ {0}
<1>1. \A m, n \in Nat \ {0} : m * n \in Nat \ {0}
    OBVIOUS
<1> QED BY <1>1, ThrottleAssumption DEF Capacity

LEMMA RefilledType ==
    ASSUME BucketType, NEW k \in Keys
    PROVE  Refilled(k) \in 0..Capacity
<1>1. bucket[k].tokens \in 0..Capacity /\ bucket[k].age \in 0..Ttl
    BY DEF BucketType
<1> QED BY <1>1, CapacityIsPositive, ThrottleAssumption DEF Refilled, Lesser

LEMMA KeyIsKey == \A c \in Calls : Key(c) \in Keys
BY ThrottleAssumption DEF Key, Keys

(* A reading of the bucket that has just been stored is what was stored.     *)
LEMMA FreshReading ==
    ASSUME NEW k \in Keys, NEW t \in 0..Capacity,
           bucket'[k] = [tokens |-> t, age |-> 0]
    PROVE  Refilled(k)' = t
BY CapacityIsPositive, ThrottleAssumption DEF Refilled, Lesser

(* Storing the reading of a key moves that key only.                         *)
LEMMA StoreReading ==
    ASSUME BucketType, NEW k \in Keys, NEW t \in 0..Capacity,
           bucket' = [bucket EXCEPT ![k] = [tokens |-> t, age |-> 0]]
    PROVE  /\ BucketType'
           /\ Refilled(k)' = t
           /\ \A j \in Keys \ {k} : Refilled(j)' = Refilled(j)
<1>1. bucket'[k] = [tokens |-> t, age |-> 0]
    BY DEF BucketType
<1>2. \A j \in Keys \ {k} : bucket'[j] = bucket[j]
    BY DEF BucketType
<1>3. BucketType'
    BY ThrottleAssumption DEF BucketType, Keys
<1>4. \A j \in Keys \ {k} : Refilled(j)' = Refilled(j)
    BY <1>2 DEF Refilled
<1> QED BY <1>1, <1>3, <1>4, FreshReading

LEMMA InitBucket == Init => BucketInv
<1> SUFFICES ASSUME Init PROVE BucketInv
    OBVIOUS
<1>1. \A k \in Keys : bucket[k] = [tokens |-> Capacity, age |-> 0]
    BY DEF Init
<1>2. BucketType
    BY CapacityIsPositive, ThrottleAssumption DEF Init, BucketType
<1>3. \A k \in Keys : Refilled(k) = Capacity
    BY <1>1, CapacityIsPositive, ThrottleAssumption DEF Refilled, Lesser
<1>4. GrantedType /\ \A k \in Keys : granted[k] = Capacity
    BY CapacityIsPositive DEF Init, GrantedType
<1> QED BY <1>2, <1>3, <1>4 DEF BucketInv, LazyIsEager

(* One tick: both buckets gain a token, or both are full.  A key that has    *)
(* expired is full because keys live at least as long as a refill takes.     *)
LEMMA TickBucket == BucketInv /\ Tick => BucketInv'
<1> SUFFICES ASSUME BucketInv, Tick PROVE BucketInv'
    OBVIOUS
<1>1. ASSUME NEW k \in Keys
      PROVE  /\ bucket'[k] \in [tokens : 0..Capacity, age : 0..Ttl]
             /\ granted'[k] = Refilled(k)'
             /\ granted'[k] \in Int
    <2> DEFINE tok == bucket[k].tokens
               age == bucket[k].age
    <2>1. /\ bucket[k] \in [tokens : 0..Capacity, age : 0..Ttl]
          /\ tok \in 0..Capacity /\ age \in 0..Ttl
        BY DEF BucketInv, BucketType
    <2>2. bucket'[k] = [tokens |-> tok, age |-> Lesser(Ttl, age + 1)]
        BY <2>1 DEF Tick
    <2>3. bucket'[k].tokens = tok /\ bucket'[k].age = Lesser(Ttl, age + 1)
        BY <2>2
    <2>4. Lesser(Ttl, age + 1) \in 0..Ttl
        BY <2>1, ThrottleAssumption DEF Lesser
    <2>5. granted'[k] = Lesser(Capacity, Refilled(k) + 1)
        BY DEF Tick, BucketInv, LazyIsEager
    <2>6. Refilled(k)' = Lesser(Capacity, Refilled(k) + 1)
        <3> HIDE DEF tok, age
        <3>1. Refilled(k) = IF Shared /\ age >= Ttl THEN Capacity
                            ELSE Lesser(Capacity, tok + age)
            BY DEF Refilled, tok, age
        <3>2. Refilled(k)' = IF Shared /\ Lesser(Ttl, age + 1) >= Ttl THEN Capacity
                             ELSE Lesser(Capacity, tok + Lesser(Ttl, age + 1))
            BY <2>3 DEF Refilled
        <3>3. Capacity \in Nat /\ Ttl \in Nat /\ Ttl >= Capacity
            BY CapacityIsPositive, ThrottleAssumption
        <3>4. CASE Shared
            BY <2>1, <3>1, <3>2, <3>3, <3>4 DEF Lesser
        <3>5. CASE ~Shared
            BY <2>1, <3>1, <3>2, <3>3, <3>5 DEF Lesser
        <3> QED BY <3>4, <3>5
    <2>7. Refilled(k) \in 0..Capacity
        BY RefilledType DEF BucketInv
    <2> QED BY <2>1, <2>2, <2>4, <2>5, <2>6, <2>7, CapacityIsPositive DEF Lesser
<1>2. DOMAIN bucket' = Keys /\ bucket' = [k \in Keys |-> bucket'[k]]
    BY DEF Tick
<1>3. granted' = [k \in Keys |-> granted'[k]]
    BY DEF Tick
<1>4. BucketType'
    BY <1>1, <1>2 DEF BucketType, Keys
<1>5. GrantedType'
    BY <1>1, <1>3 DEF GrantedType, Keys
<1> QED BY <1>1, <1>4, <1>5 DEF BucketInv, LazyIsEager, Keys

LEMMA AcquireBucket ==
    ASSUME NEW c \in Calls, BucketInv, Acquire(c)
    PROVE  BucketInv'
<1> DEFINE k == Key(c)
           t == Refilled(k)
<1>1. k \in Keys
    BY KeyIsKey
<1>2. t \in 0..Capacity
    BY <1>1, RefilledType DEF BucketInv
<1>3. CASE t >= Period
    <2>1. /\ bucket' = [bucket EXCEPT ![k] = [tokens |-> t - Period, age |-> 0]]
          /\ granted' = [granted EXCEPT ![k] = @ - Period]
        BY <1>3 DEF Acquire, Grant
    <2>2. t - Period \in 0..Capacity
        BY <1>2, <1>3, CapacityIsPositive, ThrottleAssumption
    <2>3. /\ BucketType' /\ Refilled(k)' = t - Period
          /\ \A j \in Keys \ {k} : Refilled(j)' = Refilled(j)
        BY <1>1, <2>1, <2>2, StoreReading DEF BucketInv
    <2>4. GrantedType' /\ granted'[k] = t - Period
        <3>1. granted[k] = t /\ granted \in [Keys -> Int]
            BY <1>1 DEF BucketInv, GrantedType, LazyIsEager
        <3>2. Period \in Int /\ t \in Int
            BY <1>2, ThrottleAssumption
        <3> HIDE DEF k, t
        <3> QED BY <1>1, <2>1, <3>1, <3>2 DEF GrantedType, Keys
    <2>5. \A j \in Keys \ {k} : granted'[j] = granted[j]
        BY <2>1 DEF BucketInv, GrantedType
    <2> QED BY <2>3, <2>4, <2>5 DEF BucketInv, LazyIsEager, Keys
<1>4. CASE ~(t >= Period)
    <2>1. /\ bucket' = [bucket EXCEPT ![k] = [tokens |-> t, age |-> 0]]
          /\ UNCHANGED granted
        BY <1>4 DEF Acquire
    <2>3. /\ BucketType' /\ Refilled(k)' = t
          /\ \A j \in Keys \ {k} : Refilled(j)' = Refilled(j)
        BY <1>1, <1>2, <2>1, StoreReading DEF BucketInv
    <2> QED BY <2>1, <2>3 DEF BucketInv, LazyIsEager, GrantedType, Keys
<1> QED BY <1>3, <1>4

LEMMA StepBucket == BucketInv /\ [Next]_vars => BucketInv'
<1> SUFFICES ASSUME BucketInv, [Next]_vars PROVE BucketInv'
    OBVIOUS
<1>1. ASSUME UNCHANGED <<bucket, granted>> PROVE BucketInv'
    BY <1>1 DEF BucketInv, BucketType, GrantedType, LazyIsEager, Refilled
<1>2. ASSUME NEW c \in Calls, Advance(c) PROVE BucketInv'
    BY <1>1, <1>2, AcquireBucket DEF Advance, Arrive, FailOpen, Wake, Request, TryAgain
<1> QED BY <1>1, <1>2, TickBucket DEF Next, Outage, vars

(* However many waiters of however many workers interleave, the bucket       *)
(* (_AsyncTokenBucket.acquire, or the Lua script of redis_rate_limit.py)     *)
(* grants at most Burst acquisitions and one per Period in any interval: the *)
(* eagerly refilled bucket that counts the grants is never overdrawn.        *)
THEOREM RateIsKept == Spec => []GrantsConform
<1>1. BucketInv => GrantsConform
    BY RefilledType DEF BucketInv, LazyIsEager, GrantsConform
<1> QED BY <1>1, InitBucket, StepBucket, PTL DEF Spec

-----------------------------------------------------------------------------
(* The retries of a call.                                                    *)

Pcs == {"new", "acquire", "sleep", "request", "backoff", "done", "failed"}

CallType ==
    call \in [Calls -> [pc : Pcs, left : Int, attempt : 0..MaxRetries, waited : Nat]]

(* Every retry adds at most MaxDelay to what a call has waited.              *)
WaitedByAttempt == \A c \in Calls : call[c].waited <= call[c].attempt * MaxDelay

CallInv == CallType /\ WaitedByAttempt

LEMMA DelayIsBounded ==
    ASSUME NEW attempt \in Nat, NEW asked \in RetryAfter, NEW d \in Delays(attempt, asked)
    PROVE  d \in 0..MaxDelay
<1> DEFINE expo == Lesser(MaxDelay, BaseDelay * 2 ^ attempt)
<1>1. PICK e \in ((expo + 1) \div 2)..expo : d = Lesser(MaxDelay, Greater(e, asked))
    BY DEF Delays
<1>2. e \in Int /\ asked \in Nat /\ MaxDelay \in Nat
    BY <1>1, ThrottleAssumption
<1> HIDE DEF expo
<1> QED BY <1>1, <1>2 DEF Lesser, Greater

LEMMA OneMoreDelay ==
    \A a, n, d, w \in Nat : d <= n /\ w <= a * n => w + d <= (a + 1) * n
OBVIOUS

LEMMA MoreAttempts == \A a, b, n \in Nat : a <= b => a * n <= b * n
OBVIOUS

LEMMA InitCall == Init => CallInv
<1> SUFFICES ASSUME Init PROVE CallInv
    OBVIOUS
<1>1. CallType
    BY ThrottleAssumption DEF Init, CallType, Pcs
<1>2. \A c \in Calls : call[c].attempt = 0 /\ call[c].waited = 0
    BY DEF Init
<1>3. 0 <= 0 * MaxDelay
    BY ThrottleAssumption
<1> QED BY <1>1, <1>2, <1>3 DEF CallInv, WaitedByAttempt

(* What a step that leaves attempt and waited alone may do to a call.        *)
LEMMA OtherFields ==
    ASSUME CallInv, CallType',
           \A c \in Calls : /\ call'[c].attempt = call[c].attempt
                            /\ call'[c].waited = call[c].waited
    PROVE  CallInv'
BY DEF CallInv, WaitedByAttempt

LEMMA GotoKeepsWaits ==
    ASSUME NEW c \in Calls, NEW pc \in Pcs, CallInv, Goto(c, pc)
    PROVE  CallInv'
<1>1. call' = [call EXCEPT ![c].pc = pc]
    BY DEF Goto
<1>2. CallType'
    BY <1>1 DEF CallInv, CallType
<1> QED BY <1>1, <1>2, OtherFields DEF CallInv, CallType

LEMMA BackoffKeepsBound ==
    ASSUME NEW c \in Calls, CallInv, call[c].attempt < MaxRetries,
           NEW d \in 0..MaxDelay,
           call' = [call EXCEPT ![c] = [pc |-> "backoff", left |-> d,
                                        attempt |-> @.attempt + 1, waited |-> @.waited + d]]
    PROVE  CallInv'
<1>1. call[c].attempt \in 0..MaxRetries /\ call[c].waited \in Nat /\ MaxDelay \in Nat
    BY ThrottleAssumption DEF CallInv, CallType
<1>2. /\ call[c].attempt + 1 \in 0..MaxRetries
      /\ call[c].waited + d \in Nat /\ d \in Int
    BY <1>1, ThrottleAssumption
<1>3. CallType'
    BY <1>2 DEF CallInv, CallType, Pcs
<1>4. call'[c].attempt = call[c].attempt + 1 /\ call'[c].waited = call[c].waited + d
    BY DEF CallInv, CallType
<1>5. call[c].waited + d <= (call[c].attempt + 1) * MaxDelay
    <2>1. call[c].waited <= call[c].attempt * MaxDelay
        BY DEF CallInv, WaitedByAttempt
    <2>2. d <= MaxDelay /\ d \in Nat /\ call[c].attempt \in Nat
        BY <1>1
    <2> QED BY <1>1, <2>1, <2>2, OneMoreDelay
<1>6. \A x \in Calls \ {c} : call'[x] = call[x]
    BY DEF CallInv, CallType
<1> QED BY <1>3, <1>4, <1>5, <1>6 DEF CallInv, WaitedByAttempt

LEMMA StepCall == CallInv /\ BucketInv /\ [Next]_vars => CallInv'
<1> SUFFICES ASSUME CallInv, BucketInv, [Next]_vars PROVE CallInv'
    OBVIOUS
<1>1. ASSUME UNCHANGED call PROVE CallInv'
    BY <1>1 DEF CallInv, CallType, WaitedByAttempt
<1>2. ASSUME NEW c \in Calls, Arrive(c) \/ FailOpen(c) \/ Wake(c) \/ TryAgain(c)
      PROVE  CallInv'
    <2>1. PICK pc \in Pcs : Goto(c, pc)
        BY <1>2 DEF Arrive, FailOpen, Wake, TryAgain, Pcs
    <2> QED BY <2>1, GotoKeepsWaits
<1>3. ASSUME NEW c \in Calls, Acquire(c) PROVE CallInv'
    <2>1. CASE Goto(c, "request")
        <3>1. "request" \in Pcs
            BY DEF Pcs
        <3> QED BY <2>1, <3>1, GotoKeepsWaits
    <2>2. ASSUME NEW left, call' = [call EXCEPT ![c].pc = "sleep", ![c].left = left],
                 left \in Int
          PROVE  CallInv'
        <3>1. CallType'
            BY <2>2, ZenonT(30) DEF CallInv, CallType, Pcs
        <3> QED BY <2>2, <3>1, OtherFields DEF CallInv, CallType
    <2> DEFINE t == Refilled(Key(c))
    <2>3. Period - t \in Int
        <3>1. t \in 0..Capacity
            BY KeyIsKey, RefilledType DEF BucketInv
        <3> QED BY <3>1, CapacityIsPositive, ThrottleAssumption
    <2>4. CASE t >= Period
        BY <1>3, <2>1, <2>4 DEF Acquire, Grant
    <2>5. CASE ~(t >= Period)
        <3>1. call' = [call EXCEPT ![c].pc = "sleep", ![c].left = Period - t]
            BY <1>3, <2>5 DEF Acquire
        <3> HIDE DEF t
        <3> QED BY <2>2, <2>3, <3>1
    <2> QED BY <2>4, <2>5
<1>4. ASSUME NEW c \in Calls, Request(c) PROVE CallInv'
    <2>1. CASE Goto(c, "done") \/ Goto(c, "failed")
        <3>1. "done" \in Pcs /\ "failed" \in Pcs
            BY DEF Pcs
        <3> QED BY <2>1, <3>1, GotoKeepsWaits
    <2>2. CASE /\ call[c].attempt < MaxRetries
               /\ \E asked \in RetryAfter : \E d \in Delays(call[c].attempt, asked) :
                     call' = [call EXCEPT ![c] =
                         [pc |-> "backoff", left |-> d, attempt |-> @.attempt + 1,
                          waited |-> @.waited + d]]
        <3>1. call[c].attempt \in Nat
            BY DEF CallInv, CallType
        <3> QED BY <2>2, <3>1, DelayIsBounded, BackoffKeepsBound
    <2> QED BY <1>4, <2>1, <2>2 DEF Request
<1>5. ASSUME Tick PROVE CallInv'
    <2>1. call' = [c \in Calls |-> [call[c] EXCEPT !.left = Greater(0, @ - 1)]]
        BY <1>5 DEF Tick
    <2>2. CallType'
        BY <2>1 DEF CallInv, CallType, Greater
    <2> QED BY <2>1, <2>2, OtherFields DEF CallInv, CallType
<1> QED BY <1>1, <1>2, <1>3, <1>4, <1>5 DEF Next, Advance, Outage, vars

(* The waits of a call add up to at most max_retries * max_delay: the bound  *)
(* that retry.py asks the operator to keep below the worker's lease, whatever*)
(* the jitter and whatever the provider's Retry-After.                       *)
THEOREM BackoffIsBounded == Spec => []BackoffWithinLease
<1>1. CallInv => BackoffWithinLease
    <2> SUFFICES ASSUME CallInv, NEW c \in Calls
                 PROVE  call[c].waited <= MaxRetries * MaxDelay
        BY DEF BackoffWithinLease
    <2>1. /\ call[c].waited \in Nat /\ call[c].attempt \in Nat
          /\ call[c].attempt <= MaxRetries /\ MaxRetries \in Nat /\ MaxDelay \in Nat
        BY ThrottleAssumption DEF CallInv, CallType
    <2>2. call[c].attempt * MaxDelay <= MaxRetries * MaxDelay
        BY <2>1, MoreAttempts
    <2>3. call[c].waited <= call[c].attempt * MaxDelay
        BY DEF CallInv, WaitedByAttempt
    <2>4. \A a, b \in Nat : a * b \in Nat
        OBVIOUS
    <2>5. call[c].attempt * MaxDelay \in Nat /\ MaxRetries * MaxDelay \in Nat
        BY <2>1, <2>4
    <2> DEFINE x == call[c].attempt * MaxDelay
               y == MaxRetries * MaxDelay
    <2> HIDE DEF x, y
    <2> QED BY <2>1, <2>2, <2>3, <2>5 DEF x, y
<1> QED BY <1>1, InitCall, StepCall, InitBucket, StepBucket, PTL DEF Spec

-----------------------------------------------------------------------------
(* The suite.                                                                *)
CONSTANTS w1, w2, c1, c2, c3

TwoWorkers == {w1, w2}
ThreeCalls == {c1, c2, c3}
TwoAndOne == (c1 :> w1) @@ (c2 :> w1) @@ (c3 :> w2)

VARIABLES part, s1, s2, s3, s4, s5, s6, s7

suiteVars == <<part, vars, s1, s2, s3, s4, s5, s6, s7>>
Off == "off"
From6 == <<s6, s7>>
From7 == <<s7>>
All == <<s1, s2, s3, s4, s5, s6, s7>>

\* The coordinators of a sharded iteration, beside whose proofs those of cases, conversations
\* and traces stand, do not run here.
Cases == {}
Coordinators == {}
MaxIterations == 1
MaxAttempts == 1
Batch == 1
MaxFaults == 0
NoCase == "none"
NoReport == "none"
Open == CHOOSE n : n \notin Nat
status == Off
attempt == Off
outcome == Off
pc == Off
iter == Off
locked == Off
claimed == Off
current == Off
report == Off
record == Off
faults == Off

-----------------------------------------------------------------------------
\* A script with two turns, which the case grades with a grader that exists and one that does not.
TwoTurns == <<"system", "user", "assistant", "tool", "assistant">>
Named == {"rubric", "gone"}
Known == {"rubric", "exact"}

\* Three repetitions one at a time, of an agent in another process; three threads, whose
\* simulator has a judge; the trace of one task, with nested blocks.
Alone == INSTANCE ScenarioJobsProofs WITH
    Reps <- {"r1", "r2", "r3"}, Concurrency <- 1, MaxRetries <- 1, Remote <- TRUE,
    Flushes <- TRUE, MaxCalls <- 1,
    rep <- s1, trace <- s2, receiver <- s3, unsent <- s4, failed <- s5,
    Script <- TwoTurns, Threads <- 3, Simulates <- TRUE, Scripted <- 1, Judge <- TRUE,
    MaxTurns <- 2, CaseGraders <- Named, Graders <- Known, Override <- FALSE,
    talk <- s1, thread <- s2, history <- s3, position <- s4, emitted <- s5, results <- s6,
    collapsed <- s7,
    Tasks <- {"t1"}, MaxSpans <- 5, MaxDepth <- 3,
    rec <- s1, held <- s2, within <- s3, phase <- s4, used <- s5, built <- s6

\* Two repetitions at once, of an embedded agent; a simulator with replies of its own; two tasks.
Together == INSTANCE ScenarioJobsProofs WITH
    Reps <- {"r1", "r2"}, Concurrency <- 2, MaxRetries <- 1, Remote <- FALSE,
    Flushes <- TRUE, MaxCalls <- 2,
    rep <- s1, trace <- s2, receiver <- s3, unsent <- s4, failed <- s5,
    Script <- TwoTurns, Threads <- 3, Simulates <- TRUE, Scripted <- 3, Judge <- FALSE,
    MaxTurns <- 2, CaseGraders <- Named, Graders <- Known, Override <- FALSE,
    talk <- s1, thread <- s2, history <- s3, position <- s4, emitted <- s5, results <- s6,
    collapsed <- s7,
    Tasks <- {"t1", "t2"}, MaxSpans <- 4, MaxDepth <- 3,
    rec <- s1, held <- s2, within <- s3, phase <- s4, used <- s5, built <- s6

\* Two repetitions at once of an agent that exports after it has replied.
Late == INSTANCE ScenarioJobsProofs WITH
    Reps <- {"r1", "r2"}, Concurrency <- 2, MaxRetries <- 0, Remote <- TRUE,
    Flushes <- FALSE, MaxCalls <- 2,
    rep <- s1, trace <- s2, receiver <- s3, unsent <- s4, failed <- s5,
    Script <- TwoTurns, Threads <- 3, Simulates <- TRUE, Scripted <- 3, Judge <- FALSE,
    MaxTurns <- 2, CaseGraders <- Named, Graders <- Known, Override <- FALSE,
    talk <- s1, thread <- s2, history <- s3, position <- s4, emitted <- s5, results <- s6,
    collapsed <- s7,
    Tasks <- {"t1"}, MaxSpans <- 4, MaxDepth <- 2,
    rec <- s1, held <- s2, within <- s3, phase <- s4, used <- s5, built <- s6

-----------------------------------------------------------------------------
Off6 == s6 = Off /\ s7 = Off
AllOff ==
    /\ s1 = Off /\ s2 = Off /\ s3 = Off /\ s4 = Off /\ s5 = Off /\ s6 = Off
    /\ s7 = Off

SuiteInit ==
    /\ Init   \* of Throttle
    /\ \/ part = "fleet" /\ AllOff
       \/ part = "serial" /\ Alone!Exec!Init /\ Off6
       \/ part = "embedded" /\ Together!Exec!Init /\ Off6
       \/ part = "late" /\ Late!Exec!Init /\ Off6
       \/ part = "judged" /\ Alone!Talk!Init
       \/ part = "acted" /\ Together!Talk!Init
       \/ part = "one_task" /\ Alone!Rec!Init /\ s7 = Off
       \/ part = "two_tasks" /\ Together!Rec!Init /\ s7 = Off

(* A step of one component; what the others keep.                            *)
OfThrottle(act) == part = "fleet" /\ act /\ UNCHANGED <<part, All>>
SuiteNext ==
    \/ OfThrottle(Next)
    \/ part = "serial" /\ Alone!Exec!Next /\ UNCHANGED <<part, vars, From6>>
    \/ part = "embedded" /\ Together!Exec!Next /\ UNCHANGED <<part, vars, From6>>
    \/ part = "late" /\ Late!Exec!Next /\ UNCHANGED <<part, vars, From6>>
    \/ part = "judged" /\ Alone!Talk!Next /\ UNCHANGED <<part, vars>>
    \/ part = "acted" /\ Together!Talk!Next /\ UNCHANGED <<part, vars>>
    \/ part = "one_task" /\ Alone!Rec!Next /\ UNCHANGED <<part, vars, From7>>
    \/ part = "two_tasks" /\ Together!Rec!Next /\ UNCHANGED <<part, vars, From7>>

\* The fairness of the components: time passes and tasks run on (Throttle), what is ready
\* starts, invocations end and exported spans are posted (CaseExecution).
OfSerial(act) == part = "serial" /\ act /\ UNCHANGED <<part, vars, From6>>
SuiteSpec ==
    /\ SuiteInit /\ [][SuiteNext]_suiteVars
    /\ WF_suiteVars(OfThrottle(Tick))
    /\ \A c \in ThreeCalls : WF_suiteVars(OfThrottle(Advance(c)))
    /\ \A r \in {"r1", "r2", "r3"} :
          /\ WF_suiteVars(OfSerial(Alone!Exec!Begin(r)))
          /\ WF_suiteVars(OfSerial(Alone!Exec!Ends(r)))
    /\ WF_suiteVars(OfSerial(\E s \in s4 : Alone!Exec!Push(s) \/ Alone!Exec!ExportFails(s)))

-----------------------------------------------------------------------------
(* What they promise; the modules of the components say it in full.          *)

\* Nobody sleeps for ever on tokens that others take (acquire, RedisTokenBucket.acquire).
CallsEnd ==
    \A c \in ThreeCalls : <>(part = "fleet" => call[c].pc \in {"done", "failed"})

\* Every span of a trace was exported by the agent of that repetition (bind_recorder).
SpansDrainIntoTheirCase == part = "serial" => Alone!Exec!SpansDrainIntoTheirCase

\* What the agent exported is in a trace when its repetition has ended (drain).
NoExportIsLost == part = "serial" => Alone!Exec!NoExportIsLost

\* A model call is counted at most once (Executor.record_adapter_response).
CountedOnce == part = "embedded" => Together!Exec!CountedOnce

\* A span is with the exporter, in the buffer or in one trace, however late it arrives.
OnePlace == part = "late" => Late!Exec!OnePlace

\* A posted span stays in the buffer or reaches a trace (OtlpReceiver.drain).
NeverDropped == [][part = "late" => Late!Exec!DrainedIntoATrace]_suiteVars

\* Whoever waits for the semaphore gets its turn unless the run has failed (run_case).
EveryRepetitionEnds ==
    \A r \in {"r1", "r2", "r3"} :
        <>(part = "serial" => s5 \/ s1[r].pc \in {"done", "errored"})

\* Every turn was given the conversation before it (multi_turn).
TurnsSeeTheHistory == part = "judged" => Alone!Talk!TurnsSeeTheHistory

\* The turns of a thread are numbered without gaps and end with a failed one (run_case).
ThreadsAreUnbroken == part = "judged" => Alone!Talk!ThreadsAreUnbroken

\* The result of a repetition is its last turn, and keeps its error (_collapse).
CollapsedIsFinal == part = "judged" => Alone!Talk!CollapsedIsFinal

\* The simulator's count of turns starts afresh with every thread (UserSimulator).
CountIsPerThread ==
    (part = "judged" => Alone!Talk!CountIsPerThread) /\ (part = "acted" => Together!Talk!CountIsPerThread)

\* No thread has more simulated turns than SimulatorSpec.max_turns allows.
SimulatorIsCapped == part = "acted" => Together!Talk!SimulatorIsCapped

\* Spans of one task nest the way its blocks do (TraceRecorder._push, _pop).
NestsCorrectly == part = "one_task" => Alone!Rec!NestsCorrectly

\* A fact is recorded under the innermost open block of its task (TraceRecorder._record).
InnermostFirst == part = "one_task" => Alone!Rec!InnermostFirst

\* The counters of a trace are those of its spans, whichever task recorded them.
MetricsMatchSpans == part = "two_tasks" => Together!Rec!MetricsMatchSpans

\* What the live sink was told is what the trace holds (_emit, build).
LiveIsPersisted == part = "two_tasks" => Together!Rec!LiveIsPersisted

\* No span is lost when blocks of two tasks close out of order.
NoSpanIsLost == part = "two_tasks" => Together!Rec!NoSpanIsLost

-----------------------------------------------------------------------------
(* Taken together, by what they are about.                                 *)

\* What an agent exports reaches the trace of the repetition it ran for, once: no span is dropped,
\* counted twice or in two places, however late it is posted (OtlpReceiver, Executor).
SpansReachTheirTrace ==
    /\ []SpansDrainIntoTheirCase /\ []NoExportIsLost /\ []CountedOnce
    /\ []OnePlace /\ NeverDropped

\* A conversation is whole: every turn saw the ones before it, turns are numbered without gaps up
\* to the one that failed, and repetitions do not share the simulator's count
\* (MultiTurnExecutor, UserSimulator).
ThreadsAreWhole ==
    /\ TurnsSeeTheHistory /\ ThreadsAreUnbroken /\ CollapsedIsFinal
    /\ CountIsPerThread /\ SimulatorIsCapped

\* A trace is what the agent did: spans nest like the blocks of its one task; those of concurrent
\* tasks are all there, each counted and streamed once (TraceRecorder).
TracesAreTrue ==
    /\ NestsCorrectly /\ InnermostFirst /\ MetricsMatchSpans
    /\ LiveIsPersisted /\ NoSpanIsLost

\* Nobody waits for ever: calls get a token, or go on without Redis; repetitions get their turn
\* (acquire, Executor.run_case).
EverybodyEnds ==
    /\ CallsEnd /\ EveryRepetitionEnds
-----------------------------------------------------------------------------
(* The other parts, with the lemmas about their invariants from the module of their proofs:   *)
(* what remains is that the constants of the parts are fit, and that a step of the suite is a *)
(* step of the part.                                                                          *)

CasesInv ==
    /\ part = "serial" => Alone!ExecInv /\ Alone!SerialInv
    /\ part = "embedded" => Together!ExecInv
    /\ part = "late" => Late!ExecInv

TalksInv ==
    /\ part = "judged" => Alone!TalkInv
    /\ part = "acted" => Together!TalkInv

TracesInv ==
    /\ part = "one_task" => Alone!NestingInv
    /\ part = "two_tasks" => Together!RecordingInv

LEMMA CoordinatorsFit ==
    Alone!ConstantsAssumption /\ Together!ConstantsAssumption /\ Late!ConstantsAssumption
<1>1. Open \notin Nat
  BY NoSetContainsEverything DEF Open
<1>2. Alone!IsFiniteSet({}) /\ Together!IsFiniteSet({}) /\ Late!IsFiniteSet({})
  <2>1. <<>> \in Seq({})
    BY SMTT(30)
  <2>. QED  BY <2>1 DEF Alone!IsFiniteSet, Together!IsFiniteSet, Late!IsFiniteSet
<1>. QED  BY <1>1, <1>2, SMTT(30) DEF Alone!ConstantsAssumption, Together!ConstantsAssumption,
     Late!ConstantsAssumption, Cases, Coordinators, MaxIterations, MaxAttempts, Batch, MaxFaults

LEMMA CasesFit ==
    Alone!ExecConstants /\ Alone!OneAtATime /\ Together!ExecConstants /\ Late!ExecConstants
<1>1. {"r1", "r2"} = {"r1"} \cup {"r2"} /\ {"r1", "r2", "r3"} = {"r1", "r2"} \cup {"r3"}
  OBVIOUS
<1>2. Alone!ExecConstants /\ Alone!OneAtATime
  <2>1. Alone!IsFiniteSet({"r1"})
    BY CoordinatorsFit, Alone!FS_Singleton
  <2>2. Alone!IsFiniteSet({"r1", "r2"})
    BY <1>1, <2>1, CoordinatorsFit, Alone!FS_AddElement, SMTT(30)
  <2>3. Alone!IsFiniteSet({"r1", "r2", "r3"})
    BY <1>1, <2>2, CoordinatorsFit, Alone!FS_AddElement, SMTT(30)
  <2>. QED  BY <2>3 DEF Alone!ExecConstants, Alone!OneAtATime, Alone!Exec!Nobody
<1>3. Together!ExecConstants
  <2>1. Together!IsFiniteSet({"r1"})
    BY CoordinatorsFit, Together!FS_Singleton
  <2>2. Together!IsFiniteSet({"r1", "r2"})
    BY <1>1, <2>1, CoordinatorsFit, Together!FS_AddElement, SMTT(30)
  <2>. QED  BY <2>2 DEF Together!ExecConstants, Together!Exec!Nobody
<1>4. Late!ExecConstants
  <2>1. Late!IsFiniteSet({"r1"})
    BY CoordinatorsFit, Late!FS_Singleton
  <2>2. Late!IsFiniteSet({"r1", "r2"})
    BY <1>1, <2>1, CoordinatorsFit, Late!FS_AddElement, SMTT(30)
  <2>. QED  BY <2>2 DEF Late!ExecConstants, Late!Exec!Nobody
<1>. QED  BY <1>2, <1>3, <1>4

LEMMA TalksFit == Alone!TalkConstants /\ Together!TalkConstants
<1>1. /\ TwoTurns \in Seq({"system", "user", "assistant", "tool"})
      /\ 2 \in DOMAIN TwoTurns /\ TwoTurns[2] = "user"
  BY SMTT(30) DEF TwoTurns
<1>2. 2 \in Alone!Talk!Drivers /\ 2 \in Together!Talk!Drivers
  BY <1>1 DEF Alone!Talk!Drivers, Alone!Talk!Drives, Together!Talk!Drivers, Together!Talk!Drives
<1>. QED  BY <1>1, <1>2, SMTT(30) DEF Alone!TalkConstants, Alone!TalkRoles, Together!TalkConstants,
     Together!TalkRoles, Known

(* A step of the suite is a step of the part, or none.                                      *)
LEMMA PartSteps ==
    ASSUME [SuiteNext]_suiteVars
    PROVE  /\ part' = part
           /\ part = "serial" => [Alone!Exec!Next]_Alone!Exec!vars
           /\ part = "embedded" => [Together!Exec!Next]_Together!Exec!vars
           /\ part = "late" => [Late!Exec!Next]_Late!Exec!vars
           /\ part = "judged" => [Alone!Talk!Next]_Alone!Talk!vars
           /\ part = "acted" => [Together!Talk!Next]_Together!Talk!vars
           /\ part = "one_task" => [Alone!Rec!Next]_Alone!Rec!vars
           /\ part = "two_tasks" => [Together!Rec!Next]_Together!Rec!vars
<1>1. CASE UNCHANGED suiteVars
  BY <1>1 DEF suiteVars, Alone!Exec!vars, Together!Exec!vars, Late!Exec!vars,
     Alone!Talk!vars, Together!Talk!vars, Alone!Rec!vars, Together!Rec!vars
<1>2. CASE SuiteNext
  BY <1>2 DEF SuiteNext, OfThrottle
<1>. QED  BY <1>1, <1>2

(* Spans of the repetitions of a case are kept, counted once and in one place, and are those  *)
(* of their own repetition while one runs at a time, whichever call fails or is retried       *)
(* (OtlpReceiver, Executor).                                                                  *)
THEOREM SuiteKeepsSpans == SuiteSpec => SpansReachTheirTrace
<1>1. SuiteInit => CasesInv
  BY CoordinatorsFit, CasesFit, Alone!ExecInit, Alone!SerialInit, Together!ExecInit,
     Late!ExecInit DEF SuiteInit, CasesInv
<1>2. CasesInv /\ [SuiteNext]_suiteVars => CasesInv'
  BY CoordinatorsFit, CasesFit, PartSteps, Alone!ExecNext, Alone!SerialNext, Together!ExecNext,
     Late!ExecNext DEF CasesInv
<1>3. CasesInv => SpansDrainIntoTheirCase /\ NoExportIsLost
  BY CoordinatorsFit, CasesFit, Alone!SerialKeepsSpans
     DEF CasesInv, SpansDrainIntoTheirCase, NoExportIsLost
<1>4. CasesInv => CountedOnce
  BY CoordinatorsFit, CasesFit, Together!CountsOnce DEF CasesInv, CountedOnce
<1>5. CasesInv => OnePlace
  BY DEF CasesInv, OnePlace, Late!ExecInv
<1>6. CasesInv /\ [SuiteNext]_suiteVars => [part = "late" => Late!Exec!DrainedIntoATrace]_suiteVars
  BY CoordinatorsFit, CasesFit, PartSteps, Late!DrainsIntoATrace DEF CasesInv
<1>. QED  BY <1>1, <1>2, <1>3, <1>4, <1>5, <1>6, PTL DEF SuiteSpec, SpansReachTheirTrace, NeverDropped

(* Every turn of a conversation was given what was said before it, and the rest of what holds *)
(* of its threads, with a judge or without (MultiTurnExecutor, UserSimulator).                *)
THEOREM SuiteKeepsThreads == SuiteSpec => []ThreadsAreWhole
<1>1. SuiteInit => TalksInv
  BY CoordinatorsFit, TalksFit, Alone!TalkInit, Together!TalkInit DEF SuiteInit, TalksInv
<1>2. TalksInv /\ [SuiteNext]_suiteVars => TalksInv'
  BY CoordinatorsFit, TalksFit, PartSteps, Alone!TalkNext, Together!TalkNext DEF TalksInv
<1>3. TalksInv => ThreadsAreWhole
  BY CoordinatorsFit, TalksFit, Alone!TalkIsWhole, Together!TalkIsWhole
     DEF TalksInv, ThreadsAreWhole, Alone!Whole, Together!Whole, TurnsSeeTheHistory,
         ThreadsAreUnbroken, CollapsedIsFinal, CountIsPerThread, SimulatorIsCapped
<1>. QED  BY <1>1, <1>2, <1>3, PTL DEF SuiteSpec

(* A trace holds the spans of its agent, nested like the blocks of the one task, and its      *)
(* counters and the live stream say the same of two (TraceRecorder).                          *)
THEOREM SuiteKeepsTraces == SuiteSpec => []TracesAreTrue
<1>1. SuiteInit => TracesInv
  BY CoordinatorsFit, Alone!RecordingInit, Together!RecordingInit
     DEF SuiteInit, TracesInv, Together!NestingInv
<1>2. TracesInv /\ [SuiteNext]_suiteVars => TracesInv'
  <2>1. Alone!OneTask
    BY DEF Alone!OneTask
  <2>. QED  BY <2>1, CoordinatorsFit, PartSteps, Alone!NestingNext, Together!RecordingNext
            DEF TracesInv
<1>3. TracesInv => TracesAreTrue
  BY DEF TracesInv, TracesAreTrue, Alone!NestingInv, Together!RecordingInv, NestsCorrectly,
     InnermostFirst, MetricsMatchSpans, LiveIsPersisted, NoSpanIsLost
<1>. QED  BY <1>1, <1>2, <1>3, PTL DEF SuiteSpec
=============================================================================
