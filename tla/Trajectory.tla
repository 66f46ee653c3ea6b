----------------------------- MODULE Trajectory -----------------------------
(* The grader of trajectories.  An agent runs tools, one inside or beside    *)
(* another, retrieves, decides and hands off; trace/recorder.py records each *)
(* span when it ends; graders/trajectory.py and trajectory_checks.py grade   *)
(* the trace: the output grader has the verdict, diagnostics are advice and  *)
(* only hard invariants overrule.                                            *)
EXTENDS Integers, Sequences, FiniteSets, SequencesExt

CONSTANTS
    Tools, Queries,
    Order,          \* expected_tool_order
    MaxConsecutive, \* max_consecutive_tool_calls
    MaxTotal,       \* max_total_tool_calls, or None
    ExpectRouting,  \* expect_routing_decision
    Forbidden,      \* HardInvariants.forbidden_tools
    MaxCalls,       \* HardInvariants.max_tool_calls, or None
    MaxOpen,        \* bound: tools an agent runs at once
    MaxSpans,       \* bound: spans of a trace
    None

VARIABLES
    started,    \* every tool call in the order of its start
    open,       \* the calls that run: positions in started
    spans,      \* the trace: [kind, what], in the order recorded
    graded      \* the label of the output grader, or None while the agent runs

vars == <<started, open, spans, graded>>

Span(kind, what) == [kind |-> kind, what |-> what]

-----------------------------------------------------------------------------
(* The checks.                                                               *)

tools_invoked(trace) ==
    LET calls == SelectSeq(trace, LAMBDA s : s.kind = "tool") IN
    [i \in DOMAIN calls |-> calls[i].what]

(* `all(token in it for token in needle)`: each token is searched for in     *)
(* what the previous search left of the iterator.                            *)
_is_ordered_subsequence(needle, haystack) ==
    LET Search(rest, token) ==
            IF rest = None THEN None
            ELSE LET at == {i \in DOMAIN rest : rest[i] = token} IN
                 IF at = {} THEN None
                 ELSE LET i == CHOOSE i \in at : \A j \in at : i <= j IN
                      SubSeq(rest, i + 1, Len(rest))
    IN  FoldLeft(Search, haystack, needle) # None

check_tool_order(invoked) == Order # <<>> /\ ~_is_ordered_subsequence(Order, invoked)

Count(seq, x) == Cardinality({i \in DOMAIN seq : seq[i] = x})

(* The loop returns as soon as a run is too long, or else counts per tool.   *)
check_tool_loop(invoked) ==
    LET Step(acc, t) ==
            LET n == IF t = acc.tool THEN acc.length + 1 ELSE 1 IN
            [tool |-> t, length |-> n, over |-> acc.over \/ n > MaxConsecutive]
    IN  \/ FoldLeft(Step, [tool |-> None, length |-> 0, over |-> FALSE], invoked).over
        \/ MaxTotal # None /\ \E t \in Tools : Count(invoked, t) > MaxTotal

Has(trace, kind) == \E i \in DOMAIN trace : trace[i].kind = kind

check_missing_routing(trace) ==
    ~Has(trace, "decision") /\ (Has(trace, "handoff") \/ ExpectRouting)

(* A retrieval without a hash or a pointer of its query is nobody's repeat.  *)
check_redundant_retrieval(trace) ==
    \E i, j \in DOMAIN trace :
        /\ i < j /\ trace[i] = trace[j]
        /\ trace[i].kind = "retrieval" /\ trace[i].what # None

diagnose(trace) ==
    {mode \in {"wrong_tool_order", "tool_loop_overrun", "missing_routing_decision",
               "redundant_retrieval"} :
        CASE mode = "wrong_tool_order" -> check_tool_order(tools_invoked(trace))
          [] mode = "tool_loop_overrun" -> check_tool_loop(tools_invoked(trace))
          [] mode = "missing_routing_decision" -> check_missing_routing(trace)
          [] mode = "redundant_retrieval" -> check_redundant_retrieval(trace)}

check_hard_invariants(trace) ==
    {<<"forbidden_tool", t>> : t \in Forbidden \cap ToSet(tools_invoked(trace))}
        \cup {m \in {<<"max_tool_calls", None>>} :
                 MaxCalls # None /\ Len(tools_invoked(trace)) > MaxCalls}

(* The verdict, and the two kinds of children of the breakdown: diagnostics  *)
(* of weight 0 and hard violations of weight 1.                              *)
grade(trace, output) ==
    LET hard == check_hard_invariants(trace) IN
    [label |-> IF hard # {} THEN "fail" ELSE output, hard |-> hard,
     advice |-> diagnose(trace)]

-----------------------------------------------------------------------------
Init == started = <<>> /\ open = {} /\ spans = <<>> /\ graded = None

Room == graded = None /\ Len(spans) + Cardinality(open) < MaxSpans

Start(t) ==
    /\ Room /\ Cardinality(open) < MaxOpen
    /\ started' = Append(started, t) /\ open' = open \cup {Len(started) + 1}
    /\ UNCHANGED <<spans, graded>>

(* TraceRecorder.tool_call records its span in a finally.                    *)
tool_call(i) ==
    /\ graded = None
    /\ open' = open \ {i} /\ spans' = Append(spans, Span("tool", started[i]))
    /\ UNCHANGED <<started, graded>>

Note(span) ==
    /\ Room /\ spans' = Append(spans, span) /\ UNCHANGED <<started, open, graded>>

Finish(output) ==
    /\ graded = None /\ open = {} /\ graded' = output
    /\ UNCHANGED <<started, open, spans>>

Next ==
    \/ \E t \in Tools : Start(t)
    \/ \E i \in open : tool_call(i)
    \/ \E q \in Queries \cup {None} : Note(Span("retrieval", q))
    \/ \E k \in {"decision", "handoff"} : Note(Span(k, None))
    \/ \E l \in {"pass", "partial", "fail", "error"} : Finish(l)

Spec == Init /\ [][Next]_vars

-----------------------------------------------------------------------------
(* Properties.                                                               *)

Graded == graded # None
Grade == grade(spans, graded)
Invoked == tools_invoked(spans)

(* Diagnostics are advice: the verdict is that of the output grader unless   *)
(* the agent ran a forbidden tool or too many tools, whatever else it did,   *)
(* in whatever order its calls ended.                                        *)
OnlyHardRulesOverrule ==
    Graded =>
        LET broke == \/ \E i \in DOMAIN started : started[i] \in Forbidden
                     \/ MaxCalls # None /\ Len(started) > MaxCalls
        IN  /\ broke => Grade.label = "fail" /\ Grade.hard # {}
            /\ ~broke => Grade.label = graded /\ Grade.hard = {}

(* The searches of check_tool_order and check_tool_loop against what they    *)
(* mean: positions of the expected tools that grow, and a window of one tool *)
(* longer than the cap.                                                      *)
ChecksMeanWhatTheySay ==
    LET n == Len(Invoked)
        ordered == \E at \in [DOMAIN Order -> 1..n] :
            /\ \A i \in DOMAIN Order : Invoked[at[i]] = Order[i]
            /\ \A i, j \in DOMAIN Order : i < j => at[i] < at[j]
        window == \E a \in 1..(n - MaxConsecutive) :
            \A b \in a..(a + MaxConsecutive) : Invoked[b] = Invoked[a]
        many == MaxTotal # None /\ \E t \in Tools : Count(Invoked, t) > MaxTotal
    IN  /\ "wrong_tool_order" \in diagnose(spans) <=> (Order # <<>> /\ ~ordered)
        /\ "tool_loop_overrun" \in diagnose(spans) <=> (window \/ many)

(* What an agent does later never takes back an overrun, a repeated          *)
(* retrieval or a broken hard rule, nor an order it once followed.           *)
StaysBad ==
    /\ \A m \in {"tool_loop_overrun", "redundant_retrieval"} :
           m \in diagnose(spans) => m \in diagnose(spans')
    /\ check_hard_invariants(spans) \subseteq check_hard_invariants(spans')
    /\ "wrong_tool_order" \notin diagnose(spans) => "wrong_tool_order" \notin diagnose(spans')
BadStaysBad == [][StaysBad]_vars

(* "Tool names in span order (the trace records spans chronologically)".     *)
(* The code does not keep it: a span is appended when it ends.               *)
InvokedInOrderOfStart == Graded => Invoked = started
=============================================================================
