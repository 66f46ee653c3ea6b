---------------------------- MODULE Conversation ----------------------------
(***************************************************************************)
(* A conversation case: the scripted turns of the case are replayed one by *)
(* one, then a user simulator writes further turns until the agent's reply *)
(* ends it, and afterwards the graded turns are collapsed into one result  *)
(* per repetition.                                                         *)
(***************************************************************************)
EXTENDS Integers, Sequences, FiniteSets

CONSTANTS
    Script,        \* the case's messages, by role
    Reps,          \* repetitions of the case
    Simulates,     \* a UserSimulator is passed to run_case
    Scripted,      \* length of its scripted_replies
    Judge,         \* it has a judge adapter
    MaxTurns,      \* SimulatorSpec.max_turns
    CaseGraders,   \* the names the case lists; {} for every grader
    Graders,       \* the names of the graders of the experiment
    Override       \* the proposal binds an agent of its own

VARIABLES
    pc, thread,    \* where run_case is, and in which repetition
    history,       \* the running conversation: messages [role, by]
    position,      \* of the next turn
    emitted,       \* the simulator's _turns_emitted
    results,       \* one entry per turn: thread, position, input, error, label
    collapsed      \* one entry per thread

vars == <<pc, thread, history, position, emitted, results, collapsed>>

Drives(role) == role \in {"user", "tool"}

Drivers == {i \in DOMAIN Script : Drives(Script[i])}

Turns == Cardinality(Drivers)

\* The k-th message that drives a turn.
Driver(k) == CHOOSE i \in Drivers : Cardinality({j \in Drivers : j <= i}) = k

\* Slip: the turn begins at the message that drives it.
TurnAtDriver(k) == SubSeq(Script, Driver(k), Driver(k))

\* _turn_boundaries: a turn is everything since the last one up to the message
\* that drives it; what trails the last one is dropped.
Turn(k) == SubSeq(Script, IF k = 1 THEN 1 ELSE Driver(k - 1) + 1, Driver(k))

Message(role, by) == [role |-> role, by |-> by]

FromScript(k) == [i \in DOMAIN Turn(k) |-> Message(Turn(k)[i], "script")]

\* The agent the trace names, and the one run_single invokes.
Named == "declared"
Invoked == IF Override THEN "override" ELSE "declared"

\* executor.run_single: one invocation with the history so far.
Result(input, error) ==
    [thread |-> thread, position |-> position, input |-> input, error |-> error,
     agent |-> Named, ran |-> Invoked]

StartThread ==
    /\ pc = "thread"
    /\ thread < Reps
    /\ thread' = thread + 1
    /\ history' = <<>> /\ position' = 0
    /\ emitted' = 0
    /\ pc' = "script"
    /\ UNCHANGED <<results, collapsed>>

ScriptedTurn ==
    /\ pc = "script"
    /\ LET input == history \o FromScript(position + 1) IN
       \E error \in BOOLEAN :
          /\ results' = Append(results, Result(input, error))
          /\ history' = IF error THEN input ELSE Append(input, Message("assistant", "agent"))
          /\ pc' = IF error THEN "thread"
                   ELSE IF position + 1 < Turns THEN "script"
                   ELSE IF Simulates THEN "simulate" ELSE "thread"
    /\ position' = position + 1
    /\ UNCHANGED <<thread, emitted, collapsed>>

\* The last reply meets the success criteria or the stop condition.
UserIsDone ==
    /\ pc = "simulate"
    /\ pc' = "thread"
    /\ UNCHANGED <<thread, history, position, emitted, results, collapsed>>

\* UserSimulator.invoke: the cap, then the scripted replies, then the judge,
\* which may say nothing or fail.
Invoke ==
    IF emitted >= MaxTurns THEN {"empty"}
    ELSE IF emitted < Scripted THEN {"turn"}
    ELSE IF ~Judge THEN {"empty"}
    ELSE {"turn", "empty", "error"}

\* The simulator writes a user turn and the agent answers it.
SimulatedTurn ==
    /\ pc = "simulate"
    /\ "turn" \in Invoke
    /\ emitted' = emitted + 1
    /\ LET input == Append(history, Message("user", "simulator")) IN
       \E error \in BOOLEAN :
          /\ results' = Append(results, Result(input, error))
          /\ history' = IF error THEN input ELSE Append(input, Message("assistant", "agent"))
          /\ pc' = IF error THEN "thread" ELSE "simulate"
    /\ position' = position + 1
    /\ UNCHANGED <<thread, collapsed>>

\* An empty turn or an AdapterError of the simulator ends the thread.
SimulatorStops ==
    /\ pc = "simulate"
    /\ \E said \in Invoke \ {"turn"} :
          emitted' = emitted + IF said = "empty" /\ emitted < MaxTurns /\ Judge THEN 1 ELSE 0
    /\ pc' = "thread"
    /\ UNCHANGED <<thread, history, position, results, collapsed>>

\* graders_for_case: the ones the case names, or all when it names none of them.
GradersForCase ==
    IF CaseGraders \cap Graders = {} THEN Graders ELSE CaseGraders \cap Graders

InThread(t) == {i \in DOMAIN results : results[i].thread = t}

\* collapse_conversation_turns: turns are grouped by thread and ordered by
\* position; the last one is graded for all, an error of any is the thread's.
Final(t) ==
    CHOOSE i \in InThread(t) : \A j \in InThread(t) : results[j].position <= results[i].position

Collapse ==
    /\ pc = "thread" /\ thread = Reps
    /\ collapsed' = [t \in 1..Reps |->
          [final |-> results[Final(t)], turns |-> Cardinality(InThread(t)),
           error |-> \E i \in InThread(t) : results[i].error,
           grades |-> GradersForCase]]
    /\ pc' = "end"
    /\ UNCHANGED <<thread, history, position, emitted, results>>

Init ==
    /\ pc = "thread" /\ thread = 0 /\ history = <<>> /\ position = 0
    /\ emitted = 0 /\ results = <<>> /\ collapsed = <<>>

Next ==
    \/ StartThread \/ ScriptedTurn
    \/ UserIsDone \/ SimulatedTurn \/ SimulatorStops
    \/ Collapse

Spec == Init /\ [][Next]_vars

By(messages, who) == {i \in DOMAIN messages : messages[i].by = who}

\* What messages hold of the script is its first n messages, in order.
HoldsScript(messages, n) ==
    /\ Cardinality(By(messages, "script")) = n
    /\ \A j \in By(messages, "script") :
          messages[j].role = Script[Cardinality({i \in By(messages, "script") : i <= j})]

\* Every turn was given the whole conversation before it: the script up to its
\* driving message and the agent's own reply to each of the turns before.
TurnsSeeTheHistory ==
    \A i \in DOMAIN results :
        LET r == results[i] IN
        /\ Cardinality(By(r.input, "agent")) = r.position
        /\ Drives(r.input[Len(r.input)].role)
        /\ HoldsScript(r.input, Driver(IF r.position < Turns THEN r.position + 1 ELSE Turns))

\* Positions number the turns of a thread without gaps, scripted ones first, and
\* a thread never goes on after a turn that failed.
ThreadsAreUnbroken ==
    \A t \in 1..thread : \A i \in InThread(t) :
        /\ {results[j].position : j \in InThread(t)} = 0..(Cardinality(InThread(t)) - 1)
        /\ results[i].error => \A j \in InThread(t) : results[j].position <= results[i].position

\* Every repetition gets the same number of simulated turns at most, whichever
\* mode the simulator is in.
SimulatorIsCapped ==
    \A t \in 1..thread : Cardinality(InThread(t)) <= Turns + MaxTurns

\* The collapsed result of a repetition is its last turn, and it carries an error
\* whenever a turn of it failed.
CollapsedIsFinal ==
    pc = "end" => \A t \in 1..Reps :
        /\ collapsed[t].final.position = Cardinality(InThread(t)) - 1
        /\ collapsed[t].error = collapsed[t].final.error
        /\ collapsed[t].grades # {}

\* The one simulator starts afresh with every thread: while it drives, its count
\* of turns is the number of turns it has written in this thread.
CountIsPerThread ==
    pc = "simulate" => emitted = Cardinality(InThread(thread)) - Turns

\* "with an `agent` override the trace must name the agent that actually ran"
\* (executor.py).
\* MultiTurnExecutor does not keep it: run_case takes the reference without the
\* overrides.
TraceNamesTheAgent == \A i \in DOMAIN results : results[i].agent = results[i].ran
=============================================================================
