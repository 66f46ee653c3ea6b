------------------------------ MODULE Payloads ------------------------------
(* The payloads of a trace: small ones inline on the span, large ones in the *)
(* object store under the hash of their bytes.  storage/filesystem.py writes *)
(* a file in place (open truncates it, write fills it), several writers run  *)
(* at once and any may die in between; trace/payload_router.py and           *)
(* runner/trace_response_writer.py decide what goes where; the /payloads     *)
(* route and the Playground of api/span_replay.py read it back.              *)
EXTENDS Integers, Sequences, FiniteSets

CONSTANTS
    Writers,    \* processes that record spans
    Values,     \* payloads
    Chars,      \* payload -> length of the text the span carries (json.dumps as it is)
    Bytes,      \* payload -> length of the router's encoding (no blanks; text as UTF-8)
    Audio,      \* the payloads that are audio clips
    InlineMax,  \* INLINE_PAYLOAD_MAX_CHARS
    Threshold,  \* inline_threshold_bytes
    Dies,       \* whether a writer may die
    MaxSpans,   \* bound: spans recorded or given up
    None

VARIABLES
    file,     \* payload -> "absent", "torn" or "whole": the file of its hash
    pc, job,  \* of a writer: "idle", "put", "open", "write"; what it records
    spans,    \* recorded payload fields
    raised,   \* payloads whose put ended in IntegrityViolationError
    answer    \* what the last reader got, or None

vars == <<file, pc, job, spans, raised, answer>>

Init ==
    /\ file = [v \in Values |-> "absent"]
    /\ pc = [w \in Writers |-> "idle"] /\ job = [w \in Writers |-> None]
    /\ spans = {} /\ raised = {} /\ answer = None

-----------------------------------------------------------------------------
(* Writing.                                                                  *)

(* The text on the span: whole, or its first InlineMax characters.           *)
FitsInline(v) == Chars[v] <= InlineMax

Preview(v) == IF FitsInline(v) THEN "whole" ELSE "cut"

Field(v, pointer) ==
    [value |-> v, pointer |-> pointer, inline |-> IF v \in Audio THEN None ELSE Preview(v)]

(* route_payload goes by the size of the encoding; route_audio stores every  *)
(* clip.                                                                     *)
Offloads(v) == v \in Audio \/ Bytes[v] > Threshold

Attempts == Cardinality(spans) + Cardinality(raised)
                + Cardinality({w \in Writers : pc[w] # "idle"})

route_payload(w, v) ==
    /\ pc[w] = "idle" /\ Attempts < MaxSpans
    /\ IF Offloads(v)
       THEN /\ pc' = [pc EXCEPT ![w] = "put"] /\ job' = [job EXCEPT ![w] = v]
            /\ UNCHANGED spans
       ELSE /\ spans' = spans \cup {Field(v, FALSE)}
            /\ UNCHANGED <<pc, job>>
    /\ UNCHANGED <<file, raised, answer>>

Done(w) == pc' = [pc EXCEPT ![w] = "idle"] /\ job' = [job EXCEPT ![w] = None]

(* put looks for the file of the hash and compares its bytes; bytes that     *)
(* differ can only be a collision, it says.                                  *)
put(w) ==
    /\ pc[w] = "put"
    /\ \/ /\ file[job[w]] = "absent"
          /\ pc' = [pc EXCEPT ![w] = "open"] /\ UNCHANGED <<job, spans, raised>>
       \/ /\ file[job[w]] = "whole"
          /\ spans' = spans \cup {Field(job[w], TRUE)} /\ Done(w) /\ UNCHANGED raised
       \/ /\ file[job[w]] = "torn"
          /\ raised' = raised \cup {job[w]} /\ Done(w) /\ UNCHANGED spans
    /\ UNCHANGED <<file, answer>>

(* write_bytes opens the file for writing, whatever another writer has put   *)
(* there since.                                                              *)
Open(w) ==
    /\ pc[w] = "open"
    /\ file' = [file EXCEPT ![job[w]] = "torn"]
    /\ pc' = [pc EXCEPT ![w] = "write"]
    /\ UNCHANGED <<job, spans, raised, answer>>

write_bytes(w) ==
    /\ pc[w] = "write"
    /\ file' = [file EXCEPT ![job[w]] = "whole"]
    /\ spans' = spans \cup {Field(job[w], TRUE)}
    /\ Done(w)
    /\ UNCHANGED <<raised, answer>>

Die(w) ==
    /\ Dies /\ pc[w] # "idle"
    /\ Done(w)
    /\ UNCHANGED <<file, spans, raised, answer>>

-----------------------------------------------------------------------------
(* Reading.                                                                  *)

(* get compares the hash of what it read with the pointer's.                 *)
get(v) ==
    IF file[v] = "absent" THEN "not found" ELSE IF file[v] = "torn" THEN "mismatch" ELSE "whole"

\* Slip: the preview is used when there is one.
ResolveInlineFirst(s) == IF s.inline # None THEN s.inline ELSE get(s.value)

(* A pointer wins over the inline preview.                                   *)
resolve(s) == IF s.pointer THEN get(s.value) ELSE s.inline

(* The Playground, or the viewer's fetch of a pointer.                       *)
replay_span(s) ==
    /\ answer' = [value |-> s.value, got |-> resolve(s)]
    /\ UNCHANGED <<file, pc, job, spans, raised>>

Next ==
    \/ \E w \in Writers : \/ \E v \in Values : route_payload(w, v)
                          \/ put(w) \/ Open(w) \/ write_bytes(w) \/ Die(w)
    \/ \E s \in spans : replay_span(s)

Spec == Init /\ [][Next]_vars

-----------------------------------------------------------------------------

(* What the router takes for small and the span's text for long: the blanks  *)
(* that json.dumps puts between the items are not in the router's encoding.  *)
(* Such a payload has neither a pointer nor its whole text.                  *)
LostInBetween(v) == ~Offloads(v) /\ ~FitsInline(v)

(* A payload that is read back is the whole payload or an error, never its   *)
(* preview or the first bytes of a file someone is writing: a replayed       *)
(* prompt is the prompt.                                                     *)
(* The code does not keep it for what is lost between the two limits, and    *)
(* for nothing else.                                                         *)
NoReadIsCut == answer # None /\ answer.got = "cut" => LostInBetween(answer.value)

(* A span that is recorded can be read: its pointer has a file and the file  *)
(* is whole, or the span carries the text, unless that is lost in between.   *)
RecordedIsReadable ==
    \A s \in spans : ~LostInBetween(s.value) => resolve(s) = "whole"

(* The same when no writer is at work: the pointers are good.                *)
(* The code does not keep it: a second writer of the same bytes truncates    *)
(* the complete file and may die.                                            *)
ReadableWhenQuiet ==
    (\A w \in Writers : pc[w] = "idle") => \A s \in spans : s.pointer => get(s.value) = "whole"

(* A clip is behind a pointer whatever its size.                             *)
ClipsHavePointers == \A s \in spans : s.value \in Audio => s.pointer

(* Writing the same bytes twice gives the same pointer: without a collision  *)
(* no put fails.                                                             *)
SameBytesSamePointer == raised = {}
=============================================================================
