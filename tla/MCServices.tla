----------------------------- MODULE MCServices -----------------------------
(***************************************************************************)
(* The processes around a run: migrations at the start, the building of    *)
(* loops, a worker's heartbeat, the arena, run threads, the stream through *)
(* Redis, the baselines of datasets.  A behaviour exercises the component  *)
(* named by `part`; "migrations" is Migrations itself.  The variables of   *)
(* the others are the first of s1, s2, ...; the rest is Off.               *)
(*                                                                         *)
(* What is proved of migrations comes first.  The other components are     *)
(* taken through the modules in which their invariants are proved: the     *)
(* theorems at the end, about the suite, use those lemmas for the          *)
(* constants that the suite gives.                                         *)
(***************************************************************************)
EXTENDS Migrations, Integers, Sequences, FiniteSetTheorems, TLAPS

-----------------------------------------------------------------------------
(* Migrations, which this module extends.                                    *)
(* For any number of processes, migrations and deaths: what is recorded is a *)
(* prefix of the migrations and is in the schema, and a process that got up  *)
(* found all of it.                                                          *)

Pcs == {"down", "next", "ddl", "record", "up"}

ProcType == proc \in [Processes -> [pc : Pcs, applied : SUBSET Versions, next : 1..(Last + 1)]]

(* The rows of _pg_migrations are always a prefix: the version at work is    *)
(* recorded only after every earlier one.                                    *)
RecordedIsPrefix == \E n \in 0..Last : recorded = 1..n

RecordedIsThere == recorded \subseteq schema /\ schema \subseteq Versions

(* What a process knows of the table is true, and it has come past nothing   *)
(* that is not recorded.                                                     *)
Knows(p) ==
    /\ proc[p].applied \subseteq recorded
    /\ proc[p].pc \in {"next", "ddl", "record"} =>
            \A v \in Versions : v < proc[p].next => v \in recorded
    /\ proc[p].pc \in {"ddl", "record"} => proc[p].next \in Versions
    /\ proc[p].pc = "record" => proc[p].next \in schema
    /\ proc[p].pc = "up" => Versions \subseteq recorded

IInv == ProcType /\ RecordedIsPrefix /\ RecordedIsThere /\ \A p \in Processes : Knows(p)

LEMMA DownKnows ==
    ASSUME NEW p \in Processes, ProcType, proc' = [proc EXCEPT ![p] = Down]
    PROVE  ProcType' /\ Knows(p)'
<1>1. Down \in [pc : Pcs, applied : SUBSET Versions, next : 1..(Last + 1)]
    BY MigrationsAssumption DEF Down, Pcs, Versions
<1>2. ProcType'
    BY <1>1 DEF ProcType
<1>3. proc'[p] = Down
    BY DEF ProcType
<1> QED BY <1>2, <1>3 DEF Knows, Down

(* A process keeps what it knows while it is not moved and nothing is undone.*)
LEMMA OthersKnow ==
    ASSUME NEW q \in Processes, Knows(q), proc'[q] = proc[q],
           recorded \subseteq recorded', schema \subseteq schema'
    PROVE  Knows(q)'
BY DEF Knows

LEMMA InitIInv == Init => IInv
<1> SUFFICES ASSUME Init PROVE IInv
    OBVIOUS
<1>1. Down \in [pc : Pcs, applied : SUBSET Versions, next : 1..(Last + 1)]
    BY MigrationsAssumption DEF Down, Pcs, Versions
<1>2. ProcType
    BY <1>1 DEF Init, ProcType
<1>3. RecordedIsPrefix
    <2>1. 0 \in 0..Last /\ 1..0 = {}
        BY MigrationsAssumption
    <2> QED BY <2>1 DEF Init, RecordedIsPrefix
<1>4. \A p \in Processes : Knows(p)
    BY DEF Init, Knows, Down
<1> QED BY <1>2, <1>3, <1>4 DEF Init, IInv, RecordedIsThere

(* Moves of one process that write neither table nor schema.                 *)
LEMMA QuietStep ==
    ASSUME IInv, NEW p \in Processes, UNCHANGED <<schema, recorded>>,
           ProcType', Knows(p)', \A q \in Processes \ {p} : proc'[q] = proc[q]
    PROVE  IInv'
<1>1. \A q \in Processes \ {p} : Knows(q)'
    BY OthersKnow DEF IInv
<1> QED BY <1>1 DEF IInv, RecordedIsPrefix, RecordedIsThere

LEMMA OpenStep == ASSUME IInv, NEW p \in Processes, Open(p) PROVE IInv'
<1>1. proc' = [proc EXCEPT ![p] = [pc |-> "next", applied |-> recorded, next |-> 1]]
    BY DEF Open
<1>2. recorded \in SUBSET Versions /\ 1 \in 1..(Last + 1)
    BY MigrationsAssumption DEF IInv, RecordedIsThere
<1>3. ProcType'
    BY <1>1, <1>2 DEF IInv, ProcType, Pcs
<1>4. proc'[p] = [pc |-> "next", applied |-> recorded, next |-> 1]
    BY <1>1 DEF IInv, ProcType
<1>5. Knows(p)'
    BY <1>4 DEF Knows, Open, Versions
<1>6. \A q \in Processes \ {p} : proc'[q] = proc[q]
    BY <1>1 DEF IInv, ProcType
<1> QED BY <1>3, <1>5, <1>6, QuietStep DEF Open

LEMMA NextMigrationStep == ASSUME IInv, NEW p \in Processes, NextMigration(p) PROVE IInv'
<1>0. proc[p] \in [pc : Pcs, applied : SUBSET Versions, next : 1..(Last + 1)]
    BY DEF IInv, ProcType
<1>1. /\ proc[p].applied \subseteq recorded
      /\ \A v \in Versions : v < proc[p].next => v \in recorded
    BY DEF IInv, Knows, NextMigration, At
<1>2. CASE Pending(p) = {}
    <2>1. proc' = [proc EXCEPT ![p].pc = "up"]
        BY <1>2 DEF NextMigration, Goto
    <2>2. Versions \subseteq recorded
        BY <1>0, <1>1, <1>2, MigrationsAssumption DEF Pending, Versions
    <2>3. ProcType' /\ \A q \in Processes \ {p} : proc'[q] = proc[q]
        BY <2>1 DEF IInv, ProcType, Pcs
    <2>4. proc'[p] = [proc[p] EXCEPT !.pc = "up"]
        BY <2>1 DEF IInv, ProcType
    <2>5. Knows(p)'
        BY <1>0, <1>1, <2>2, <2>4 DEF Knows, NextMigration
    <2> QED BY <2>3, <2>5, QuietStep DEF NextMigration
<1>3. ASSUME NEW v \in Pending(p), \A w \in Pending(p) : v <= w,
             proc' = [proc EXCEPT ![p].pc = "ddl", ![p].next = v]
      PROVE  IInv'
    <2>1. v \in Versions /\ v \in 1..(Last + 1)
        BY <1>3, MigrationsAssumption DEF Pending, Versions
    <2>2. \A w \in Versions : w < v => w \in recorded
        BY <1>0, <1>1, <1>3, <2>1, MigrationsAssumption DEF Pending, Versions
    <2>3. ProcType' /\ \A q \in Processes \ {p} : proc'[q] = proc[q]
        BY <1>3, <2>1 DEF IInv, ProcType, Pcs
    <2>4. /\ proc'[p].pc = "ddl" /\ proc'[p].next = v
          /\ proc'[p].applied = proc[p].applied
        BY <1>0, <1>3 DEF IInv, ProcType
    <2>5. Knows(p)'
        BY <1>1, <2>1, <2>2, <2>4 DEF Knows, NextMigration
    <2> QED BY <2>3, <2>5, QuietStep DEF NextMigration
<1> QED BY <1>2, <1>3 DEF NextMigration

LEMMA UpStep == ASSUME IInv, NEW p \in Processes, Up(p) PROVE IInv'
<1>0. proc[p] \in [pc : Pcs, applied : SUBSET Versions, next : 1..(Last + 1)]
    BY DEF IInv, ProcType
<1>1. proc[p].pc = "ddl" /\ proc[p].next \in Versions
    BY DEF IInv, Knows, Up, At
<1>2. proc' = [proc EXCEPT ![p].pc = "record"]
    BY DEF Up, Goto
<1>3. ProcType' /\ \A q \in Processes \ {p} : proc'[q] = proc[q]
    BY <1>2 DEF IInv, ProcType, Pcs
<1>4. /\ proc'[p].pc = "record" /\ proc'[p].next = proc[p].next
      /\ proc'[p].applied = proc[p].applied
    BY <1>0, <1>2 DEF IInv, ProcType
<1>5. Knows(p)'
    BY <1>1, <1>4 DEF IInv, Knows, Up
<1>6. \A q \in Processes \ {p} : Knows(q)'
    BY <1>3, OthersKnow DEF IInv, Up
<1>7. RecordedIsThere' /\ RecordedIsPrefix'
    BY <1>1 DEF IInv, RecordedIsThere, RecordedIsPrefix, Up
<1> QED BY <1>3, <1>5, <1>6, <1>7 DEF IInv

LEMMA RecordStep == ASSUME IInv, NEW p \in Processes, Record(p) PROVE IInv'
<1>0. proc[p] \in [pc : Pcs, applied : SUBSET Versions, next : 1..(Last + 1)]
    BY DEF IInv, ProcType
<1> DEFINE cur == proc[p].next
<1>1. /\ proc[p].applied \subseteq recorded
      /\ \A v \in Versions : v < cur => v \in recorded
      /\ cur \in Versions /\ cur \in schema
    BY DEF IInv, Knows, Record, At
<1>2. CASE cur \in recorded
    <2>1. proc' = [proc EXCEPT ![p] = Down] /\ UNCHANGED <<schema, recorded>>
        BY <1>2 DEF Record
    <2>2. \A q \in Processes \ {p} : proc'[q] = proc[q]
        BY <2>1 DEF IInv, ProcType
    <2> QED BY <2>1, <2>2, DownKnows, QuietStep DEF IInv
<1>3. CASE cur \notin recorded
    <2>1. /\ recorded' = recorded \cup {cur} /\ UNCHANGED schema
          /\ proc' = [proc EXCEPT ![p].pc = "next", ![p].next = @ + 1]
        BY <1>3 DEF Record
    <2>2. cur + 1 \in 1..(Last + 1)
        BY <1>1, MigrationsAssumption DEF Versions
    <2>3. ProcType' /\ \A q \in Processes \ {p} : proc'[q] = proc[q]
        BY <2>1, <2>2 DEF IInv, ProcType, Pcs
    <2>4. /\ proc'[p].pc = "next" /\ proc'[p].next = cur + 1
          /\ proc'[p].applied = proc[p].applied
        BY <1>0, <2>1 DEF IInv, ProcType
    <2>5. \A v \in Versions : v < cur + 1 => v \in recorded'
        BY <1>1, <2>1 DEF Versions
    <2>6. Knows(p)'
        BY <1>1, <2>1, <2>4, <2>5 DEF Knows
    <2>7. \A q \in Processes \ {p} : Knows(q)'
        BY <2>1, <2>3, OthersKnow DEF IInv
    <2>8. RecordedIsThere'
        BY <1>1, <2>1 DEF IInv, RecordedIsThere
    <2>9. RecordedIsPrefix'
        <3>1. PICK n \in 0..Last : recorded = 1..n
            BY DEF IInv, RecordedIsPrefix
        <3>2. cur = n + 1
            <4>1. cur \in 1..Last /\ ~(cur \in 1..n)
                BY <1>1, <1>3, <3>1 DEF Versions
            <4>2. CASE n + 1 < cur
                <5>1. n + 1 \in Versions
                    BY <3>1, <4>1, <4>2, MigrationsAssumption DEF Versions
                <5>2. n + 1 \in 1..n
                    BY <1>1, <3>1, <4>2, <5>1
                <5> QED BY <3>1, <5>2, MigrationsAssumption
            <4> HIDE DEF cur
            <4> QED BY <3>1, <4>1, <4>2, MigrationsAssumption
        <3>3. recorded' = 1..cur /\ cur \in 0..Last
            BY <1>1, <2>1, <3>1, <3>2, MigrationsAssumption DEF Versions
        <3> QED BY <3>3 DEF RecordedIsPrefix
    <2> QED BY <2>3, <2>6, <2>7, <2>8, <2>9 DEF IInv
<1> QED BY <1>2, <1>3

LEMMA DiesStep == ASSUME IInv, NEW p \in Processes, Dies(p) PROVE IInv'
<1>1. proc' = [proc EXCEPT ![p] = Down] /\ UNCHANGED <<schema, recorded>>
    BY DEF Dies
<1>2. \A q \in Processes \ {p} : proc'[q] = proc[q]
    BY <1>1 DEF IInv, ProcType
<1> QED BY <1>1, <1>2, DownKnows, QuietStep DEF IInv

LEMMA StepIInv == IInv /\ [Next]_vars => IInv'
<1> SUFFICES ASSUME IInv, [Next]_vars PROVE IInv'
    OBVIOUS
<1>1. CASE UNCHANGED vars
    BY <1>1 DEF vars, IInv, ProcType, RecordedIsPrefix, RecordedIsThere, Knows
<1>2. CASE Next
    BY <1>2, OpenStep, NextMigrationStep, UpStep, RecordStep, DiesStep DEF Next, Migrate
<1> QED BY <1>1, <1>2

(* The highest recorded version speaks for the whole schema: every lower one *)
(* is recorded too, and the DDL of every recorded one has run, whoever else  *)
(* migrates or dies (apply_migrations, current_version).                     *)
THEOREM RecordIsTrue == Spec => []RecordedIsApplied
<1>1. IInv => RecordedIsApplied
    <2> SUFFICES ASSUME IInv PROVE RecordedIsApplied
        OBVIOUS
    <2>1. PICK n \in 0..Last : recorded = 1..n
        BY DEF IInv, RecordedIsPrefix
    <2>2. CASE n = 0
        <3>1. CurrentVersion = 0 /\ 1..0 = {}
            BY <2>1, <2>2 DEF CurrentVersion
        <3> QED BY <3>1 DEF RecordedIsApplied, IInv, RecordedIsThere
    <2>3. CASE n # 0
        <3>1. n \in recorded /\ \A w \in recorded : w <= n
            BY <2>1, <2>3, MigrationsAssumption
        <3>2. CurrentVersion \in recorded /\ \A w \in recorded : w <= CurrentVersion
            BY <3>1 DEF CurrentVersion
        <3>3. CurrentVersion = n
            BY <2>1, <3>1, <3>2, MigrationsAssumption
        <3> QED BY <2>1, <3>3 DEF RecordedIsApplied, IInv, RecordedIsThere
    <2> QED BY <2>2, <2>3
<1> QED BY <1>1, InitIInv, StepIInv, PTL DEF Spec

(* A process that got its storage open has the whole schema under it, also   *)
(* the migrations that another process was applying meanwhile.               *)
THEOREM OpenMeansMigrated == Spec => []UpIsMigrated
<1>1. IInv => UpIsMigrated
    BY DEF IInv, Knows, RecordedIsThere, UpIsMigrated, At
<1> QED BY <1>1, InitIInv, StepIInv, PTL DEF Spec

-----------------------------------------------------------------------------
(* What the suite gives to its parts, with the facts about it that their proofs need; they     *)
(* come before the instances.                                                                  *)

\* Two runs with a grader of the same name, and one that cannot be registered.
Plain == [declares |-> <<"judge">>, broken |-> {}, uses |-> {"judge", "deterministic"},
          agent |-> "http", variants |-> {}, retries |-> 0, rate |-> FALSE,
          sandbox |-> TRUE, port |-> "dynamic"]
Overlap == {[r1 |-> [Plain EXCEPT !.port = p],
             r2 |-> [Plain EXCEPT !.agent = "embedded", !.variants = v, !.retries = 2,
                                  !.port = p],
             r3 |-> [Plain EXCEPT !.declares = <<"panel", "lost">>, !.broken = {"lost"},
                                  !.uses = {"panel"}]] :
                v \in {{}, {"cli"}}, p \in {"dynamic", "fixed"}}

\* Names and types that the specifications of loops are made of.
Texts == {"judge", "panel", "lost", "deterministic", "http", "embedded", "cli"}

AnySpecification ==
    [declares : Seq(Texts), broken : SUBSET Texts, uses : SUBSET Texts, agent : Texts,
     variants : SUBSET Texts, retries : Nat, rate : BOOLEAN, sandbox : BOOLEAN,
     port : {"fixed", "dynamic"}]

LEMMA OverlapFacts ==
    ASSUME NEW s \in Overlap
    PROVE  /\ s \in [{"r1", "r2", "r3"} -> AnySpecification]
           /\ \A r \in {"r1", "r2", "r3"} :
                 /\ s[r].sandbox
                 /\ s[r].agent = "http" => s[r].retries = 0 /\ ~s[r].rate
                 /\ s[r].agent \in {"http", "embedded"}
                 /\ r = "r3" => s[r].declares = <<"panel", "lost">> /\ s[r].uses = {"panel"}
                 /\ r # "r3" => s[r].declares = <<"judge">> /\ s[r].uses = {"judge", "deterministic"}
<1>1. PICK v \in {{}, {"cli"}}, p \in {"dynamic", "fixed"} :
        s = [r1 |-> [Plain EXCEPT !.port = p],
             r2 |-> [Plain EXCEPT !.agent = "embedded", !.variants = v, !.retries = 2,
                                  !.port = p],
             r3 |-> [Plain EXCEPT !.declares = <<"panel", "lost">>, !.broken = {"lost"},
                                  !.uses = {"panel"}]]
  BY DEF Overlap
<1>2. s["r1"] = [declares |-> <<"judge">>, broken |-> {}, uses |-> {"judge", "deterministic"},
                 agent |-> "http", variants |-> {}, retries |-> 0, rate |-> FALSE,
                 sandbox |-> TRUE, port |-> p]
  BY <1>1 DEF Plain
<1>3. s["r2"] = [declares |-> <<"judge">>, broken |-> {}, uses |-> {"judge", "deterministic"},
                 agent |-> "embedded", variants |-> v, retries |-> 2, rate |-> FALSE,
                 sandbox |-> TRUE, port |-> p]
  BY <1>1 DEF Plain
<1>4. s["r3"] = [declares |-> <<"panel", "lost">>, broken |-> {"lost"}, uses |-> {"panel"},
                 agent |-> "http", variants |-> {}, retries |-> 0, rate |-> FALSE,
                 sandbox |-> TRUE, port |-> "dynamic"]
  BY <1>1 DEF Plain
<1>5. s["r1"] \in AnySpecification
  BY <1>2 DEF AnySpecification, Texts
<1>6. s["r2"] \in AnySpecification
  BY <1>3 DEF AnySpecification, Texts
<1>7. s["r3"] \in AnySpecification
  BY <1>4 DEF AnySpecification, Texts
<1>8. s \in [{"r1", "r2", "r3"} -> AnySpecification]
  BY <1>1, <1>5, <1>6, <1>7
<1>. QED  BY <1>2, <1>3, <1>4, <1>8

LEMMA ListsAsSets ==
    /\ {<<"judge">>[i] : i \in DOMAIN <<"judge">>} = {"judge"}
    /\ {<<"panel", "lost">>[i] : i \in DOMAIN <<"panel", "lost">>} = {"panel", "lost"}
OBVIOUS

LEMMA VariantsAreFinite == IsFiniteSet({"v1"}) /\ IsFiniteSet({"v1", "v2"})
<1>1. {"v1", "v2"} = {"v1"} \cup {"v2"}
  OBVIOUS
<1>2. IsFiniteSet({"v1"})
  BY FS_Singleton
<1>3. IsFiniteSet({"v1"} \cup {"v2"})
  BY <1>2, FS_AddElement
<1>. QED  BY <1>1, <1>2, <1>3

\* The figures of the iterations that baselines of datasets are set from.
Iterations == {"i1", "i2", "i3", "i4", "i5"}

Counts(tp, fp, fn) == [tp |-> tp, fp |-> fp, fn |-> fn]
Iteration(value, error, a, b) ==
    [primary |-> "pass@1", value |-> value, error_rate |-> error,
     confusion |-> [x \in {"a", "b"} |-> IF x = "a" THEN a ELSE b]]

(* i1: the first run; i2: better; i3: the same headline, class b traded for  *)
(* class a; i4: the same headline, class b never right; i5: errs more often. *)
Metrics ==
    [i1 |-> Iteration(50, 10, Counts(2, 1, 1), Counts(2, 1, 1)),
     i2 |-> Iteration(75, 0, Counts(3, 0, 1), Counts(3, 1, 0)),
     i3 |-> Iteration(50, 10, Counts(3, 2, 0), Counts(1, 0, 2)),
     i4 |-> Iteration(50, 10, Counts(3, 3, 0), Counts(0, 0, 3)),
     i5 |-> Iteration(50, 20, Counts(2, 1, 1), Counts(2, 1, 1))]

AnyCell == [tp : Nat, fp : Nat, fn : Nat]
AnyFigures == [primary : {"pass@1"}, value : Int, error_rate : Int,
               confusion : [{"a", "b"} -> AnyCell]]
AnyRow == [iteration : Iterations, version : Nat, metrics : AnyFigures, by : {"auto", "set"}]
AnyVerdict == [iteration : Iterations, against : Iterations, regressed : BOOLEAN]

\* No row, no verdict and no value.
CONSTANT None
ASSUME NoneIsNothing == None \notin Int \cup AnyRow \cup AnyVerdict

(* Every iteration has figures, under one name.                                              *)
LEMMA IterationsHaveFigures == \A i \in Iterations : Metrics[i] \in AnyFigures
<1>1. ASSUME NEW v \in Int, NEW e \in Int, NEW a \in AnyCell, NEW b \in AnyCell
      PROVE  Iteration(v, e, a, b) \in AnyFigures
  <2>1. [x \in {"a", "b"} |-> IF x = "a" THEN a ELSE b] \in [{"a", "b"} -> AnyCell]
    OBVIOUS
  <2>. QED  BY <2>1 DEF Iteration, AnyFigures
<1>2. \A t, f, g \in Nat : Counts(t, f, g) \in AnyCell
  BY DEF Counts, AnyCell
<1>3. Iteration(50, 10, Counts(2, 1, 1), Counts(2, 1, 1)) \in AnyFigures
  <2>1. Counts(2, 1, 1) \in AnyCell
    BY <1>2
  <2>. QED  BY <1>1, <2>1
<1>4. Iteration(75, 0, Counts(3, 0, 1), Counts(3, 1, 0)) \in AnyFigures
  <2>1. Counts(3, 0, 1) \in AnyCell /\ Counts(3, 1, 0) \in AnyCell
    BY <1>2
  <2>. QED  BY <1>1, <2>1
<1>5. Iteration(50, 10, Counts(3, 2, 0), Counts(1, 0, 2)) \in AnyFigures
  <2>1. Counts(3, 2, 0) \in AnyCell /\ Counts(1, 0, 2) \in AnyCell
    BY <1>2
  <2>. QED  BY <1>1, <2>1
<1>6. Iteration(50, 10, Counts(3, 3, 0), Counts(0, 0, 3)) \in AnyFigures
  <2>1. Counts(3, 3, 0) \in AnyCell /\ Counts(0, 0, 3) \in AnyCell
    BY <1>2
  <2>. QED  BY <1>1, <2>1
<1>7. Iteration(50, 20, Counts(2, 1, 1), Counts(2, 1, 1)) \in AnyFigures
  <2>1. Counts(2, 1, 1) \in AnyCell
    BY <1>2
  <2>. QED  BY <1>1, <2>1
<1>. QED  BY <1>3, <1>4, <1>5, <1>6, <1>7 DEF Metrics, Iterations

LEMMA HeadlinesAreOne == \A i \in Iterations : Metrics[i].primary = "pass@1"
BY IterationsHaveFigures DEF AnyFigures

-----------------------------------------------------------------------------
(* The suite.                                                                *)
VARIABLES part, s1, s2, s3, s4, s5, s6, s7, s8, s9, s10, s11, s12, s13, s14, s15, s16

suiteVars == <<part, vars, s1, s2, s3, s4, s5, s6, s7, s8, s9, s10, s11, s12, s13, s14, s15, s16>>
Off == "off"
From7 == <<s7, s8, s9, s10, s11, s12, s13, s14, s15, s16>>
From8 == <<s8, s9, s10, s11, s12, s13, s14, s15, s16>>
From9 == <<s9, s10, s11, s12, s13, s14, s15, s16>>
From10 == <<s10, s11, s12, s13, s14, s15, s16>>
From13 == <<s13, s14, s15, s16>>
All == <<s1, s2, s3, s4, s5, s6, s7, s8, s9, s10, s11, s12, s13, s14, s15, s16>>

-----------------------------------------------------------------------------
\* A job launched without Redis, in the API's own run threads, none of which dies.
\* Its lease of 300 seconds and the interval of 100 in ticks of 12.5, sweeps every 30 or so.
Worker == INSTANCE RunJobsProofs WITH
    Runs <- {"r1", "r2", "r3"}, Specs <- Overlap, Texts <- Texts,
    spec <- s1, building <- s2, lock <- s3, registry <- s4, declared <- s5, graders <- s6,
    stored <- s7, adapter <- s8, port <- s9,
    Beats <- 3, Interval <- 8, Latency <- 2, SweepEvery <- 2, Misses <- 1, Kills <- TRUE,
    left <- s1, worker <- s2, timer <- s3, fresh <- s4, missed <- s5, sweep <- s6, job <- s7,
    Jobs <- {"j1"}, Workers <- {"w1", "w2"}, Sweeper <- "sweeper", Api <- "api",
    None <- "none", MaxAttempts <- 2, LeaseTicks <- 1, UseRedis <- {FALSE}, MaxCrashes <- 0,
    MaxCancels <- 0, MaxLeases <- 2,
    row <- s1, newest <- s2, exp <- s3, stream <- s4, delivered <- s5, pel <- s6,
    request <- s7, pc <- s8, held <- s9, msg <- s10, copy <- s11, beating <- s12,
    todo <- s13, cancels <- s14, crashes <- s15, leases <- s16

\* The loop, beside whose proofs those of the arena stand, does not run here.
Experiments == {}
Values == {}
Hypotheses == {}
MaxRuns == 0
exp == Off
state == Off
phase == Off
proposal == Off
measured == Off
outcome == Off
trail == Off
baseline == Off
reason == Off
seeded == Off
stamp == Off
applied == Off
records == Off
decisions == Off
staged == Off

Scopes == {}
Labels == {"a", "b"}
Over == [i \in Iterations |-> "ds"]
Dataset == "ds"
Offered == {"cli", "set"}
Serial == FALSE
Drop == 0
F1Drop == 5
Rise == 0
MaxVersion == 0
pinned == Off
completed == Off
pc == Off
job == Off
seen == Off
verdict == Off

\* One caller, who registers variants, launches rounds and looks at them; one client, who
\* sets baselines from five iterations and checks against them.
Racing == INSTANCE OptimizationLoopProofs WITH
    Variants <- {"v1", "v2"}, Clients <- {"c1"}, CommandLine <- {},
    Uses <- {"launch", "refresh"}, MaxRounds <- 2, MaxVariants <- 2, RoundBound <- 3,
    MoveBound <- 0, head <- s1, arena <- s2, variant <- s3, tree <- s4, thread <- s5,
    rounds <- s6, exps <- s7, req <- s8,
    Scopes <- {"c1"}, Offered <- {"cli", "set", "check"}, Serial <- TRUE, MaxVersion <- 3,
    pinned <- s1, completed <- s2, pc <- s3, job <- s4, seen <- s5, verdict <- s6

\* Two callers register variants, with setup, failures and a ref that moves; two clients
\* set baselines from two iterations, and interleave.
Preparing == INSTANCE OptimizationLoopProofs WITH
    Variants <- {"v1", "v2"}, Clients <- {"c1", "c2"}, CommandLine <- {},
    Uses <- {"setup", "failures", "promote"}, MaxRounds <- 1, MaxVariants <- 2,
    RoundBound <- 1, MoveBound <- 1, head <- s1, arena <- s2, variant <- s3, tree <- s4,
    thread <- s5, rounds <- s6, exps <- s7, req <- s8,
    Scopes <- {"c1", "c2"}, Iterations <- {"i1", "i2"}, MaxVersion <- 4,
    pinned <- s1, completed <- s2, pc <- s3, job <- s4, seen <- s5, verdict <- s6

\* A caller archives the arena while another one may register and launch.
Cleaning == INSTANCE OptimizationLoopProofs WITH
    Variants <- {"v1"}, Clients <- {"c1", "c2"}, CommandLine <- {},
    Uses <- {"launch", "cleanup", "setup"}, MaxRounds <- 1, MaxVariants <- 1,
    RoundBound <- 2, MoveBound <- 1, head <- s1, arena <- s2, variant <- s3, tree <- s4,
    thread <- s5, rounds <- s6, exps <- s7, req <- s8

\* Two callers that clean up, collect orphans and die on the way.
Dying == INSTANCE OptimizationLoopProofs WITH
    Variants <- {"v1"}, Clients <- {"c1", "c2"}, CommandLine <- {"c2"},
    Uses <- {"launch", "refresh", "cleanup", "gc", "die", "setup"}, MaxRounds <- 1,
    MaxVariants <- 1, RoundBound <- 1, MoveBound <- 0, head <- s1, arena <- s2,
    variant <- s3, tree <- s4, thread <- s5, rounds <- s6, exps <- s7, req <- s8

\* The in-process broker and payload files, beside whose proofs those of Redis stand, do not
\* run here.
QueueMax == 1
Writers == {}
Chars == <<>>
Bytes == <<>>
Audio == {}
InlineMax == 0
Threshold == 0
WritersDie == FALSE
run == Off
produced == Off
log == Off
ran == Off
stored == Off
channel == Off
got == Off
taken == Off
flagged == Off
joined == Off
missed == Off
complete == Off
file == Off
writing == Off
spans == Off
raised == Off
answer == Off

\* Two viewers of a run of three spans, and one command of Redis that fails; a stream
\* that is shorter than the run.
Failing == INSTANCE SpanBrokerProofs WITH
    Viewers <- {"v1", "v2"}, MaxSpans <- 3, MaxLen <- 9, MaxFailures <- 1, Persists <- TRUE,
    calls <- s1, phase <- s2, reported <- s3, stream <- s4, nextId <- s5, active <- s6,
    closedKey <- s7, expires <- s8, persisted <- s9, failures <- s10, watching <- s11,
    appended <- s12

Trimmed == INSTANCE SpanBrokerProofs WITH
    Viewers <- {"v1"}, MaxSpans <- 4, MaxLen <- 2, MaxFailures <- 2, Persists <- TRUE,
    calls <- s1, phase <- s2, reported <- s3, stream <- s4, nextId <- s5, active <- s6,
    closedKey <- s7, expires <- s8, persisted <- s9, failures <- s10, watching <- s11,
    appended <- s12

-----------------------------------------------------------------------------
Off13 == s13 = Off /\ s14 = Off /\ s15 = Off /\ s16 = Off
Off8 ==
    /\ s8 = Off /\ s9 = Off /\ s10 = Off /\ s11 = Off /\ s12 = Off /\ s13 = Off
    /\ s14 = Off /\ s15 = Off /\ s16 = Off
Off7 == s7 = Off /\ Off8
Off9 ==
    /\ s9 = Off /\ s10 = Off /\ s11 = Off /\ s12 = Off /\ s13 = Off /\ s14 = Off
    /\ s15 = Off /\ s16 = Off
Off10 ==
    /\ s10 = Off /\ s11 = Off /\ s12 = Off /\ s13 = Off /\ s14 = Off /\ s15 = Off
    /\ s16 = Off
AllOff ==
    /\ s1 = Off /\ s2 = Off /\ s3 = Off /\ s4 = Off /\ s5 = Off /\ s6 = Off
    /\ s7 = Off /\ s8 = Off /\ s9 = Off /\ s10 = Off /\ s11 = Off /\ s12 = Off
    /\ s13 = Off /\ s14 = Off /\ s15 = Off /\ s16 = Off

SuiteInit ==
    /\ Init   \* of Migrations
    /\ \/ part = "migrations" /\ AllOff
       \/ part = "loops" /\ Worker!Loops!Init /\ Off10
       \/ part = "heart" /\ Worker!Heart!Init /\ Off8
       \/ part = "racing" /\ Racing!Race!Init /\ Off9
       \/ part = "preparing" /\ Preparing!Race!Init /\ Off9
       \/ part = "cleaning" /\ Cleaning!Race!Init /\ Off9
       \/ part = "dying" /\ Dying!Race!Init /\ Off9
       \/ part = "turns" /\ Racing!Base!Init /\ Off7
       \/ part = "races" /\ Preparing!Base!Init /\ Off7
       \/ part = "threads" /\ Worker!Init
       \/ part = "failing" /\ Failing!Redis!Init /\ Off13
       \/ part = "trimmed" /\ Trimmed!Redis!Init /\ Off13

(* A step of one component; what the others keep.                            *)
OfMigrations(act) == part = "migrations" /\ act /\ UNCHANGED <<part, All>>
SuiteNext ==
    \/ OfMigrations(Next)
    \/ part = "loops" /\ Worker!Loops!Next /\ UNCHANGED <<part, vars, From10>>
    \/ part = "heart" /\ Worker!Heart!Next /\ UNCHANGED <<part, vars, From8>>
    \/ part = "racing" /\ Racing!Race!Next /\ UNCHANGED <<part, vars, From9>>
    \/ part = "preparing" /\ Preparing!Race!Next /\ UNCHANGED <<part, vars, From9>>
    \/ part = "cleaning" /\ Cleaning!Race!Next /\ UNCHANGED <<part, vars, From9>>
    \/ part = "dying" /\ Dying!Race!Next /\ UNCHANGED <<part, vars, From9>>
    \/ part = "turns" /\ Racing!Base!Next /\ UNCHANGED <<part, vars, From7>>
    \/ part = "races" /\ Preparing!Base!Next /\ UNCHANGED <<part, vars, From7>>
    \/ part = "threads" /\ Worker!Next /\ UNCHANGED <<part, vars>>
    \/ part = "failing" /\ Failing!Redis!Next /\ UNCHANGED <<part, vars, From13>>
    \/ part = "trimmed" /\ Trimmed!Redis!Next /\ UNCHANGED <<part, vars, From13>>

(* The fairness of the components.                                           *)
OfLoops(act) == part = "loops" /\ act /\ UNCHANGED <<part, vars, From10>>
OfHeart(act) == part = "heart" /\ act /\ UNCHANGED <<part, vars, From8>>
OfRacing(act) == part = "racing" /\ act /\ UNCHANGED <<part, vars, From9>>
OfPreparing(act) == part = "preparing" /\ act /\ UNCHANGED <<part, vars, From9>>

\* A process that is down is started again and goes on with its migrations.
FairMigrations == \A p \in Processes : WF_suiteVars(OfMigrations(Open(p) \/ Migrate(p)))

\* Every build goes on.
FairLoops == \A r \in {"r1", "r2", "r3"} : WF_suiteVars(OfLoops(Worker!Loops!Step(r)))

\* Time passes, the sweeper wakes up, the beat that is due is made and ends.
FairHeart ==
    /\ WF_suiteVars(OfHeart(Worker!Heart!Tick)) /\ WF_suiteVars(OfHeart(Worker!Heart!Sweep))
    /\ WF_suiteVars(OfHeart(Worker!Heart!Beat))
    /\ WF_suiteVars(OfHeart(Worker!Heart!BeatFails \/ Worker!Heart!BeatRenews))

\* Requests, threads and experiments that started go on, and whoever waits for a round
\* keeps looking at it.
FairArena ==
    /\ \A v \in {"v1", "v2"} :
          /\ WF_suiteVars(OfRacing(Racing!Race!Prepare(v)))
          /\ WF_suiteVars(OfPreparing(Preparing!Race!Prepare(v)))
    /\ WF_suiteVars(OfRacing(Racing!Race!Proceed("c1")))
    /\ \A e \in 1..4 : WF_suiteVars(OfRacing(Racing!Race!EndExperiment(e)))
    /\ \A r \in 1..2 : SF_suiteVars(OfRacing(Racing!Race!ReadRound("c1", r)))

SuiteSpec ==
    /\ SuiteInit /\ [][SuiteNext]_suiteVars
    /\ FairMigrations /\ FairLoops /\ FairHeart /\ FairArena

-----------------------------------------------------------------------------
(* What they promise; the modules of the components say it in full.          *)

\* A process that failed or died is started again until it is up (apply_migrations).
EveryoneIsUp == \A p \in Processes : []<>(part = "migrations" => At(p, "up"))

\* Every run is built and ends, or is refused, whatever the others do (build_loop's lock).
EveryBuildEnds == \A r \in {"r1", "r2", "r3"} : <>(part = "loops" => s2[r] \in Worker!Loops!Over)

\* A job is not reaped while its worker lives (_lease_heartbeat).
HealthyIsNotReaped == part = "heart" => Worker!Heart!HealthyIsNotReaped

\* The lease of a killed worker's job lapses and is swept (_lease_heartbeat, LeaseSweeper).
KilledIsReaped == (part = "heart" /\ s2 = "killed") ~> (part = "heart" => s7 = "reaped")

\* A launched round is closed after its experiments are over (refresh_round_status).
EveryRoundCloses ==
    \A r \in 1..2 :
        (part = "racing" /\ r \in DOMAIN s6) ~>
        (part = "racing" => r \in DOMAIN s6 /\ s6[r].state = "completed")

\* A registered variant leaves the preparing state (register_variant).
EveryVariantSettles ==
    \A v \in {"v1", "v2"} :
        (part = "preparing" /\ s3[v].state = "preparing") ~>
        (part = "preparing" => s3[v].state # "preparing")

\* No two run threads execute one job at the same time (lease_run_job).
OneThreadPerJob == part = "threads" => Worker!OneRunnerPerJob

\* The automatic path never replaces a baseline, one client at a time (maybe_autoset_baseline).
AutoNeverOverwrites == [][part = "turns" => Racing!Base!OverwrittenByHand]_suiteVars

\* No write takes the row behind a version that was there, one client at a time (put_entity).
VersionsNeverFall == [][part = "turns" => Racing!Base!VersionKeptOrRaised]_suiteVars

\* A dataset some run has completed over has a baseline when all is quiet, whoever lost a race.
CompletedRunIsAnchored ==
    /\ part = "turns" => Racing!Base!CompletedRunIsAnchored
    /\ part = "races" => Preparing!Base!CompletedRunIsAnchored

\* The gate passes the iteration the baseline was copied from (evaluate_regression).
SelfCheckPasses ==
    /\ part = "turns" => Racing!Base!SelfCheckPasses
    /\ part = "races" => Preparing!Base!SelfCheckPasses

\* A run no worse in any signal than one the gate passed passes too (evaluate_regression).
GateIsMonotone == part = "turns" => Racing!Base!GateIsMonotone

\* A class that fell by more than the threshold fails the gate, whatever the headline says.
ClassDropFails == part = "turns" => Racing!Base!ClassDropFails

-----------------------------------------------------------------------------
(* Taken together, by what they are about.                                 *)

\* Loops that are built at the same time share a process and nothing else: graders, receivers and
\* ports are those of their run (build_loop).
LoopsDoNotLeak == part = "loops" => Worker!Loops!LoopsDoNotLeak

\* A round of the arena is closed when its experiments are over; who is ready can be raced
\* unless orphans are collected; one caller at a time keeps every experiment in its round and
\* the budget (arena/service.py).
RoundsAreSound ==
    /\ part = "racing" => Racing!Race!RoundsAreSound
    /\ part = "preparing" => Preparing!Race!RoundsAreSound
    /\ part = "cleaning" => Cleaning!Race!RoundsAreSound
    /\ part = "dying" => Dying!Race!RoundsAreSound

\* A job whose worker lives is not reaped, and without Redis no two threads have it
\* (_lease_heartbeat, lease_run_job).
LeasesAreKept ==
    /\ HealthyIsNotReaped /\ OneThreadPerJob

\* Through Redis a viewer gets the spans of the run in order, none twice, and none is missing
\* before an end that it read from the stream (RedisSpanBroker.subscribe).
RedisViewersSeeTheRun ==
    /\ part = "failing" => Failing!Redis!RedisViewersSeeTheRun
    /\ part = "trimmed" => Trimmed!Redis!RedisViewersSeeTheRun

\* The regression gate has a baseline once a run has completed, its own run passes it, nothing
\* worse passes where better failed, and no class falls unnoticed; as long as clients take turns
\* the automatic path replaces no baseline and no write takes a version back (runner/baseline.py,
\* ci/regression.py).
AnchorsHold ==
    /\ []CompletedRunIsAnchored /\ []SelfCheckPasses /\ []GateIsMonotone
    /\ []ClassDropFails /\ AutoNeverOverwrites /\ VersionsNeverFall

\* What was started comes to its end: storage is opened, loops are built, the job of a killed
\* worker is swept, rounds close, variants are prepared (apply_migrations, build_loop,
\* LeaseSweeper, refresh_round_status, _prepare_variant).
ServicesSettle ==
    /\ EveryoneIsUp /\ EveryBuildEnds /\ KilledIsReaped
    /\ EveryRoundCloses /\ EveryVariantSettles

-----------------------------------------------------------------------------
(* The other parts, with the lemmas about their invariants from the modules of their proofs:  *)
(* what remains is that the constants of the parts are fit, and that a step of the suite is a  *)
(* step of the part. With all the parts in sight a leaf takes the backends seconds to begin:    *)
(* hence the time each one is given.                                                           *)

LeasesInv ==
    /\ part = "heart" => Worker!HeartInv
    /\ part = "threads" => Worker!ThreadsInv

LoopsInv == part = "loops" => Worker!GradersInv /\ Worker!PortsInv

ArenaInv ==
    /\ part = "racing" => Racing!RoundsSound
    /\ part = "preparing" => Preparing!RoundsSound
    /\ part = "cleaning" => Cleaning!RoundsSound
    /\ part = "dying" => Dying!RoundsSound

AnchorsInv ==
    /\ part = "turns" => Racing!BaseInv /\ Racing!TurnsInv /\ Racing!AnchorInv
    /\ part = "races" => Preparing!BaseInv /\ Preparing!AnchorInv

RedisInv ==
    /\ part = "failing" => Failing!RedisSound
    /\ part = "trimmed" => Trimmed!RedisSound

LEMMA WorkerFits ==
    /\ Worker!ConstantsAssumption /\ TRUE \notin {FALSE}
    /\ Worker!HeartConstants /\ Worker!MissesFit
BY SMTT(30) DEF Worker!ConstantsAssumption, Worker!Procs, Worker!HeartConstants, Worker!MissesFit,
   Worker!Period, Worker!Heart!Lease

LEMMA LoopsFit ==
    Worker!LoopConstants /\ Worker!UsesAreOwn /\ Worker!AgentsAreBare /\ Worker!Sandboxed
<1>1. Worker!LoopConstants
  BY OverlapFacts, SMTT(30)
     DEF Worker!LoopConstants, Worker!Specification, AnySpecification, Worker!Loops!Free
<1>2. Worker!UsesAreOwn
  BY OverlapFacts, ListsAsSets, SMTT(30) DEF Worker!UsesAreOwn, Worker!Loops!ToSet
<1>3. Worker!AgentsAreBare /\ Worker!Sandboxed
  BY OverlapFacts, SMTT(30) DEF Worker!AgentsAreBare, Worker!Sandboxed, Worker!Loops!Out
<1>. QED  BY <1>1, <1>2, <1>3, SMTT(30)

LEMMA ArenasFit ==
    /\ Racing!ConstantsAssumption /\ Racing!ArenaConstants
    /\ Preparing!ConstantsAssumption /\ Preparing!ArenaConstants
    /\ Cleaning!ConstantsAssumption /\ Cleaning!ArenaConstants
    /\ Dying!ConstantsAssumption /\ Dying!ArenaConstants
<1>1. /\ Racing!ConstantsAssumption /\ Preparing!ConstantsAssumption
      /\ Cleaning!ConstantsAssumption /\ Dying!ConstantsAssumption
  BY NoneIsNothing, SMTT(30)
     DEF Racing!ConstantsAssumption, Preparing!ConstantsAssumption, Cleaning!ConstantsAssumption,
         Dying!ConstantsAssumption, Experiments, Values, Hypotheses, MaxRuns
<1>2. /\ Racing!ArenaConstants /\ Preparing!ArenaConstants
      /\ Cleaning!ArenaConstants /\ Dying!ArenaConstants
  BY VariantsAreFinite, SMTT(30)
     DEF Racing!ArenaConstants, Preparing!ArenaConstants, Cleaning!ArenaConstants,
         Dying!ArenaConstants, IsFiniteSet, Racing!IsFiniteSet, Preparing!IsFiniteSet,
         Cleaning!IsFiniteSet, Dying!IsFiniteSet
<1>. QED  BY <1>1, <1>2, SMTT(30)

(* Every iteration has figures, and no row is none.                                          *)
LEMMA BaselinesFit ==
    Racing!BaseConstants /\ Racing!Awaited /\ Preparing!BaseConstants /\ Preparing!Awaited
<1>1. Racing!BaseConstants
  <2>1. Iterations \subseteq Iterations
    BY SMTT(30) DEF Iterations
  <2>2. Racing!Headlines = {"pass@1"}
    BY <2>1, HeadlinesAreOne, SMTT(30) DEF Racing!Headlines, Iterations
  <2>3. Racing!Figures = AnyFigures
    BY <2>2, SMTT(30) DEF Racing!Figures, Racing!Cell, AnyFigures, AnyCell, Labels
  <2>4. Racing!PinnedRow \subseteq AnyRow /\ Racing!Verdict \subseteq AnyVerdict
    BY <2>1, <2>3, SMTT(30) DEF Racing!PinnedRow, Racing!Verdict, AnyRow, AnyVerdict
  <2>. QED  BY <2>1, <2>3, <2>4, IterationsHaveFigures, NoneIsNothing, SMTT(30)
            DEF Racing!BaseConstants, Drop, F1Drop, Rise
<1>2. Preparing!BaseConstants
  <2>1. {"i1", "i2"} \subseteq Iterations
    BY SMTT(30) DEF Iterations
  <2>2. Preparing!Headlines = {"pass@1"}
    BY <2>1, HeadlinesAreOne, SMTT(30) DEF Preparing!Headlines, Iterations
  <2>3. Preparing!Figures = AnyFigures
    BY <2>2, SMTT(30) DEF Preparing!Figures, Preparing!Cell, AnyFigures, AnyCell, Labels
  <2>4. Preparing!PinnedRow \subseteq AnyRow /\ Preparing!Verdict \subseteq AnyVerdict
    BY <2>1, <2>3, SMTT(30) DEF Preparing!PinnedRow, Preparing!Verdict, AnyRow, AnyVerdict
  <2>. QED  BY <2>1, <2>3, <2>4, IterationsHaveFigures, NoneIsNothing, SMTT(30)
            DEF Preparing!BaseConstants, Drop, F1Drop, Rise
<1>. QED  BY <1>1, <1>2, SMTT(30) DEF Racing!Awaited, Preparing!Awaited, Offered

LEMMA RedisFits ==
    /\ Failing!ConstantsAssumption /\ Failing!RedisConstants
    /\ Trimmed!ConstantsAssumption /\ Trimmed!RedisConstants
BY SMTT(30) DEF QueueMax, Failing!ConstantsAssumption, Failing!RedisConstants,
   Trimmed!ConstantsAssumption, Trimmed!RedisConstants

(* A step of the suite is a step of the part, or none.                                      *)
LEMMA PartSteps ==
    ASSUME [SuiteNext]_suiteVars
    PROVE  /\ part' = part
           /\ part = "heart" => [Worker!Heart!Next]_Worker!Heart!vars
           /\ part = "threads" => [Worker!Next]_Worker!vars
           /\ part = "loops" => [Worker!Loops!Next]_Worker!Loops!vars
           /\ part = "racing" => [Racing!Race!Next]_Racing!Race!vars
           /\ part = "preparing" => [Preparing!Race!Next]_Preparing!Race!vars
           /\ part = "cleaning" => [Cleaning!Race!Next]_Cleaning!Race!vars
           /\ part = "dying" => [Dying!Race!Next]_Dying!Race!vars
           /\ part = "turns" => [Racing!Base!Next]_Racing!Base!vars
           /\ part = "races" => [Preparing!Base!Next]_Preparing!Base!vars
           /\ part = "failing" => [Failing!Redis!Next]_Failing!Redis!vars
           /\ part = "trimmed" => [Trimmed!Redis!Next]_Trimmed!Redis!vars
<1>1. CASE UNCHANGED suiteVars
  BY <1>1, SMTT(30) DEF suiteVars, Worker!Heart!vars, Worker!vars, Worker!db, Worker!redis, Worker!mem,
     Worker!tally, Worker!Loops!vars, Racing!Race!vars,
     Preparing!Race!vars, Cleaning!Race!vars, Dying!Race!vars,
     Racing!Base!vars, Preparing!Base!vars, Failing!Redis!vars, Failing!Redis!redis, Failing!Redis!worker,
     Trimmed!Redis!vars, Trimmed!Redis!redis, Trimmed!Redis!worker
<1>2. CASE SuiteNext
  BY <1>2, SMTT(30) DEF SuiteNext, OfMigrations
<1>. QED  BY <1>1, <1>2, SMTT(30)

(* A healthy worker's job is not reaped and a thread has its job alone, whatever the order   *)
(* of beats, sweeps and requests (_lease_heartbeat, lease_run_job).                            *)
THEOREM SuiteKeepsLeases == SuiteSpec => []LeasesAreKept
<1>1. SuiteInit => LeasesInv
  BY WorkerFits, Worker!HeartInit, Worker!ThreadsInit, SMTT(30) DEF SuiteInit, LeasesInv
<1>2. LeasesInv /\ [SuiteNext]_suiteVars => LeasesInv'
  BY WorkerFits, PartSteps, Worker!HeartNext, Worker!ThreadsNext, SMTT(30) DEF LeasesInv
<1>3. LeasesInv => LeasesAreKept
  BY WorkerFits, Worker!HeartGives, Worker!ThreadsGive, SMTT(30)
     DEF LeasesInv, LeasesAreKept, HealthyIsNotReaped, OneThreadPerJob
<1>. QED  BY <1>1, <1>2, <1>3, PTL DEF SuiteSpec

(* The runs a process builds at the same time get their own graders, receivers and ports     *)
(* (build_loop).                                                                               *)
THEOREM SuiteKeepsLoopsApart == SuiteSpec => []LoopsDoNotLeak
<1>1. SuiteInit => LoopsInv
  BY WorkerFits, LoopsFit, Worker!LoopInit, Worker!PortsInit, SMTT(30) DEF SuiteInit, LoopsInv
<1>2. LoopsInv /\ [SuiteNext]_suiteVars => LoopsInv'
  BY WorkerFits, LoopsFit, PartSteps, Worker!GradersNext, Worker!PortsNext, SMTT(30) DEF LoopsInv
<1>3. LoopsInv => LoopsDoNotLeak
  BY WorkerFits, LoopsFit, Worker!PortsGive, SMTT(30)
     DEF LoopsInv, LoopsDoNotLeak, Worker!GradersInv, Worker!Loops!LoopsDoNotLeak
<1>. QED  BY <1>1, <1>2, <1>3, PTL DEF SuiteSpec

(* The rounds of the arena close over finished experiments, however requests overlap or die,  *)
(* and the rest of what holds for its callers (arena/service.py).                              *)
THEOREM SuiteKeepsRounds == SuiteSpec => []RoundsAreSound
<1>1. SuiteInit => ArenaInv
  BY ArenasFit, Racing!SoundInit, Preparing!SoundInit, Cleaning!SoundInit, Dying!SoundInit, SMTT(30)
     DEF SuiteInit, ArenaInv
<1>2. ArenaInv /\ [SuiteNext]_suiteVars => ArenaInv'
  BY ArenasFit, PartSteps, Racing!SoundNext, Preparing!SoundNext, Cleaning!SoundNext,
     Dying!SoundNext, SMTT(30) DEF ArenaInv
<1>3. ArenaInv => RoundsAreSound
  BY ArenasFit, Racing!SoundGives, Preparing!SoundGives, Cleaning!SoundGives,
     Dying!SoundGives, SMTT(30) DEF ArenaInv, RoundsAreSound
<1>. QED  BY <1>1, <1>2, <1>3, PTL DEF SuiteSpec

(* A dataset has a baseline once a run over it is done, whoever raced for it; when clients     *)
(* take turns only a request replaces it and its version never falls; and the gate fails what  *)
(* fell and nothing else that it passed before (maybe_autoset_baseline, set_baseline,          *)
(* evaluate_regression).                                                                       *)
THEOREM SuiteKeepsAnchors == SuiteSpec => AnchorsHold
<1>1. SuiteInit => AnchorsInv
  BY ArenasFit, BaselinesFit, Racing!BaseInit, Preparing!BaseInit, SMTT(30) DEF SuiteInit, AnchorsInv
<1>2. AnchorsInv /\ [SuiteNext]_suiteVars => AnchorsInv'
  BY ArenasFit, BaselinesFit, PartSteps, Racing!BaseNext, Racing!TurnsNext, Racing!AnchorNext,
     Preparing!BaseNext, Preparing!AnchorNext, SMTT(30) DEF AnchorsInv
<1>3. AnchorsInv => CompletedRunIsAnchored
  BY ArenasFit, Racing!AnchorGives, Preparing!AnchorGives, SMTT(30)
     DEF AnchorsInv, CompletedRunIsAnchored
<1>4. AnchorsInv => SelfCheckPasses /\ GateIsMonotone /\ ClassDropFails
  BY ArenasFit, BaselinesFit, Racing!GatePasses, Preparing!GatePasses, Racing!GateRises,
     Racing!GateSeesClasses, SMTT(30) DEF AnchorsInv, SelfCheckPasses, GateIsMonotone, ClassDropFails
<1>5. AnchorsInv /\ [SuiteNext]_suiteVars => [part = "turns" => Racing!Base!OverwrittenByHand]_suiteVars
  BY ArenasFit, BaselinesFit, PartSteps, Racing!ByHandOnly, SMTT(30) DEF AnchorsInv
<1>6. AnchorsInv /\ [SuiteNext]_suiteVars => [part = "turns" => Racing!Base!VersionKeptOrRaised]_suiteVars
  BY ArenasFit, BaselinesFit, PartSteps, Racing!KeepsVersion, SMTT(30) DEF AnchorsInv
<1>. QED  BY <1>1, <1>2, <1>3, <1>4, <1>5, <1>6, PTL
          DEF SuiteSpec, AnchorsHold, AutoNeverOverwrites, VersionsNeverFall

(* Through Redis every viewer reads the spans in order, and all of them when the stream holds  *)
(* the run, whichever commands fail (RedisSpanBroker).                                         *)
THEOREM SuiteKeepsStreams == SuiteSpec => []RedisViewersSeeTheRun
<1>1. SuiteInit => RedisInv
  BY RedisFits, Failing!RedisSoundInit, Trimmed!RedisSoundInit, SMTT(30)
     DEF SuiteInit, RedisInv
<1>2. RedisInv /\ [SuiteNext]_suiteVars => RedisInv'
  BY RedisFits, PartSteps, Failing!RedisSoundNext, Trimmed!RedisSoundNext, SMTT(30)
     DEF RedisInv
<1>3. RedisInv => RedisViewersSeeTheRun
  BY RedisFits, Failing!RedisSoundGives, Trimmed!RedisSoundGives, SMTT(30)
     DEF RedisInv, RedisViewersSeeTheRun
<1>. QED  BY <1>1, <1>2, <1>3, PTL DEF SuiteSpec
=============================================================================
