----------------------------- MODULE Migrations -----------------------------
(***************************************************************************)
(* `apply_migrations`, run by every process that opens the storage.  The   *)
(* connection is in autocommit mode, so the DDL of a migration (one        *)
(* multi-statement execute, atomic and idempotent) and the row that        *)
(* records it commit separately.                                           *)
(***************************************************************************)
EXTENDS Naturals, FiniteSets

CONSTANTS
    Processes,
    Last,          \* migrations are 1..Last, as discover_migrations sorts them
    MaxDeaths      \* bound: processes that die while migrating

ASSUME MigrationsAssumption == Last \in Nat \ {0} /\ MaxDeaths \in Nat

VARIABLES
    schema,        \* migrations whose DDL has been executed
    recorded,      \* rows of _pg_migrations
    proc,          \* of each process: pc, the versions it read, the one at work
    deaths

vars == <<schema, recorded, proc, deaths>>

Versions == 1..Last

Down == [pc |-> "down", applied |-> {}, next |-> 1]

Goto(p, pc) == proc' = [proc EXCEPT ![p].pc = pc]

At(p, pc) == proc[p].pc = pc

CurrentVersion == IF recorded = {} THEN 0
                  ELSE CHOOSE v \in recorded : \A w \in recorded : w <= v

\* PostgresStorage.__init__ connects; apply_migrations reads what is recorded.
Open(p) ==
    /\ At(p, "down")
    /\ proc' = [proc EXCEPT ![p] = [pc |-> "next", applied |-> recorded, next |-> 1]]
    /\ UNCHANGED <<schema, recorded, deaths>>

Pending(p) == {v \in Versions : v >= proc[p].next /\ v \notin proc[p].applied}

NextMigration(p) ==
    /\ At(p, "next")
    /\ IF Pending(p) = {}
       THEN Goto(p, "up")
       ELSE \E v \in Pending(p) :
               /\ \A w \in Pending(p) : v <= w
               /\ proc' = [proc EXCEPT ![p].pc = "ddl", ![p].next = v]
    /\ UNCHANGED <<schema, recorded, deaths>>

\* migration.module.up(cur)
Up(p) ==
    /\ At(p, "ddl")
    /\ schema' = schema \cup {proc[p].next}
    /\ Goto(p, "record")
    /\ UNCHANGED <<recorded, deaths>>

\* Slip: a row that exists is taken as the sign that the other process is done.
RecordOrUp(p) ==
    /\ At(p, "record")
    /\ recorded' = recorded \cup {proc[p].next}
    /\ IF proc[p].next \in recorded
       THEN Goto(p, "up")
       ELSE proc' = [proc EXCEPT ![p].pc = "next", ![p].next = @ + 1]
    /\ UNCHANGED <<schema, deaths>>

\* INSERT INTO _pg_migrations: the primary key refuses a version that another
\* process has recorded since, and the storage fails to open.
Record(p) ==
    /\ At(p, "record")
    /\ IF proc[p].next \in recorded
       THEN proc' = [proc EXCEPT ![p] = Down] /\ UNCHANGED recorded
       ELSE /\ recorded' = recorded \cup {proc[p].next}
            /\ proc' = [proc EXCEPT ![p].pc = "next", ![p].next = @ + 1]
    /\ UNCHANGED <<schema, deaths>>

Dies(p) ==
    /\ ~At(p, "down")
    /\ deaths < MaxDeaths
    /\ deaths' = deaths + 1
    /\ proc' = [proc EXCEPT ![p] = Down]
    /\ UNCHANGED <<schema, recorded>>

Init ==
    /\ schema = {} /\ recorded = {} /\ deaths = 0
    /\ proc = [p \in Processes |-> Down]

Migrate(p) == NextMigration(p) \/ Up(p) \/ Record(p)

Next == \E p \in Processes : Open(p) \/ Migrate(p) \/ Dies(p)

\* A process that has opened its connection goes on; one that failed or died is
\* started again.
Spec == Init /\ [][Next]_vars /\ \A p \in Processes : WF_vars(Open(p) \/ Migrate(p))

\* What is recorded is there, without gaps, whoever else migrates or dies: the
\* highest recorded version (current_version) speaks for the whole schema.
RecordedIsApplied == 1..CurrentVersion \subseteq recorded /\ recorded \subseteq schema

\* A process that is up has found every migration in place, also the ones that
\* another process was applying when it started.
UpIsMigrated == \A p \in Processes : At(p, "up") => schema = Versions

\* Every process gets up in the end, although one that loses a race over a row,
\* or dies, has to be started again.
EveryoneGetsUp == \A p \in Processes : []<>At(p, "up")

\* "a failure leaves the schema at the last good version rather than
\* half-applied" (migrations/__init__.py): a process that is down has left
\* no DDL behind that is not recorded.
\* The code does not keep it: on an autocommit connection the DDL and its row commit
\* separately.
NothingHalfApplied == (\A p \in Processes : At(p, "down")) => schema = recorded
=============================================================================
