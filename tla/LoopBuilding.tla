---------------------------- MODULE LoopBuilding ----------------------------
(* Runs of one process build their loops at the same time (runner/launch):    *)
(* the graders a specification declares are put into the registry of the      *)
(* process, instantiated and taken out again under a lock; then the           *)
(* experiment is stored, and a receiver for the spans of an out-of-process    *)
(* agent is started on a port of the machine.                                 *)
EXTENDS Integers, FiniteSets, Sequences, SequencesExt

CONSTANTS
    Runs,
    Specs           \* functions of a run to its specification:
                    \* [declares, broken, uses, agent, variants, retries, rate, sandbox, port]

Builtins == {"deterministic", "set_match"}
Free == "free"
Out == {"http", "cli"}

VARIABLES
    spec,
    pc,         \* how far each run is
    lock,       \* the run inside the registration window
    registry,   \* the factories by name: Free, "builtin", or the run that registered it
    declared,   \* the names a run has registered so far, in order
    graders,    \* the graders a run was built with: who made each of them
    stored,     \* the runs whose experiment is in storage
    adapter,    \* the layers around a run's adapter, outermost first
    port        \* the owner of each port of the machine

vars == <<spec, pc, lock, registry, declared, graders, stored, adapter, port>>

Names == Builtins \cup UNION {ToSet(spec[r].declares) \cup spec[r].uses : r \in Runs}
Ports == {"fixed"} \cup Runs       \* a dynamic port is one of the run's own

Init ==
    /\ spec \in Specs
    /\ pc = [r \in Runs |-> "start"]
    /\ lock = Free
    /\ registry = [n \in Names |-> IF n \in Builtins THEN "builtin" ELSE Free]
    /\ declared = [r \in Runs |-> <<>>]
    /\ graders = [r \in Runs |-> <<>>]
    /\ stored = {}
    /\ adapter = [r \in Runs |-> <<>>]
    /\ port = [p \in Ports |-> Free]

Goto(r, where) == pc' = [pc EXCEPT ![r] = where]

----------------------------------------------------------------------------
(* The adapter                                                                *)

\* The throttle is the outermost layer, retries are inside it.
WrapResilience(s) ==
    (IF s.rate THEN <<"rate_limited">> ELSE <<>>) \o
    (IF s.retries > 0 THEN <<"retrying">> ELSE <<>>) \o <<s.agent>>

BuildAdapter(r) ==
    /\ pc[r] = "start"
    /\ adapter' = [adapter EXCEPT ![r] = WrapResilience(spec[r])]
    /\ Goto(r, "wrapped")
    /\ UNCHANGED <<spec, lock, registry, declared, graders, stored, port>>

----------------------------------------------------------------------------
(* The registration window                                                    *)

\* Slip: nobody waits for the window.
TakeLockAlways(r) ==
    /\ pc[r] = "wrapped"
    /\ lock' = r
    /\ Goto(r, "registering")
    /\ UNCHANGED <<spec, registry, declared, graders, stored, adapter, port>>

TakeLock(r) ==
    /\ pc[r] = "wrapped" /\ lock = Free
    /\ lock' = r
    /\ Goto(r, "registering")
    /\ UNCHANGED <<spec, registry, declared, graders, stored, adapter, port>>

\* A grader whose judge cannot be resolved ends the build, outside the try.
RegisterFails(r) ==
    /\ pc[r] = "registering"
    /\ Len(declared[r]) < Len(spec[r].declares)
    /\ spec[r].declares[Len(declared[r]) + 1] \in spec[r].broken
    /\ lock' = Free
    /\ Goto(r, "failed")
    /\ UNCHANGED <<spec, registry, declared, graders, stored, adapter, port>>

\* One declared grader is registered; the last write of a name wins.
RegisterGrader(r) ==
    /\ pc[r] = "registering"
    /\ Len(declared[r]) < Len(spec[r].declares)
    /\ LET name == spec[r].declares[Len(declared[r]) + 1] IN
          /\ name \notin spec[r].broken
          /\ registry' = [registry EXCEPT ![name] = r]
          /\ declared' = [declared EXCEPT ![r] = Append(@, name)]
    /\ UNCHANGED <<spec, pc, lock, graders, stored, adapter, port>>

\* The graders that the cases name, or the default, are made from the registry.
ResolveGraders(r) ==
    /\ pc[r] = "registering"
    /\ Len(declared[r]) = Len(spec[r].declares)
    /\ LET names == spec[r].uses IN
       IF \A n \in names : registry[n] # Free
       THEN graders' = [graders EXCEPT ![r] = [n \in names |-> registry[n]]] /\ Goto(r, "resolved")
       ELSE Goto(r, "unknown") /\ UNCHANGED graders
    /\ UNCHANGED <<spec, lock, registry, declared, stored, adapter, port>>

\* What was registered is taken out again, whatever it replaced.
UnregisterGraders(r) ==
    /\ pc[r] \in {"resolved", "unknown"}
    /\ registry' = [n \in Names |-> IF n \in ToSet(declared[r]) THEN Free ELSE registry[n]]
    /\ lock' = Free
    /\ Goto(r, IF pc[r] = "unknown" THEN "failed" ELSE "graded")
    /\ UNCHANGED <<spec, declared, graders, stored, adapter, port>>

----------------------------------------------------------------------------
(* The experiment and the receiver                                            *)

Persist(r) ==
    /\ pc[r] = "graded"
    /\ stored' = stored \cup {r}
    /\ Goto(r, "stored")
    /\ UNCHANGED <<spec, lock, registry, declared, graders, adapter, port>>

\* The test looks at the outermost layer, and at the agents of the search space.
NeedsReceiver(r) == Head(adapter[r]) \in Out \/ spec[r].variants \cap Out # {}

\* A fixed port can be taken; the operating system finds a free one otherwise.
StartReceiver(r) ==
    /\ pc[r] = "stored"
    /\ LET at == IF spec[r].port = "fixed" THEN "fixed" ELSE r IN
       IF ~NeedsReceiver(r) THEN Goto(r, "received") /\ UNCHANGED port
       ELSE IF port[at] # Free THEN Goto(r, "failed") /\ UNCHANGED port
       ELSE Goto(r, "received") /\ port' = [port EXCEPT ![at] = r]
    /\ UNCHANGED <<spec, lock, registry, declared, graders, stored, adapter>>

\* The executor refuses a sandbox mode that is not supported.
BuildExecutor(r) ==
    /\ pc[r] = "received"
    /\ Goto(r, IF spec[r].sandbox THEN "running" ELSE "failed")
    /\ UNCHANGED <<spec, lock, registry, declared, graders, stored, adapter, port>>

\* The run ends and its executor stops the receiver.
CloseExecutor(r) ==
    /\ pc[r] = "running"
    /\ Goto(r, "ended")
    /\ port' = [p \in Ports |-> IF port[p] = r THEN Free ELSE port[p]]
    /\ UNCHANGED <<spec, lock, registry, declared, graders, stored, adapter>>

Step(r) ==
    \/ BuildAdapter(r) \/ TakeLock(r) \/ RegisterGrader(r) \/ RegisterFails(r)
    \/ ResolveGraders(r) \/ UnregisterGraders(r) \/ Persist(r) \/ StartReceiver(r)
    \/ BuildExecutor(r) \/ CloseExecutor(r)

Next == \E r \in Runs : Step(r)
Spec == Init /\ [][Next]_vars /\ \A r \in Runs : WF_vars(Step(r))

----------------------------------------------------------------------------
(* What building promises                                                     *)

Over == {"failed", "ended"}

\* A run is built from the graders it declares and the built-in ones, never
\* from those of another run (build_loop: two concurrent runs never see each
\* other's registrations).
GradersAreItsOwn ==
    \A r \in Runs : \A n \in DOMAIN graders[r] :
        graders[r][n] = IF n \in ToSet(spec[r].declares) THEN r ELSE "builtin"

\* Outside the window the registry holds the built-in graders and nothing else
\* (register_grader_specs: keeping the registry hermetic).
\* The code does not keep it: what was registered before a grader that cannot be resolved
\* stays.
RegistryIsHermetic ==
    lock = Free => \A n \in Names : registry[n] = IF n \in Builtins THEN "builtin" ELSE Free

\* A run that uses only what it declares and what is built in is not refused
\* for an unknown grader.
KnownGradersResolve ==
    \A r \in Runs : spec[r].uses \subseteq ToSet(spec[r].declares) \cup Builtins => pc[r] # "unknown"

\* A run whose agent, or one of whose variants, is out of process has somewhere
\* to send its spans (build_loop: start an embedded OTLP receiver for cli/http).
OutOfProcessHasReceiver ==
    \A r \in Runs : pc[r] = "running" /\ (spec[r].agent \in Out \/ spec[r].variants \cap Out # {})
        => \E p \in Ports : port[p] = r

\* A port is held by a run that is still going (build_loop: the executor closes it).
PortsAreReleased == \A p \in Ports : port[p] # Free => pc[port[p]] \notin Over

\* Runs that are built at the same time share a process and nothing else.
LoopsDoNotLeak ==
    GradersAreItsOwn /\ KnownGradersResolve /\ OutOfProcessHasReceiver /\ PortsAreReleased

\* Every run is built and ends, or is refused, whatever the others do.
EveryBuildEnds == \A r \in Runs : <>(pc[r] \in Over)
=============================================================================
