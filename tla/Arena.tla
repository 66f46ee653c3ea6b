------------------------------- MODULE Arena -------------------------------
(* The arena: code variants of one agent, each checked out in a git worktree  *)
(* and raced against the others in rounds (arena/service.py, worktrees.py).   *)
(*                                                                            *)
(* Every entity is a row that is read, changed and written back whole with    *)
(* no version bump, so the last writer of a row wins.  A client runs one      *)
(* request at a time; the reads and writes of a request that are far apart    *)
(* in the code are steps of their own here.  A registered variant is prepared *)
(* by a daemon thread of the process that registered it, and a directory is   *)
(* shared with whoever collects orphaned ones.                                *)
EXTENDS Integers, FiniteSets, Sequences, SequencesExt, FiniteSetsExt

CONSTANTS
    Variants,        \* the ids a variant may get
    Clients,         \* concurrent callers of the service
    CommandLine,     \* the clients that are a process of one command
    Uses,            \* the operations the callers of an instance use
    MaxRounds, MaxVariants,   \* the arena's budget
    RoundBound, MoveBound     \* bounds of the instance: rounds, pushes to the ref

VARIABLES
    head,       \* the commit the variants' git ref points to
    arena,      \* the row of the arena
    variant,    \* the rows of its variants
    tree,       \* the worktree directories: commit checked out, setup marker
    thread,     \* where the thread that prepares a variant is
    rounds,     \* the rows of the rounds, in the order they were put
    exps,       \* the child experiments, in the order they were launched
    req         \* the request each client is in

vars == <<head, arena, variant, tree, thread, rounds, exps, req>>

NoVariant == [state |-> "none"]
NoTree == [sha |-> -1, setup |-> FALSE]
Idle == [op |-> "idle"]
Terminal == {"completed", "aborted", "superseded"}
Registered == {v \in Variants : variant[v] # NoVariant}

Init ==
    /\ head = 0
    /\ arena = [round |-> 0, state |-> "draft", winner |-> {}]
    /\ variant = [v \in Variants |-> NoVariant]
    /\ tree = [v \in Variants |-> NoTree]
    /\ thread = [v \in Variants |-> "none"]
    /\ rounds = <<>>
    /\ exps = <<>>
    /\ req = [c \in Clients |-> Idle]

\* Someone pushes to the ref the variants are registered against.
MoveRef ==
    /\ head < MoveBound
    /\ head' = head + 1
    /\ UNCHANGED <<arena, variant, tree, thread, rounds, exps, req>>

----------------------------------------------------------------------------
(* register_variant, and the thread that prepares what it registered          *)

\* The budget is checked before the ref is resolved, which runs git.
RegisterVariant(c) ==
    /\ req[c] = Idle
    /\ Cardinality(Registered) < MaxVariants
    /\ req' = [req EXCEPT ![c] = [op |-> "register"]]
    /\ UNCHANGED <<head, arena, variant, tree, thread, rounds, exps>>

\* The resolved commit is pinned, the row is put and the thread started.
PutVariant(c) ==
    /\ req[c].op = "register"
    /\ \E v \in Variants \ Registered, setup \in {FALSE, "setup" \in Uses} :
          /\ variant' = [variant EXCEPT ![v] =
                [state |-> "preparing", sha |-> head, path |-> FALSE, setup |-> setup]]
          /\ thread' = [thread EXCEPT ![v] = "checkout"]
          /\ req' = [req EXCEPT ![c] = IF c \in CommandLine THEN [op |-> "exit", of |-> v]
                                       ELSE Idle]
    /\ UNCHANGED <<head, arena, tree, rounds, exps>>

\* The command has printed its lines: its process exits, and a daemon thread
\* does not keep a process alive.
ExitCommand(c) ==
    /\ req[c].op = "exit"
    /\ thread' = [thread EXCEPT ![req[c].of] = "none"]
    /\ req' = [req EXCEPT ![c] = Idle]
    /\ UNCHANGED <<head, arena, variant, tree, rounds, exps>>

\* ensure_worktree: a directory whose HEAD is the commit is reused with its
\* marker, any other one is made anew; git may fail.
EnsureWorktree(v) ==
    /\ thread[v] = "checkout"
    /\ \/ /\ tree' = [tree EXCEPT ![v] =
                IF @.sha = variant[v].sha THEN @ ELSE [sha |-> variant[v].sha, setup |-> FALSE]]
          /\ thread' = [thread EXCEPT ![v] = "setup"]
       \/ /\ "failures" \in Uses
          /\ thread' = [thread EXCEPT ![v] = "failing"]
          /\ UNCHANGED tree
    /\ UNCHANGED <<head, arena, variant, rounds, exps, req>>

\* run_setup up to the end of the command: skipped without a command or with
\* the marker there; a directory that is gone is a setup failure.
RunSetup(v) ==
    /\ thread[v] = "setup"
    /\ \/ /\ ~variant[v].setup \/ tree[v].setup
          /\ thread' = [thread EXCEPT ![v] = "finish"]
       \/ /\ variant[v].setup /\ ~tree[v].setup /\ tree[v] # NoTree
          /\ thread' = [thread EXCEPT ![v] = "marking"]
       \/ /\ variant[v].setup /\ ~tree[v].setup
          /\ tree[v] = NoTree \/ "failures" \in Uses
          /\ thread' = [thread EXCEPT ![v] = "failing"]
    /\ UNCHANGED <<head, arena, variant, tree, rounds, exps, req>>

\* The marker is written; without the directory that raises what nobody
\* catches, and the thread ends.
MarkSetup(v) ==
    /\ thread[v] = "marking"
    /\ \/ /\ tree[v] # NoTree
          /\ tree' = [tree EXCEPT ![v].setup = TRUE]
          /\ thread' = [thread EXCEPT ![v] = "finish"]
       \/ /\ tree[v] = NoTree
          /\ thread' = [thread EXCEPT ![v] = "none"]
          /\ UNCHANGED tree
    /\ UNCHANGED <<head, arena, variant, rounds, exps, req>>

\* The row is read again, whatever became of it, and told the outcome.
FinishPreparing(v) ==
    /\ thread[v] \in {"finish", "failing"}
    /\ thread' = [thread EXCEPT ![v] = "none"]
    /\ variant' = IF thread[v] = "finish"
                  THEN [variant EXCEPT ![v].state = "ready", ![v].path = TRUE]
                  ELSE [variant EXCEPT ![v].state = "failed"]
    /\ UNCHANGED <<head, arena, tree, rounds, exps, req>>

----------------------------------------------------------------------------
(* launch_round                                                               *)

Pending(v) == [variant |-> v, exp |-> 0, status |-> "pending"]

\* The budget, the readiness of the variants selected, and the row of the
\* round; the arena's counter moves only at the end.
LaunchRound(c) ==
    /\ "launch" \in Uses
    /\ req[c] = Idle
    /\ arena.round < MaxRounds
    /\ Len(rounds) < RoundBound
    /\ \E selected \in SUBSET {v \in Registered : variant[v].state = "ready"} :
          /\ selected # {}
          /\ rounds' = Append(rounds, [index |-> arena.round, state |-> "running",
                                       entries |-> [i \in 1..Cardinality(selected) |->
                                                      Pending(SetToSeq(selected)[i])]])
          /\ req' = [req EXCEPT ![c] = [op |-> "launch", round |-> Len(rounds) + 1,
                                        index |-> arena.round, entries |-> <<>>,
                                        todo |-> SetToSeq(selected)]]
    /\ UNCHANGED <<head, arena, variant, tree, thread, exps>>

\* One variant's spec is built and dispatched as an experiment of its own.
LaunchVariant(c) ==
    /\ req[c].op = "launch"
    /\ req[c].todo # <<>>
    /\ exps' = Append(exps, [variant |-> Head(req[c].todo), state |-> "running"])
    /\ req' = [req EXCEPT ![c].todo = Tail(@),
                          ![c].entries = Append(@, [variant |-> Head(req[c].todo),
                                           exp |-> Len(exps) + 1, status |-> "running"])]
    /\ UNCHANGED <<head, arena, variant, tree, thread, rounds>>

\* All are launched: the entries go into the round.
RecordEntries(c) ==
    /\ req[c].op = "launch"
    /\ req[c].todo = <<>>
    /\ rounds' = [rounds EXCEPT ![req[c].round].entries = req[c].entries]
    /\ req' = [req EXCEPT ![c] = [op |-> "count", index |-> req[c].index]]
    /\ UNCHANGED <<head, arena, variant, tree, thread, exps>>

\* The arena, read again, counts the round and becomes active.
CountRound(c) ==
    /\ req[c].op = "count"
    /\ arena' = [arena EXCEPT !.round = req[c].index + 1, !.state = "active"]
    /\ req' = [req EXCEPT ![c] = Idle]
    /\ UNCHANGED <<head, variant, tree, thread, rounds, exps>>

\* A child experiment reaches a state it will not leave.
EndExperiment(e) ==
    /\ e \in DOMAIN exps
    /\ exps[e].state = "running"
    /\ \E s \in {"completed", "aborted"} : exps' = [exps EXCEPT ![e].state = s]
    /\ UNCHANGED <<head, arena, variant, tree, thread, rounds, req>>

----------------------------------------------------------------------------
(* refresh_round_status: every look at a round reads it, looks its             *)
(* experiments up and writes it back                                          *)

Refreshed(entries) ==
    [i \in DOMAIN entries |->
        IF entries[i].exp = 0 THEN entries[i]
        ELSE [entries[i] EXCEPT !.status = exps[entries[i].exp].state]]

\* Slip: one finished experiment closes the round.
AllTerminalOnce(entries) ==
    \E i \in DOMAIN entries : entries[i].exp # 0 /\ exps[entries[i].exp].state \in Terminal

AllTerminal(entries) ==
    \A i \in DOMAIN entries : entries[i].exp # 0 /\ exps[entries[i].exp].state \in Terminal

ReadRound(c, r) ==
    /\ "refresh" \in Uses
    /\ req[c] = Idle
    /\ r \in DOMAIN rounds
    /\ req' = [req EXCEPT ![c] = [op |-> "refresh", round |-> r, row |->
          [rounds[r] EXCEPT
              !.entries = Refreshed(@),
              !.state = IF @ = "running" /\ AllTerminal(rounds[r].entries)
                        THEN "completed" ELSE @]]]
    /\ UNCHANGED <<head, arena, variant, tree, thread, rounds, exps>>

\* Slip: the status of the round is not part of what is written back.
WriteRoundEntries(c) ==
    /\ req[c].op = "refresh"
    /\ rounds' = [rounds EXCEPT ![req[c].round].entries = req[c].row.entries]
    /\ req' = [req EXCEPT ![c] = Idle]
    /\ UNCHANGED <<head, arena, variant, tree, thread, exps>>

WriteRound(c) ==
    /\ req[c].op = "refresh"
    /\ rounds' = [rounds EXCEPT ![req[c].round] = req[c].row]
    /\ req' = [req EXCEPT ![c] = Idle]
    /\ UNCHANGED <<head, arena, variant, tree, thread, exps>>

----------------------------------------------------------------------------
(* promote_winner, cleanup_arena, gc_orphaned_worktrees                       *)

PromoteWinner(c) ==
    /\ "promote" \in Uses
    /\ req[c] = Idle
    /\ \E v \in Registered : arena' = [arena EXCEPT !.winner = {v}, !.state = "completed"]
    /\ UNCHANGED <<head, variant, tree, thread, rounds, exps, req>>

ReadArena(c) ==
    /\ "cleanup" \in Uses
    /\ req[c] = Idle
    /\ Registered # {}
    /\ req' = [req EXCEPT ![c] = [op |-> "cleanup", arena |-> arena, rows |-> variant,
                                  todo |-> SetToSeq(Registered)]]
    /\ UNCHANGED <<head, arena, variant, tree, thread, rounds, exps>>

\* The worktree a variant's row names is removed and the row written back,
\* as it was when the variants were listed, as retired.
RetireVariant(c) ==
    /\ req[c].op = "cleanup"
    /\ req[c].todo # <<>>
    /\ LET v == Head(req[c].todo)
           row == req[c].rows[v]
       IN  /\ tree' = [tree EXCEPT ![v] = IF row.path THEN NoTree ELSE @]
           /\ variant' = [variant EXCEPT ![v] = [row EXCEPT !.state = "retired"]]
    /\ req' = [req EXCEPT ![c].todo = Tail(@)]
    /\ UNCHANGED <<head, arena, thread, rounds, exps>>

ArchiveArena(c) ==
    /\ req[c].op = "cleanup"
    /\ req[c].todo = <<>>
    /\ arena' = [req[c].arena EXCEPT !.state = "archived"]
    /\ req' = [req EXCEPT ![c] = Idle]
    /\ UNCHANGED <<head, variant, tree, thread, rounds, exps>>

\* The paths the rows name are gathered first, the directories swept after.
GatherLivePaths(c) ==
    /\ "gc" \in Uses
    /\ req[c] = Idle
    /\ req' = [req EXCEPT ![c] = [op |-> "gc", live |-> {v \in Registered : variant[v].path}]]
    /\ UNCHANGED <<head, arena, variant, tree, thread, rounds, exps>>

SweepWorktrees(c) ==
    /\ req[c].op = "gc"
    /\ tree' = [v \in Variants |-> IF v \in req[c].live THEN tree[v] ELSE NoTree]
    /\ req' = [req EXCEPT ![c] = Idle]
    /\ UNCHANGED <<head, arena, variant, thread, rounds, exps>>

\* A request raises, or its process is killed, between two of its steps.
Die(c) ==
    /\ "die" \in Uses
    /\ req[c] # Idle
    /\ req' = [req EXCEPT ![c] = Idle]
    /\ UNCHANGED <<head, arena, variant, tree, thread, rounds, exps>>

----------------------------------------------------------------------------
Prepare(v) ==
    EnsureWorktree(v) \/ RunSetup(v) \/ MarkSetup(v) \/ FinishPreparing(v)

\* What a client does once it is in a request.
Proceed(c) ==
    \/ PutVariant(c) \/ ExitCommand(c)
    \/ LaunchVariant(c) \/ RecordEntries(c) \/ CountRound(c)
    \/ WriteRound(c)
    \/ RetireVariant(c) \/ ArchiveArena(c)
    \/ SweepWorktrees(c)

Next ==
    \/ MoveRef
    \/ \E v \in Variants : Prepare(v)
    \/ \E e \in DOMAIN exps : EndExperiment(e)
    \/ \E c \in Clients :
          \/ Proceed(c)
          \/ RegisterVariant(c) \/ LaunchRound(c) \/ PromoteWinner(c)
          \/ \E r \in DOMAIN rounds : ReadRound(c, r)
          \/ ReadArena(c) \/ GatherLivePaths(c) \/ Die(c)

\* Requests, threads and experiments that started go on, and whoever waits for
\* a round keeps looking at it.
Fairness ==
    /\ \A v \in Variants : WF_vars(Prepare(v))
    /\ \A c \in Clients : WF_vars(Proceed(c))
    /\ \A e \in 1..(RoundBound * Cardinality(Variants)) : WF_vars(EndExperiment(e))
    /\ \A c \in Clients, r \in 1..RoundBound : SF_vars(ReadRound(c, r))

Spec == Init /\ [][Next]_vars /\ Fairness

----------------------------------------------------------------------------
(* What the arena promises                                                    *)

\* A variant that is ready has a worktree at the commit pinned when it was
\* registered, with its setup done (_prepare_variant; launch_round runs the
\* agent in it), unless it is being retired at this moment.
ReadyIsUsable ==
    \A v \in Registered :
        /\ variant[v].state = "ready"
        /\ \A c \in Clients : req[c].op # "cleanup"
        => /\ tree[v].sha = variant[v].sha
           /\ variant[v].setup => tree[v].setup

\* A closed round has one finished experiment for each variant that was raced
\* in it, however its looks and its launch overlap (refresh_round_status).
ClosedRoundIsOver ==
    \A r \in DOMAIN rounds : rounds[r].state = "completed" =>
        \A i \in DOMAIN rounds[r].entries :
            LET entry == rounds[r].entries[i] IN
            /\ entry.exp # 0
            /\ exps[entry.exp].variant = entry.variant
            /\ entry.status = exps[entry.exp].state /\ entry.status \in Terminal

Launching == {e \in DOMAIN exps : \E c \in Clients :
                 req[c].op = "launch" /\ \E i \in DOMAIN req[c].entries : req[c].entries[i].exp = e}

\* An experiment is in the round it was launched for, and in no other, unless
\* its launch is still going on (launch_round records what it launched).
LaunchedIsRecorded ==
    \A e \in DOMAIN exps \ Launching :
        Cardinality({r \in DOMAIN rounds :
            \E i \in DOMAIN rounds[r].entries : rounds[r].entries[i].exp = e}) = 1

\* The rounds of an arena are numbered one after the other, and neither they
\* nor its variants exceed the budget (ArenaBudget, launch_round,
\* register_variant).
WithinBudget ==
    /\ \A r \in DOMAIN rounds : rounds[r].index = r - 1
    /\ Len(rounds) <= MaxRounds
    /\ Cardinality(Registered) <= MaxVariants

\* Requests do not overlap.
OneClient == \A c, d \in Clients : c = d

\* All of it together, as far as the code keeps it: the row of the round and that
\* of the arena are written back whole, so only callers who wait for each other and
\* finish their requests keep the budget and lose no experiment; a collection may
\* take the directory of a variant that names no path yet (arena/service.py).
RoundsAreSound ==
    /\ ClosedRoundIsOver
    /\ "gc" \notin Uses => ReadyIsUsable
    /\ OneClient /\ "die" \notin Uses => LaunchedIsRecorded /\ WithinBudget

\* A round that was launched is closed after its experiments are over
\* (refresh_round_status).
EveryRoundCloses ==
    \A r \in 1..RoundBound :
        r \in DOMAIN rounds ~> (r \in DOMAIN rounds /\ rounds[r].state = "completed")

\* A registered variant leaves the preparing state (register_variant: it
\* flips to ready or failed once the thread finishes).
EveryVariantSettles ==
    \A v \in Variants : variant[v].state = "preparing" ~> variant[v].state # "preparing"

\* An archived arena that nobody works on any more has no worktree left
\* (cleanup_arena: remove every variant's worktree).
\* The code does not keep it: a variant that is still being prepared names no path, and
\* its thread writes it back as ready.
ArchivedIsClean ==
    /\ arena.state = "archived"
    /\ \A c \in Clients : req[c] = Idle
    /\ \A v \in Variants : thread[v] = "none"
    => \A v \in Variants : tree[v] = NoTree

\* A worktree whose variant is registered is not collected as an orphan
\* (cmd_arena_gc: a worktree still owned by a variant is never touched).
\* The code does not keep it: a variant names its path only once it is ready.
OwnedIsNotCollected ==
    [][\A c \in Clients : SweepWorktrees(c) =>
          \A v \in Registered : tree'[v] = tree[v]]_vars
=============================================================================
