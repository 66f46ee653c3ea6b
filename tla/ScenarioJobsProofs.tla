------------------------- MODULE ScenarioJobsProofs -------------------------
(***************************************************************************)
(* For any number of cases, coordinators and iterations, any batch size    *)
(* and any max_attempts: no case is claimed twice at a time, attempts are  *)
(* bounded, succeeded cases have their outcome, and the tables implement   *)
(* the iteration ledger.  After that what runs within a case: its          *)
(* conversation, its repetitions and the trace of each.                    *)
(***************************************************************************)
EXTENDS ScenarioJobs, FiniteSetTheorems, SequenceTheorems, TLAPS

(* From planning to the end of an iteration all its rows exist.             *)
Planned ==
    \A k \in Coordinators : pc[k] \notin {"idle", "plan"} \cup Ended =>
        \A c \in Cases : status[<<iter[k], c>>] # "absent"

(* Only an open claim holds locks; they are on claimable rows and disjoint. *)
LocksOK ==
    \A k \in Coordinators :
        /\ pc[k] # "commit" => locked[k] = {}
        /\ \A c \in locked[k] :
            /\ status[<<iter[k], c>>] = "pending"
            /\ \A l \in Coordinators \ {k} : iter[l] = iter[k] => c \notin locked[l]

(* Only between claim and finalize does a process hold scenario jobs.       *)
BatchOK ==
    \A k \in Coordinators :
        /\ pc[k] \notin {"build", "case", "finalize", "fail"} =>
              \A c \in Cases : claimed[k][c] = 0
        /\ pc[k] \in {"finalize", "fail"} => current[k] \in Batched(k)
        /\ pc[k] = "finalize" => outcome[<<iter[k], current[k]>>] = claimed[k][current[k]]

(* Past the barrier all rows of the iteration are settled, for good.        *)
BarrierOK ==
    \A k \in Coordinators : pc[k] = "aggregate" =>
        \A c \in Cases : status[<<iter[k], c>>] \in Settled

OutcomesOK == \A s \in Slots : outcome[s] \in 0..MaxAttempts

(* A process has recorded all iterations it has left behind, and none ahead. *)
Authored ==
    \A k \in Coordinators, i \in Iterations :
        /\ i < iter[k] => record[i] = k
        /\ record[i] = k => i <= iter[k]

(* The inductive invariant. *)
IInv ==
    /\ TypeOK
    /\ Planned
    /\ LocksOK
    /\ BatchOK
    /\ BarrierOK
    /\ OutcomesOK
    /\ Authored
    /\ ClaimsAreExclusive
    /\ AttemptsDecide
    /\ SucceededHasOutcome

Labels == {"idle", "plan", "claim", "commit", "build", "case",
           "finalize", "fail", "barrier", "aggregate", "record"} \cup Ended

-----------------------------------------------------------------------------
LEMMA ConstantFacts ==
    /\ MaxAttempts \in Nat /\ MaxAttempts >= 1
    /\ MaxFaults \in Nat
    /\ 0 \in Iterations
    /\ NoCase \notin Cases
BY ConstantsAssumption DEF Iterations

LEMMA InitIInv == Init => IInv
<1> SUFFICES ASSUME Init PROVE IInv
  OBVIOUS
<1>1. TypeOK
  BY ConstantFacts DEF Init, TypeOK, Status
<1>2. Planned /\ LocksOK /\ BatchOK /\ BarrierOK
  BY DEF Init, Planned, LocksOK, BatchOK, BarrierOK
<1>3. OutcomesOK /\ AttemptsDecide /\ SucceededHasOutcome
  BY ConstantFacts DEF Init, OutcomesOK, AttemptsDecide, SucceededHasOutcome
<1>4. ClaimsAreExclusive
  BY DEF Init, ClaimsAreExclusive, Batched
<1>5. Authored
  BY ConstantsAssumption DEF Init, Authored, Iterations
<1>. QED  BY <1>1, <1>2, <1>3, <1>4, <1>5 DEF IInv

LEMMA AuthoredKept ==
    ASSUME IInv, UNCHANGED <<iter, record>>
    PROVE  Authored'
BY DEF IInv, Authored

(* What a process holds, spelled out for one case of its batch.             *)
LEMMA HeldClaim ==
    ASSUME IInv, NEW k \in Coordinators, NEW c \in Batched(k)
    PROVE  /\ c \in Cases /\ <<iter[k], c>> \in Slots
           /\ claimed[k][c] \in 1..MaxAttempts
           /\ status[<<iter[k], c>>] = "claimed"
           /\ attempt[<<iter[k], c>>] = claimed[k][c]
<1>1. c \in Cases /\ <<iter[k], c>> \in Slots /\ claimed[k][c] \in Nat /\ claimed[k][c] > 0
  BY DEF IInv, TypeOK, Batched, Slots
<1>2. status[<<iter[k], c>>] = "claimed" /\ attempt[<<iter[k], c>>] = claimed[k][c]
  BY DEF IInv, ClaimsAreExclusive
<1>3. attempt[<<iter[k], c>>] <= MaxAttempts
  BY <1>1 DEF IInv, AttemptsDecide
<1>. QED  BY <1>1, <1>2, <1>3, ConstantFacts

-----------------------------------------------------------------------------
(* A step that moves one process on and touches no table, lock or batch.    *)
LEMMA MoveStep ==
    ASSUME IInv, NEW k \in Coordinators, NEW l \in Labels, Goto(k, l),
           UNCHANGED <<tables, iter, locked, claimed, report, record, faults>>,
           current' \in [Coordinators -> Cases \cup {NoCase}],
           \A m \in Coordinators \ {k} : current'[m] = current[m],
           pc[k] # "commit",
           l \notin {"idle", "plan"} \cup Ended => In(k, {"absent"}) = {},
           l \notin {"build", "case", "finalize", "fail"} => Batched(k) = {},
           l \in {"finalize", "fail"} => current'[k] \in Batched(k),
           l # "finalize",
           l = "aggregate" => In(k, Settled) = Cases
    PROVE  IInv'
<1> USE DEF tables, Goto
<1>1. TypeOK'
  BY DEF IInv, TypeOK, Labels
<1>2. Planned'
  BY DEF IInv, TypeOK, Planned, In
<1>3. LocksOK'
  BY DEF IInv, TypeOK, LocksOK
<1>4. BatchOK'
  <2>1. \A m \in Coordinators : Batched(m)' = Batched(m)
    BY DEF Batched
  <2>2. Batched(k) = {} => \A c \in Cases : claimed[k][c] = 0
    BY DEF IInv, TypeOK, Batched
  <2>. QED  BY <2>1, <2>2 DEF IInv, TypeOK, BatchOK
<1>5. BarrierOK'
  BY DEF IInv, TypeOK, BarrierOK, In
<1>6. OutcomesOK' /\ AttemptsDecide' /\ SucceededHasOutcome'
  BY DEF IInv, OutcomesOK, AttemptsDecide, SucceededHasOutcome
<1>7. ClaimsAreExclusive'
  BY DEF IInv, ClaimsAreExclusive, Batched
<1>8. Authored'
  BY AuthoredKept
<1>. QED  BY <1>1, <1>2, <1>3, <1>4, <1>5, <1>6, <1>7, <1>8 DEF IInv

LEMMA ControlSteps ==
    ASSUME IInv, NEW k \in Coordinators,
           \/ Start(k) \/ DrainEnds(k) \/ BuildLoop(k) \/ BatchDone(k)
           \/ FinalizeRaises(k) \/ BarrierClears(k) \/ BarrierTimeout(k)
           \/ RecordRefused(k)
           \/ \E c \in Cases : CaseRaises(k, c)
    PROVE  IInv'
<1>0. /\ current \in [Coordinators -> Cases \cup {NoCase}]
      /\ pc[k] \notin {"idle", "plan"} \cup Ended => In(k, {"absent"}) = {}
      /\ pc[k] \notin {"build", "case", "finalize", "fail"} => Batched(k) = {}
      /\ pc[k] \in {"finalize", "fail"} => current[k] \in Batched(k)
  <2>1. current \in [Coordinators -> Cases \cup {NoCase}]
    BY DEF IInv, TypeOK
  <2>2. pc[k] \notin {"idle", "plan"} \cup Ended => In(k, {"absent"}) = {}
    BY DEF IInv, Planned, In
  <2>3. pc[k] \notin {"build", "case", "finalize", "fail"} => Batched(k) = {}
    <3>1. ASSUME pc[k] \notin {"build", "case", "finalize", "fail"}, NEW c \in Cases
          PROVE  ~(claimed[k][c] > 0)
      <4>1. claimed[k][c] = 0
        BY <3>1 DEF IInv, BatchOK
      <4>. QED  BY <4>1
    <3>. QED  BY <3>1 DEF Batched
  <2>4. pc[k] \in {"finalize", "fail"} => current[k] \in Batched(k)
    BY DEF IInv, BatchOK
  <2>. QED  BY <2>1, <2>2, <2>3, <2>4
<1>1. CASE Start(k)
  BY <1>0, <1>1, MoveStep DEF Start, Labels, Ended, tables
<1>2. CASE DrainEnds(k)
  BY <1>0, <1>2, MoveStep DEF DrainEnds, Labels, Ended, tables
<1>3. CASE BuildLoop(k)
  BY <1>0, <1>3, MoveStep DEF BuildLoop, Labels, Ended, tables
<1>4. CASE BatchDone(k)
  BY <1>0, <1>4, MoveStep DEF BatchDone, Labels, Ended, tables
<1>5. CASE FinalizeRaises(k)
  BY <1>0, <1>5, MoveStep DEF FinalizeRaises, Labels, Ended, tables
<1>6. CASE BarrierClears(k)
  <2>1. In(k, Settled) = Cases
    <3>1. \A c \in Cases : status[<<iter[k], c>>] \in Status
      BY DEF IInv, TypeOK, Slots
    <3>2. \A c \in Cases : status[<<iter[k], c>>] \notin {"absent", "pending", "claimed"}
      BY <1>0, <1>6 DEF BarrierClears, InFlight, In, Ended
    <3>. QED  BY <3>1, <3>2 DEF In, Settled, Status
  <2>. QED  BY <1>0, <1>6, <2>1, MoveStep DEF BarrierClears, Labels, Ended, tables
<1>7. CASE BarrierTimeout(k)
  BY <1>0, <1>7, MoveStep DEF BarrierTimeout, Labels, Ended, tables
<1>8. ASSUME NEW c \in Cases, CaseRaises(k, c) PROVE IInv'
  BY <1>0, <1>8, MoveStep DEF CaseRaises, Labels, Ended, tables
<1>9. CASE RecordRefused(k)
  BY <1>0, <1>9, MoveStep DEF RecordRefused, Labels, Ended, tables
<1>. QED  BY <1>1, <1>2, <1>3, <1>4, <1>5, <1>6, <1>7, <1>8, <1>9

LEMMA PlanStep ==
    ASSUME IInv, NEW k \in Coordinators, Plan(k)
    PROVE  IInv'
<1>1. \A s \in Slots :
        /\ status[s] # "absent" => status'[s] = status[s]
        /\ status[s] = "absent" => status'[s] \in {"absent", "pending"}
        /\ s[1] = iter[k] => status'[s] # "absent"
  BY DEF Plan
<1>2. \A m \in Coordinators, c \in Cases :
        <<iter[m], c>> \in Slots /\ <<iter[m], c>>[1] = iter[m]
  BY DEF IInv, TypeOK, Slots
<1>3. TypeOK'
  <2>1. status' \in [Slots -> Status]
    BY DEF IInv, TypeOK, Plan, Status
  <2>. QED  BY <2>1 DEF IInv, TypeOK, Plan, Goto
<1>4. Planned'
  BY <1>1, <1>2 DEF IInv, TypeOK, Planned, Plan, Goto
<1>5. LocksOK'
  <2>1. \A m \in Coordinators : \A c \in locked[m] : status[<<iter[m], c>>] = "pending"
                                                   /\ <<iter[m], c>> \in Slots
    BY <1>2 DEF IInv, TypeOK, LocksOK
  <2>2. \A m \in Coordinators : \A c \in locked[m] : status'[<<iter[m], c>>] = "pending"
    BY <1>1, <2>1
  <2>. QED  BY <2>2 DEF IInv, TypeOK, LocksOK, Plan, Goto
<1>6. BatchOK'
  BY DEF IInv, TypeOK, BatchOK, Batched, Plan, Goto
<1>7. BarrierOK'
  BY <1>1, <1>2 DEF IInv, TypeOK, BarrierOK, Plan, Goto, Settled
<1>8. OutcomesOK'
  BY DEF IInv, OutcomesOK, Plan
<1>9. AttemptsDecide'
  <2>1. ASSUME NEW s \in Slots
        PROVE  /\ attempt'[s] = attempt[s] /\ attempt[s] \in Nat /\ attempt[s] <= MaxAttempts
               /\ status'[s] = "absent" => attempt[s] = 0
               /\ status'[s] = "pending" => attempt[s] < MaxAttempts
               /\ status'[s] = "dead_lettered" => attempt[s] = MaxAttempts
    <3>1. attempt'[s] = attempt[s] /\ attempt[s] \in Nat /\ attempt[s] <= MaxAttempts
      BY DEF IInv, TypeOK, AttemptsDecide, Plan
    <3>2. status[s] # "absent" => status'[s] = status[s]
      BY <1>1
    <3>3. status[s] = "absent" => attempt[s] = 0 /\ status'[s] \in {"absent", "pending"}
      BY <1>1 DEF IInv, AttemptsDecide
    <3>4. CASE status[s] = "absent"
      <4>1. attempt[s] < MaxAttempts
        BY <3>3, <3>4, ConstantFacts
      <4>. QED  BY <3>1, <3>3, <3>4, <4>1
    <3>5. CASE status[s] # "absent"
      BY <3>1, <3>2, <3>5 DEF IInv, AttemptsDecide
    <3>. QED  BY <3>4, <3>5
  <2>. QED  BY <2>1 DEF AttemptsDecide
<1>10. SucceededHasOutcome'
  BY <1>1 DEF IInv, SucceededHasOutcome, Plan
<1>11. ClaimsAreExclusive'
  <2>1. \A m \in Coordinators : \A c \in Batched(m) : status'[<<iter[m], c>>] = status[<<iter[m], c>>]
    BY <1>1, HeldClaim
  <2>. QED  BY <2>1 DEF IInv, ClaimsAreExclusive, Batched, Plan
<1>12. Authored'
  BY AuthoredKept DEF Plan
<1>. QED  BY <1>3, <1>4, <1>5, <1>6, <1>7, <1>8, <1>9, <1>10, <1>11, <1>12 DEF IInv

LEMMA ClaimSelectStep ==
    ASSUME IInv, NEW k \in Coordinators, ClaimSelect(k)
    PROVE  IInv'
<1>1. PICK S \in SUBSET (In(k, {"pending"}) \ LockedByOthers(k)) :
        locked' = [locked EXCEPT ![k] = S] /\ Goto(k, "commit")
  BY DEF ClaimSelect
<1>2. \A c \in S : c \in Cases /\ status[<<iter[k], c>>] = "pending"
  BY DEF In
<1>3. \A c \in S : \A m \in Coordinators \ {k} : iter[m] = iter[k] => c \notin locked[m]
  BY DEF LockedByOthers
<1>4. TypeOK'
  BY <1>1, <1>2 DEF IInv, TypeOK, ClaimSelect, Goto, tables
<1>5. Planned'
  BY <1>1 DEF IInv, TypeOK, Planned, ClaimSelect, Goto, tables, Ended
<1>6. LocksOK'
  BY <1>1, <1>2, <1>3 DEF IInv, TypeOK, LocksOK, ClaimSelect, Goto, tables
<1>7. BatchOK' /\ BarrierOK'
  BY <1>1 DEF IInv, TypeOK, BatchOK, Batched, BarrierOK, ClaimSelect, Goto, tables
<1>8. OutcomesOK' /\ AttemptsDecide' /\ SucceededHasOutcome'
  BY DEF IInv, OutcomesOK, AttemptsDecide, SucceededHasOutcome, ClaimSelect, tables
<1>9. ClaimsAreExclusive'
  <2>1. \A m \in Coordinators : \A c \in Batched(m) : iter[m] = iter[k] => c \notin S
    BY <1>2, HeldClaim
  <2>. QED  BY <1>1, <2>1 DEF IInv, TypeOK, ClaimsAreExclusive, Batched, ClaimSelect, tables
<1>10. Authored'
  BY AuthoredKept DEF ClaimSelect
<1>. QED  BY <1>4, <1>5, <1>6, <1>7, <1>8, <1>9, <1>10 DEF IInv

LEMMA ClaimCommitStep ==
    ASSUME IInv, NEW k \in Coordinators, ClaimCommit(k)
    PROVE  IInv'
<1>1. \A m \in Coordinators, c \in Cases :
        <<iter[m], c>> \in Slots /\ <<iter[m], c>>[1] = iter[m] /\ <<iter[m], c>>[2] = c
  BY DEF IInv, TypeOK, Slots
<1>2. \A s \in Slots :
        /\ status'[s] = IF s[1] = iter[k] /\ s[2] \in locked[k] THEN "claimed" ELSE status[s]
        /\ attempt'[s] = IF s[1] = iter[k] /\ s[2] \in locked[k] THEN attempt[s] + 1 ELSE attempt[s]
  BY DEF ClaimCommit
<1>3. \A s \in Slots : s[1] = iter[k] /\ s[2] \in locked[k] =>
        status[s] = "pending" /\ attempt[s] \in Nat /\ attempt[s] < MaxAttempts
  <2>1. \A s \in Slots : s = <<s[1], s[2]>>
    BY DEF Slots
  <2>2. \A s \in Slots : s[1] = iter[k] /\ s[2] \in locked[k] => status[s] = "pending"
    BY <2>1 DEF IInv, LocksOK
  <2>. QED  BY <2>2 DEF IInv, TypeOK, AttemptsDecide
<1>4. \A c \in locked[k] :
        /\ c \in Cases /\ <<iter[k], c>> \in Slots
        /\ status[<<iter[k], c>>] = "pending" /\ attempt[<<iter[k], c>>] \in Nat
        /\ status'[<<iter[k], c>>] = "claimed"
        /\ attempt'[<<iter[k], c>>] = attempt[<<iter[k], c>>] + 1
  <2>1. \A c \in locked[k] : c \in Cases /\ <<iter[k], c>> \in Slots
    BY <1>1 DEF IInv, TypeOK
  <2>2. \A c \in locked[k] : /\ status'[<<iter[k], c>>] = "claimed"
                             /\ attempt'[<<iter[k], c>>] = attempt[<<iter[k], c>>] + 1
    BY <1>1, <1>2, <2>1
  <2>3. \A c \in locked[k] : status[<<iter[k], c>>] = "pending" /\ attempt[<<iter[k], c>>] \in Nat
    BY <1>1, <1>3, <2>1
  <2>. QED  BY <2>1, <2>2, <2>3
<1>4a. \A s \in Slots :
        \/ status'[s] = status[s] /\ attempt'[s] = attempt[s]
        \/ /\ status[s] = "pending" /\ attempt[s] \in Nat /\ attempt[s] < MaxAttempts
           /\ status'[s] = "claimed" /\ attempt'[s] = attempt[s] + 1
  BY <1>2, <1>3
<1>5. /\ \A c \in Cases : claimed'[k][c] =
              IF c \in locked[k] THEN attempt[<<iter[k], c>>] + 1 ELSE 0
      /\ \A m \in Coordinators \ {k} : claimed'[m] = claimed[m]
      /\ DOMAIN claimed' = Coordinators
      /\ claimed' = [claimed EXCEPT ![k] = claimed'[k]]
  BY DEF IInv, TypeOK, ClaimCommit
<1>6. /\ Batched(k)' = locked[k]
      /\ \A m \in Coordinators \ {k} : Batched(m)' = Batched(m)
  <2>1. ASSUME NEW c \in Cases PROVE c \in locked[k] <=> claimed'[k][c] > 0
    <3>1. CASE c \in locked[k]
      <4>1. claimed'[k][c] = attempt[<<iter[k], c>>] + 1 /\ attempt[<<iter[k], c>>] \in Nat
        BY <1>4, <1>5, <3>1
      <4>. QED  BY <3>1, <4>1
    <3>2. CASE c \notin locked[k]
      <4>1. claimed'[k][c] = 0
        BY <1>5, <3>2
      <4>. QED  BY <3>2, <4>1
    <3>. QED  BY <3>1, <3>2
  <2>2. locked[k] \subseteq Cases
    BY <1>4
  <2>3. Batched(k)' = {c \in Cases : claimed'[k][c] > 0}
    BY DEF Batched
  <2>4. Batched(k)' = locked[k]
    BY <2>1, <2>2, <2>3
  <2>5. \A m \in Coordinators \ {k} : Batched(m)' = Batched(m)
    BY <1>5 DEF Batched
  <2>. QED  BY <2>4, <2>5
<1>7. TypeOK'
  <2>1. status' \in [Slots -> Status] /\ attempt' \in [Slots -> Nat]
    BY DEF IInv, TypeOK, ClaimCommit, Status
  <2>2. claimed' \in [Coordinators -> [Cases -> Nat]]
    <3>1. claimed'[k] \in [Cases -> Nat]
      BY <1>1, <1>4, <2>1 DEF IInv, TypeOK, ClaimCommit
    <3>. QED  BY <1>5, <3>1 DEF IInv, TypeOK
  <2>3. locked' \in [Coordinators -> SUBSET Cases]
    BY DEF IInv, TypeOK, ClaimCommit
  <2>. QED  BY <2>1, <2>2, <2>3 DEF IInv, TypeOK, ClaimCommit, Goto
<1>8. Planned'
  <2>1. \A s \in Slots : status[s] # "absent" => status'[s] # "absent"
    BY <1>4a
  <2>. QED  BY <1>1, <2>1 DEF IInv, TypeOK, Planned, ClaimCommit, Goto, Ended
<1>9. LocksOK'
  <2>1. \A m \in Coordinators \ {k} : \A c \in locked[m] :
          status'[<<iter[m], c>>] = status[<<iter[m], c>>]
    BY <1>1, <1>2 DEF IInv, TypeOK, LocksOK
  <2>2. locked' = [locked EXCEPT ![k] = {}] /\ iter' = iter
    BY DEF ClaimCommit
  <2>3. \A m \in Coordinators : locked'[m] = IF m = k THEN {} ELSE locked[m]
    BY <2>2 DEF IInv, TypeOK
  <2>4. \A m \in Coordinators : pc'[m] = "commit" => pc[m] = "commit"
    BY DEF IInv, TypeOK, ClaimCommit, Goto
  <2>5. \A m \in Coordinators : pc'[m] # "commit" => locked'[m] = {}
    BY <2>3, <2>4 DEF IInv, TypeOK, LocksOK, ClaimCommit, Goto
  <2>. QED  BY <2>1, <2>2, <2>3, <2>5 DEF IInv, LocksOK
<1>10. BatchOK'
  BY <1>5, <1>6 DEF IInv, TypeOK, BatchOK, ClaimCommit, Goto
<1>11. BarrierOK'
  <2>1. \A s \in Slots : status[s] \in Settled => status'[s] = status[s]
    BY <1>4a DEF Settled
  <2>. QED  BY <1>1, <2>1 DEF IInv, TypeOK, BarrierOK, ClaimCommit, Goto
<1>12. OutcomesOK'
  BY DEF IInv, OutcomesOK, ClaimCommit
<1>13. AttemptsDecide'
  BY <1>4a, ConstantFacts DEF IInv, AttemptsDecide
<1>14. SucceededHasOutcome'
  BY <1>4a DEF IInv, SucceededHasOutcome, ClaimCommit
<1>15. ClaimsAreExclusive'
  <2>1. locked' = [locked EXCEPT ![k] = {}] /\ iter' = iter
    BY DEF ClaimCommit
  <2>2. \A c \in locked[k] :
          status'[<<iter[k], c>>] = "claimed" /\ attempt'[<<iter[k], c>>] = claimed'[k][c]
    BY <1>4, <1>5
  <2>3. \A m \in Coordinators \ {k} : \A c \in Batched(m) :
          /\ status'[<<iter[m], c>>] = status[<<iter[m], c>>]
          /\ attempt'[<<iter[m], c>>] = attempt[<<iter[m], c>>]
          /\ (iter[m] = iter[k] => c \notin locked[k])
    BY <1>1, <1>2, <1>4, HeldClaim
  <2>4. \A c \in locked[k], m \in Coordinators \ {k} :
          iter[m] = iter[k] => c \notin locked[m] /\ c \notin Batched(m)
    BY <2>3 DEF IInv, LocksOK
  <2>5. \A m \in Coordinators \ {k} : \A c \in Batched(m) :
          /\ status'[<<iter[m], c>>] = "claimed" /\ attempt'[<<iter[m], c>>] = claimed'[m][c]
          /\ \A l \in Coordinators \ {m} : iter[l] = iter[m] => c \notin locked[l] /\ c \notin Batched(l)
    BY <1>5, <2>3 DEF IInv, ClaimsAreExclusive
  <2>6. \A m \in Coordinators : locked'[m] = IF m = k THEN {} ELSE locked[m]
    BY <2>1 DEF IInv, TypeOK
  <2>7. \A m \in Coordinators : Batched(m)' = IF m = k THEN locked[k] ELSE Batched(m)
    BY <1>6
  <2>8. ASSUME NEW m \in Coordinators, NEW c \in Batched(m)'
        PROVE  /\ status'[<<iter'[m], c>>] = "claimed" /\ attempt'[<<iter'[m], c>>] = claimed'[m][c]
               /\ \A l \in Coordinators \ {m} : iter'[l] = iter'[m] => c \notin Batched(l)' \cup locked'[l]
    <3>1. CASE m = k
      BY <2>1, <2>2, <2>4, <2>6, <2>7, <2>8, <3>1
    <3>2. CASE m # k
      BY <2>1, <2>3, <2>5, <2>6, <2>7, <2>8, <3>2
    <3>. QED  BY <3>1, <3>2
  <2>. QED  BY <2>8 DEF ClaimsAreExclusive
<1>16. Authored'
  BY AuthoredKept DEF ClaimCommit
<1>. QED  BY <1>7, <1>8, <1>9, <1>10, <1>11, <1>12, <1>13, <1>14, <1>15, <1>16 DEF IInv

LEMMA RunCaseStep ==
    ASSUME IInv, NEW k \in Coordinators, NEW c \in Cases, RunCase(k, c)
    PROVE  IInv'
<1> DEFINE x == <<iter[k], c>>
<1>1. /\ pc[k] = "case" /\ c \in Batched(k)
      /\ outcome' = [outcome EXCEPT ![x] = claimed[k][c]]
      /\ current' = [current EXCEPT ![k] = c] /\ pc' = [pc EXCEPT ![k] = "finalize"]
      /\ UNCHANGED <<status, attempt, iter, locked, claimed, report, record, faults>>
  BY DEF RunCase, Goto
<1>2. x \in Slots /\ claimed[k][c] \in 1..MaxAttempts /\ claimed[k][c] \in Nat /\ status[x] = "claimed"
  BY <1>1, HeldClaim, ConstantFacts
<1> HIDE DEF x
<1>3. TypeOK'
  BY <1>1, <1>2 DEF IInv, TypeOK
<1>4. Planned'
  BY <1>1 DEF IInv, TypeOK, Planned, Ended
<1>5. LocksOK' /\ BarrierOK'
  BY <1>1 DEF IInv, TypeOK, LocksOK, BarrierOK
<1>6. ClaimsAreExclusive' /\ AttemptsDecide'
  BY <1>1 DEF IInv, ClaimsAreExclusive, Batched, AttemptsDecide
<1>7. OutcomesOK'
  BY <1>1, <1>2 DEF IInv, TypeOK, OutcomesOK
<1>8. SucceededHasOutcome'
  BY <1>1, <1>2 DEF IInv, TypeOK, SucceededHasOutcome
<1>9. BatchOK'
  <2>1. \A m \in Coordinators : Batched(m)' = Batched(m)
    BY <1>1 DEF Batched
  <2>2. outcome'[<<iter[k], c>>] = claimed[k][c] /\ current'[k] = c /\ pc'[k] = "finalize"
    BY <1>1, <1>2 DEF IInv, TypeOK, x
  <2>3. \A m \in Coordinators \ {k} : pc[m] = "finalize" => <<iter[m], current[m]>> # x
    <3>1. ASSUME NEW m \in Coordinators \ {k}, pc[m] = "finalize", <<iter[m], current[m]>> = x
          PROVE  FALSE
      <4>1. current[m] \in Batched(m) /\ current[m] = c /\ iter[m] = iter[k]
        BY <3>1 DEF IInv, BatchOK, x
      <4>. QED  BY <1>1, <4>1 DEF IInv, ClaimsAreExclusive
    <3>. QED  BY <3>1
  <2>4. ASSUME NEW m \in Coordinators \ {k}, pc[m] = "finalize"
        PROVE  outcome'[<<iter[m], current[m]>>] = claimed[m][current[m]]
    <3>1. <<iter[m], current[m]>> \in Slots
      BY <2>4, HeldClaim DEF IInv, BatchOK
    <3>2. outcome'[<<iter[m], current[m]>>] = outcome[<<iter[m], current[m]>>]
      BY <1>1, <2>3, <2>4, <3>1 DEF IInv, TypeOK
    <3>. QED  BY <2>4, <3>2 DEF IInv, BatchOK
  <2>5. \A m \in Coordinators \ {k} : pc'[m] = pc[m] /\ current'[m] = current[m]
    BY <1>1 DEF IInv, TypeOK
  <2>. QED  BY <1>1, <2>1, <2>2, <2>4, <2>5 DEF IInv, BatchOK
<1>10. Authored'
  BY AuthoredKept DEF RunCase
<1>. QED  BY <1>3, <1>4, <1>5, <1>6, <1>7, <1>8, <1>9, <1>10 DEF IInv

(* A finalize writes the row of the claim it ends, whatever it turns it into. *)
LEMMA FinalizeStep ==
    ASSUME IInv, NEW k \in Coordinators, NEW to \in {"pending", "succeeded", "dead_lettered"},
           pc[k] \in {"finalize", "fail"}, Finalize(k, to),
           to = "succeeded" => pc[k] = "finalize",
           to = "pending" => claimed[k][current[k]] < MaxAttempts,
           to = "dead_lettered" => claimed[k][current[k]] = MaxAttempts
    PROVE  IInv'
<1> DEFINE d == current[k]
           x == <<iter[k], d>>
<1>1. /\ d \in Cases /\ d \in Batched(k) /\ x \in Slots
      /\ status[x] = "claimed" /\ attempt[x] = claimed[k][d]
  <2>1. d \in Batched(k)
    BY DEF IInv, BatchOK
  <2>. QED  BY <2>1, HeldClaim
<1>2. /\ status' = [status EXCEPT ![x] = to]
      /\ claimed' = [claimed EXCEPT ![k][d] = 0]
      /\ current' = [current EXCEPT ![k] = NoCase] /\ pc' = [pc EXCEPT ![k] = "case"]
      /\ UNCHANGED <<attempt, outcome, iter, locked, report, record, faults>>
  BY DEF Finalize, Goto
<1>3. \A s \in Slots : status'[s] = IF s = x THEN to ELSE status[s]
  BY <1>2 DEF IInv, TypeOK
<1>4. \A m \in Coordinators : \A c \in Cases : <<iter[m], c>> \in Slots
  BY DEF IInv, TypeOK, Slots
<1>5. \A m \in Coordinators, c \in Cases :
        claimed'[m][c] = IF m = k /\ c = d THEN 0 ELSE claimed[m][c]
  BY <1>1, <1>2 DEF IInv, TypeOK
<1>6. \A m \in Coordinators : Batched(m)' = IF m = k THEN Batched(m) \ {d} ELSE Batched(m)
  <2>1. ASSUME NEW m \in Coordinators, NEW c \in Cases
        PROVE  claimed'[m][c] > 0 <=> claimed[m][c] > 0 /\ ~(m = k /\ c = d)
    <3>1. CASE m = k /\ c = d
      <4>1. claimed'[m][c] = 0
        BY <1>5, <3>1
      <4>. QED  BY <3>1, <4>1
    <3>2. CASE ~(m = k /\ c = d)
      BY <1>5, <3>2
    <3>. QED  BY <3>1, <3>2
  <2>. QED  BY <2>1 DEF Batched
<1>7. x = <<iter[k], d>>
  OBVIOUS
<1>8. ASSUME NEW m \in Coordinators, NEW c \in Cases, m # k, iter[m] = iter[k], c = d
      PROVE  c \notin Batched(m) \cup locked[m]
  BY <1>1, <1>8 DEF IInv, ClaimsAreExclusive
<1> HIDE DEF x, d
<1>9. TypeOK'
  BY <1>1, <1>2 DEF IInv, TypeOK, Status
<1>10. Planned'
  BY <1>2, <1>3, <1>4 DEF IInv, TypeOK, Planned, Ended
<1>11. LocksOK'
  <2>1. \A m \in Coordinators : \A c \in locked[m] : <<iter[m], c>> \in Slots /\ <<iter[m], c>> # x
    BY <1>1, <1>4 DEF IInv, TypeOK, LocksOK
  <2>2. \A m \in Coordinators : \A c \in locked[m] : status'[<<iter[m], c>>] = status[<<iter[m], c>>]
    BY <1>3, <2>1
  <2>. QED  BY <1>2, <2>2 DEF IInv, TypeOK, LocksOK
<1>12. BatchOK'
  <2>1. \A m \in Coordinators \ {k} :
          /\ pc'[m] = pc[m] /\ current'[m] = current[m]
          /\ Batched(m)' = Batched(m) /\ claimed'[m] = claimed[m]
    BY <1>2, <1>6 DEF IInv, TypeOK
  <2>2. pc'[k] = "case"
    BY <1>2 DEF IInv, TypeOK
  <2>. QED  BY <1>2, <2>1, <2>2 DEF IInv, BatchOK
<1>13. BarrierOK'
  <2>1. \A s \in Slots : status[s] \in Settled => status'[s] = status[s]
    BY <1>1, <1>3 DEF Settled
  <2>. QED  BY <1>2, <1>4, <2>1 DEF IInv, TypeOK, BarrierOK
<1>14. OutcomesOK'
  BY <1>2 DEF IInv, OutcomesOK
<1>15. AttemptsDecide'
  <2>1. ASSUME NEW s \in Slots, s # x
        PROVE  status'[s] = status[s] /\ attempt'[s] = attempt[s]
    BY <1>2, <1>3, <2>1
  <2>2. /\ status'[x] = to /\ attempt'[x] = attempt[x] /\ attempt[x] <= MaxAttempts
        /\ to = "pending" => attempt[x] < MaxAttempts
        /\ to = "dead_lettered" => attempt[x] = MaxAttempts
    BY <1>1, <1>2, <1>3 DEF IInv, AttemptsDecide, d
  <2>. QED  BY <2>1, <2>2 DEF IInv, AttemptsDecide
<1>16. SucceededHasOutcome'
  <2>1. to = "succeeded" => outcome[x] = attempt[x]
    BY <1>1 DEF IInv, BatchOK, x, d
  <2>. QED  BY <1>2, <1>3, <2>1 DEF IInv, SucceededHasOutcome
<1>17. ClaimsAreExclusive'
  <2>1. ASSUME NEW m \in Coordinators, NEW c \in Batched(m)'
        PROVE  /\ status'[<<iter'[m], c>>] = "claimed" /\ attempt'[<<iter'[m], c>>] = claimed'[m][c]
               /\ \A l \in Coordinators \ {m} : iter'[l] = iter'[m] => c \notin Batched(l)' \cup locked'[l]
    <3>1. c \in Batched(m) /\ c \in Cases /\ ~(m = k /\ c = d)
      BY <1>6 DEF Batched
    <3>2. <<iter[m], c>> # x
      BY <1>7, <1>8, <3>1
    <3>3. status'[<<iter[m], c>>] = status[<<iter[m], c>>]
      BY <1>3, <1>4, <3>1, <3>2
    <3>4. claimed'[m][c] = claimed[m][c]
      BY <1>5, <3>1
    <3>5. \A l \in Coordinators : Batched(l)' \subseteq Batched(l)
      BY <1>6
    <3>. QED  BY <1>2, <3>1, <3>3, <3>4, <3>5 DEF IInv, ClaimsAreExclusive
  <2>. QED  BY <2>1 DEF ClaimsAreExclusive
<1>18. Authored'
  BY AuthoredKept DEF Finalize
<1>. QED  BY <1>9, <1>10, <1>11, <1>12, <1>13, <1>14, <1>15, <1>16, <1>17, <1>18 DEF IInv

LEMMA FinalizeSteps ==
    ASSUME IInv, NEW k \in Coordinators, FinalizeSucceeded(k) \/ FinalizeFailed(k)
    PROVE  IInv'
<1>1. CASE FinalizeSucceeded(k)
  BY <1>1, FinalizeStep DEF FinalizeSucceeded
<1>2. CASE FinalizeFailed(k)
  <2> DEFINE n == claimed[k][current[k]]
             to == MarkFailedOrDeadLettered(n)
  <2>1. pc[k] = "fail" /\ Finalize(k, to)
    BY <1>2 DEF FinalizeFailed
  <2>2. n \in 1..MaxAttempts
    BY <2>1, HeldClaim DEF IInv, BatchOK
  <2>3. /\ to \in {"pending", "dead_lettered"}
        /\ to = "pending" => n < MaxAttempts
        /\ to = "dead_lettered" => n = MaxAttempts
    BY <2>2, ConstantFacts DEF MarkFailedOrDeadLettered
  <2>. QED  BY <2>1, <2>3, FinalizeStep
<1>. QED  BY <1>1, <1>2

LEMMA AggregateStep ==
    ASSUME IInv, NEW k \in Coordinators, Aggregate(k)
    PROVE  IInv'
<1>1. /\ pc[k] = "aggregate" /\ pc' = [pc EXCEPT ![k] = "record"]
      /\ UNCHANGED <<status, attempt, outcome, iter, locked, claimed, current, record, faults>>
  BY DEF Aggregate, Goto, tables
<1>2. pc'[k] = "record" /\ \A m \in Coordinators \ {k} : pc'[m] = pc[m]
  BY <1>1 DEF IInv, TypeOK
<1>3. \A m \in Coordinators : Batched(m)' = Batched(m)
  BY <1>1 DEF Batched
<1>4. TypeOK'
  <2>1. report' \in [Coordinators \X Iterations -> [Cases -> Nat] \cup {NoReport}]
    <3>1. [c \in Cases |-> outcome[<<iter[k], c>>]] \in [Cases -> Nat]
      BY DEF IInv, TypeOK, Slots
    <3>. QED  BY <3>1 DEF IInv, TypeOK, Aggregate
  <2>. QED  BY <1>1, <2>1 DEF IInv, TypeOK
<1>5. Planned' /\ BarrierOK' /\ LocksOK' /\ BatchOK'
  BY <1>1, <1>2, <1>3 DEF IInv, Planned, BarrierOK, LocksOK, BatchOK, Ended
<1>6. OutcomesOK' /\ AttemptsDecide' /\ SucceededHasOutcome' /\ Authored'
  BY <1>1 DEF IInv, OutcomesOK, AttemptsDecide, SucceededHasOutcome, Authored
<1>7. ClaimsAreExclusive'
  BY <1>1, <1>3 DEF IInv, ClaimsAreExclusive
<1>. QED  BY <1>4, <1>5, <1>6, <1>7 DEF IInv

LEMMA RecordStep ==
    ASSUME IInv, NEW k \in Coordinators, Record(k)
    PROVE  IInv'
<1>1. /\ pc[k] = "record"
      /\ \/ iter'[k] \in Iterations /\ pc'[k] = "plan"
         \/ iter'[k] = iter[k] /\ pc'[k] = "done"
      /\ iter' = [iter EXCEPT ![k] = iter'[k]] /\ pc' = [pc EXCEPT ![k] = pc'[k]]
      /\ UNCHANGED <<status, attempt, outcome, locked, claimed, current, report, faults>>
      /\ record[iter[k]] = NoReport /\ record' = [record EXCEPT ![iter[k]] = k]
      /\ iter'[k] \in {iter[k], iter[k] + 1}
  BY DEF IInv, TypeOK, Record, Goto, tables
<1>2. \A m \in Coordinators \ {k} : iter'[m] = iter[m] /\ pc'[m] = pc[m]
  BY <1>1 DEF IInv, TypeOK
<1>3. \A m \in Coordinators : Batched(m)' = Batched(m)
  BY <1>1 DEF Batched
<1>4. locked[k] = {} /\ \A c \in Cases : claimed[k][c] = 0
  BY <1>1 DEF IInv, LocksOK, BatchOK
<1>5. Batched(k) = {}
  <2>1. ASSUME NEW c \in Cases PROVE ~(claimed[k][c] > 0)
    <3>1. claimed[k][c] = 0
      BY <1>4
    <3>. QED  BY <3>1
  <2>. QED  BY <2>1 DEF Batched
<1>6. TypeOK'
  <2>1. record' \in [Iterations -> Coordinators \cup {NoReport}]
    BY <1>1 DEF IInv, TypeOK
  <2>2. iter' \in [Coordinators -> Iterations]
    BY <1>1 DEF IInv, TypeOK
  <2>3. pc' \in [Coordinators -> Labels]
    BY <1>1 DEF IInv, TypeOK, Labels, Ended
  <2>. QED  BY <1>1, <2>1, <2>2, <2>3 DEF IInv, TypeOK, Labels
<1>7. Planned' /\ BarrierOK'
  BY <1>1, <1>2 DEF IInv, Planned, BarrierOK, Ended
<1>8. LocksOK'
  BY <1>1, <1>2, <1>4 DEF IInv, LocksOK
<1>9. BatchOK'
  BY <1>1, <1>2, <1>3, <1>4 DEF IInv, BatchOK
<1>10. OutcomesOK' /\ AttemptsDecide' /\ SucceededHasOutcome'
  BY <1>1 DEF IInv, OutcomesOK, AttemptsDecide, SucceededHasOutcome
<1>11. ClaimsAreExclusive'
  BY <1>1, <1>2, <1>3, <1>4, <1>5 DEF IInv, ClaimsAreExclusive
<1>12. Authored'
  <2>1. \A m \in Coordinators : iter[m] \in Iterations /\ iter'[m] \in Iterations
    BY <1>1, <1>2 DEF IInv, TypeOK
  <2>2. \A i \in Iterations : record'[i] = IF i = iter[k] THEN k ELSE record[i]
    BY <1>1 DEF IInv, TypeOK
  <2>3. \A i \in Iterations : i < iter'[k] => i < iter[k] \/ i = iter[k]
    BY <1>1, <2>1 DEF Iterations
  <2>4. iter[k] <= iter'[k]
    BY <1>1, <2>1 DEF Iterations
  <2>5. ASSUME NEW m \in Coordinators, NEW i \in Iterations
        PROVE  (i < iter'[m] => record'[i] = m) /\ (record'[i] = m => i <= iter'[m])
    <3>1. CASE m = k
      <4>1. i < iter'[m] => record'[i] = m
        BY <2>2, <2>3, <3>1 DEF IInv, Authored
      <4>2. record'[i] = m => i <= iter[m]
        BY <2>1, <2>2, <3>1 DEF IInv, Authored, Iterations
      <4>. QED  BY <2>1, <2>4, <3>1, <4>1, <4>2 DEF Iterations
    <3>2. CASE m # k
      BY <1>1, <1>2, <2>1, <2>2, <3>2, ConstantsAssumption DEF IInv, Authored
    <3>. QED  BY <3>1, <3>2
  <2>. QED  BY <2>5 DEF Authored
<1>. QED  BY <1>6, <1>7, <1>8, <1>9, <1>10, <1>11, <1>12 DEF IInv

LEMMA LeaveStep ==
    ASSUME IInv, NEW k \in Coordinators, NEW label \in Ended, Leave(k, label)
    PROVE  IInv'
<1>1. /\ pc' = [pc EXCEPT ![k] = label]
      /\ locked' = [locked EXCEPT ![k] = {}]
      /\ claimed' = [claimed EXCEPT ![k] = [c \in Cases |-> 0]]
      /\ current' = [current EXCEPT ![k] = NoCase]
      /\ UNCHANGED <<status, attempt, outcome, iter, report, record>>
  BY DEF Leave, Goto, tables
<1>2. \A m \in Coordinators \ {k} :
        /\ pc'[m] = pc[m] /\ locked'[m] = locked[m] /\ current'[m] = current[m]
        /\ claimed'[m] = claimed[m] /\ Batched(m)' = Batched(m)
  BY <1>1 DEF IInv, TypeOK, Batched
<1>3. /\ pc'[k] = label /\ locked'[k] = {} /\ \A c \in Cases : claimed'[k][c] = 0
  BY <1>1 DEF IInv, TypeOK
<1>4. Batched(k)' = {}
  <2>1. ASSUME NEW c \in Cases PROVE ~(claimed'[k][c] > 0)
    <3>1. claimed'[k][c] = 0
      BY <1>3
    <3>. QED  BY <3>1
  <2>. QED  BY <2>1 DEF Batched
<1>5. TypeOK'
  BY <1>1, ConstantFacts DEF IInv, TypeOK, Leave
<1>6. Planned' /\ BarrierOK'
  BY <1>1, <1>2, <1>3 DEF IInv, Planned, BarrierOK, Ended
<1>7. LocksOK'
  BY <1>1, <1>2, <1>3 DEF IInv, LocksOK
<1>8. BatchOK'
  BY <1>1, <1>2, <1>3 DEF IInv, BatchOK, Ended
<1>9. OutcomesOK' /\ AttemptsDecide' /\ SucceededHasOutcome'
  BY <1>1 DEF IInv, OutcomesOK, AttemptsDecide, SucceededHasOutcome
<1>10. ClaimsAreExclusive'
  BY <1>1, <1>2, <1>3, <1>4 DEF IInv, ClaimsAreExclusive
<1>11. Authored'
  BY AuthoredKept DEF Leave
<1>. QED  BY <1>5, <1>6, <1>7, <1>8, <1>9, <1>10, <1>11 DEF IInv

LEMMA StutterStep ==
    ASSUME IInv, UNCHANGED vars
    PROVE  IInv'
<1> USE DEF vars, tables
<1>1. TypeOK' /\ Planned' /\ LocksOK' /\ BarrierOK'
  BY DEF IInv, TypeOK, Planned, LocksOK, BarrierOK
<1>2. BatchOK' /\ ClaimsAreExclusive'
  BY DEF IInv, BatchOK, ClaimsAreExclusive, Batched
<1>3. OutcomesOK' /\ AttemptsDecide' /\ SucceededHasOutcome'
  BY DEF IInv, OutcomesOK, AttemptsDecide, SucceededHasOutcome
<1>4. Authored'
  BY AuthoredKept
<1>. QED  BY <1>1, <1>2, <1>3, <1>4 DEF IInv

LEMMA NextIInv == IInv /\ [Next]_vars => IInv'
<1> SUFFICES ASSUME IInv, [Next]_vars PROVE IInv'
  OBVIOUS
<1>1. ASSUME NEW k \in Coordinators, Work(k) PROVE IInv'
  BY <1>1, ControlSteps, PlanStep, ClaimSelectStep, ClaimCommitStep, RunCaseStep,
     FinalizeSteps, AggregateStep, RecordStep DEF Work
<1>2. ASSUME NEW k \in Coordinators, DrainRaises(k) \/ Crash(k) PROVE IInv'
  BY <1>2, LeaveStep DEF DrainRaises, Crash, Ended
<1>3. ASSUME NEW k \in Coordinators, Start(k) PROVE IInv'
  BY <1>3, ControlSteps
<1>. QED  BY <1>1, <1>2, <1>3, StutterStep DEF Next

(* The inductive invariant holds in every behaviour of coordinators that    *)
(* plan, claim, run, crash, fail and time out.                              *)
THEOREM Inductive == Spec => []IInv
BY InitIInv, NextIInv, PTL DEF Spec

(* No case is in two batches, or claimed while it is in one, and a finalize *)
(* by id always hits the claim it belongs to.                               *)
THEOREM NoDoubleClaim == Spec => []ClaimsAreExclusive
<1>1. IInv => ClaimsAreExclusive
  BY DEF IInv
<1>. QED  BY <1>1, Inductive, PTL

(* max_attempts bounds the attempts of every case, over all processes.      *)
THEOREM AttemptsBounded == Spec => []AttemptsDecide
<1>1. IInv => AttemptsDecide
  BY DEF IInv
<1>. QED  BY <1>1, Inductive, PTL

(* One process writes the whole history of the iterations, without gaps.    *)
THEOREM HistoryHasOneAuthor == Spec => []OneHistory
<1>1. IInv => OneHistory
  <2>. SUFFICES ASSUME IInv, NEW i \in Iterations, record[i] # NoReport, NEW j \in 0..i
                PROVE  record[j] = record[i]
    BY DEF OneHistory
  <2>1. record[i] \in Coordinators /\ iter[record[i]] \in Iterations
    BY DEF IInv, TypeOK
  <2>2. i <= iter[record[i]]
    BY <2>1 DEF IInv, Authored
  <2>3. j = i \/ (j \in Iterations /\ j < iter[record[i]])
    BY <2>1, <2>2, ConstantsAssumption DEF Iterations
  <2>. QED  BY <2>1, <2>3 DEF IInv, Authored
<1>. QED  BY <1>1, Inductive, PTL

(* Whatever crashes, the outcome row of a succeeded case is there and is    *)
(* that of the attempt that succeeded.                                      *)
THEOREM OutcomesAuthoritative == Spec => []SucceededHasOutcome
<1>1. IInv => SucceededHasOutcome
  BY DEF IInv
<1>. QED  BY <1>1, Inductive, PTL

-----------------------------------------------------------------------------
(* The refinement: each step of the tables is a step of the ledger or none. *)

LEMMA SameResult ==
    ASSUME IInv, report' = report,
           \A s \in Slots : /\ status'[s] \in Settled <=> status[s] \in Settled
                            /\ status[s] \in Settled => outcome'[s] = outcome[s]
    PROVE  UNCHANGED <<Result, report>>
<1>1. \A s \in Slots : (IF status'[s] \in Settled THEN outcome'[s] ELSE Open)
                    = (IF status[s] \in Settled THEN outcome[s] ELSE Open)
  OBVIOUS
<1>. QED  BY <1>1 DEF Result

LEMMA FinalizeSettles ==
    ASSUME IInv, NEW k \in Coordinators, NEW to \in {"pending", "succeeded", "dead_lettered"},
           pc[k] \in {"finalize", "fail"}, Finalize(k, to)
    PROVE  [Ledger!Next]_<<Result, report>>
<1> DEFINE x == <<iter[k], current[k]>>
<1>1. x \in Slots /\ status[x] = "claimed" /\ outcome[x] \in 0..MaxAttempts
  BY HeldClaim DEF IInv, BatchOK, OutcomesOK
<1>2. status' = [status EXCEPT ![x] = to] /\ outcome' = outcome /\ report' = report
  BY DEF Finalize
<1> HIDE DEF x
<1>3. \A s \in Slots : status'[s] = IF s = x THEN to ELSE status[s]
  BY <1>2 DEF IInv, TypeOK
<1>4. CASE to = "pending"
  BY <1>1, <1>2, <1>3, <1>4, SameResult DEF Settled
<1>5. CASE to \in Settled
  <2>1. Result[x] = Open
    BY <1>1 DEF Result, Settled
  <2>2. Result' = [Result EXCEPT ![x] = outcome[x]]
    BY <1>1, <1>2, <1>3, <1>5 DEF Result
  <2>3. Ledger!Settle(x, outcome[x])
    BY <1>2, <2>1, <2>2 DEF Ledger!Settle
  <2>. QED  BY <1>1, <2>3 DEF Ledger!Next, Ledger!Slots, Slots
<1>. QED  BY <1>4, <1>5 DEF Settled

LEMMA AggregateReports ==
    ASSUME IInv, NEW k \in Coordinators, Aggregate(k)
    PROVE  Ledger!Next
<1>1. iter[k] \in Iterations /\ pc[k] = "aggregate"
  BY DEF IInv, TypeOK, Aggregate
<1>2. \A c \in Cases : /\ <<iter[k], c>> \in Slots
                       /\ status[<<iter[k], c>>] \in Settled
                       /\ outcome[<<iter[k], c>>] \in 0..MaxAttempts
  BY <1>1 DEF IInv, BarrierOK, OutcomesOK, Slots
<1>3. \A c \in Cases : /\ Result[<<iter[k], c>>] = outcome[<<iter[k], c>>]
                       /\ Result[<<iter[k], c>>] # Open
  BY <1>2, ConstantsAssumption DEF Result
<1>4. report' = [report EXCEPT ![<<k, iter[k]>>] = [c \in Cases |-> Result[<<iter[k], c>>]]]
  BY <1>3 DEF Aggregate
<1>5. UNCHANGED Result
  BY DEF Aggregate, tables, Result
<1>6. Ledger!Aggregate(k, iter[k])
  BY <1>3, <1>4, <1>5 DEF Ledger!Aggregate
<1>. QED  BY <1>1, <1>6 DEF Ledger!Next

LEMMA InitLedger == Init => Ledger!Init
BY DEF Init, Ledger!Init, Ledger!Slots, Slots, Result, Settled

LEMMA NextLedger == IInv /\ [Next]_vars => [Ledger!Next]_<<Result, report>>
<1> SUFFICES ASSUME IInv, [Next]_vars PROVE [Ledger!Next]_<<Result, report>>
  OBVIOUS
<1>1. ASSUME UNCHANGED <<tables, report>> PROVE UNCHANGED <<Result, report>>
  BY <1>1 DEF tables, Result
<1>2. ASSUME NEW k \in Coordinators, Plan(k) PROVE UNCHANGED <<Result, report>>
  <2>1. \A s \in Slots : status'[s] \in Settled <=> status[s] \in Settled
    BY <1>2 DEF Plan, Settled
  <2>. QED  BY <1>2, <2>1, SameResult DEF Plan
<1>3. ASSUME NEW k \in Coordinators, ClaimCommit(k) PROVE UNCHANGED <<Result, report>>
  <2>1. \A s \in Slots : s = <<s[1], s[2]>>
    BY DEF Slots
  <2>2. \A s \in Slots : s[1] = iter[k] /\ s[2] \in locked[k] => status[s] = "pending"
    BY <2>1 DEF IInv, LocksOK
  <2>3. \A s \in Slots : status'[s] \in Settled <=> status[s] \in Settled
    BY <1>3, <2>2 DEF ClaimCommit, Settled
  <2>. QED  BY <1>3, <2>3, SameResult DEF ClaimCommit
<1>4. ASSUME NEW k \in Coordinators, NEW c \in Cases, RunCase(k, c)
      PROVE  UNCHANGED <<Result, report>>
  <2>1. status[<<iter[k], c>>] = "claimed"
    BY <1>4, HeldClaim DEF RunCase
  <2>2. status' = status /\ report' = report
    BY <1>4 DEF RunCase
  <2>3. \A s \in Slots : status[s] \in Settled => outcome'[s] = outcome[s]
    BY <1>4, <2>1 DEF RunCase, IInv, TypeOK, Settled
  <2>. QED  BY <2>2, <2>3, SameResult
<1>5. ASSUME NEW k \in Coordinators, FinalizeSucceeded(k) \/ FinalizeFailed(k)
      PROVE  [Ledger!Next]_<<Result, report>>
  BY <1>5, FinalizeSettles DEF FinalizeSucceeded, FinalizeFailed, MarkFailedOrDeadLettered
<1>6. ASSUME NEW k \in Coordinators,
             Start(k) \/ ClaimSelect(k) \/ DrainEnds(k) \/ BuildLoop(k) \/ BatchDone(k)
             \/ FinalizeRaises(k) \/ BarrierClears(k) \/ BarrierTimeout(k)
             \/ Record(k) \/ RecordRefused(k)
             \/ DrainRaises(k) \/ Crash(k) \/ \E c \in Cases : CaseRaises(k, c)
      PROVE  UNCHANGED <<Result, report>>
  BY <1>1, <1>6 DEF Start, ClaimSelect, DrainEnds, BuildLoop, BatchDone, FinalizeRaises,
     BarrierClears, BarrierTimeout, Record, RecordRefused, DrainRaises, Crash, Leave,
     CaseRaises
<1>7. CASE UNCHANGED vars
  BY <1>1, <1>7 DEF vars
<1>. QED  BY <1>2, <1>3, <1>4, <1>5, <1>6, <1>7, AggregateReports DEF Next, Work

(* Scenario jobs, claims and the barrier implement the ledger: a case       *)
(* settles once and an iteration is aggregated from settled results only.   *)
THEOREM Implements == Spec => ImplementsLedger
BY InitLedger, NextLedger, Inductive, PTL DEF Spec, ImplementsLedger, Ledger!Spec

-----------------------------------------------------------------------------
(* A ledger never shows two different aggregates of one iteration.          *)

(* A report is what its iteration settled to: results never change after.   *)
ReportsSettled ==
    \A k \in Coordinators, i \in Iterations : report[<<k, i>>] # NoReport =>
        /\ \A c \in Cases : Result[<<i, c>>] # Open
        /\ report[<<k, i>>] = [c \in Cases |-> Result[<<i, c>>]]

LedgerInv ==
    /\ Result \in [Ledger!Slots -> (0..MaxAttempts) \cup {Open}]
    /\ report \in [Coordinators \X Iterations -> [Cases -> 0..MaxAttempts] \cup {NoReport}]
    /\ ReportsSettled

LEMMA LedgerSettles ==
    ASSUME LedgerInv, NEW s \in Ledger!Slots, NEW v \in 0..MaxAttempts, Ledger!Settle(s, v)
    PROVE  LedgerInv'
<1>1. ASSUME NEW k \in Coordinators, NEW i \in Iterations, report'[<<k, i>>] # NoReport
      PROVE  /\ \A c \in Cases : Result'[<<i, c>>] # Open
             /\ report'[<<k, i>>] = [c \in Cases |-> Result'[<<i, c>>]]
  <2>1. /\ \A c \in Cases : Result[<<i, c>>] # Open
        /\ report[<<k, i>>] = [c \in Cases |-> Result[<<i, c>>]]
    BY <1>1 DEF LedgerInv, ReportsSettled, Ledger!Settle
  <2>2. \A c \in Cases : Result'[<<i, c>>] = Result[<<i, c>>]
    BY <2>1 DEF LedgerInv, Ledger!Settle, Ledger!Slots
  <2>. QED  BY <1>1, <2>1, <2>2 DEF Ledger!Settle
<1>2. ReportsSettled'
  BY <1>1 DEF ReportsSettled
<1>. QED  BY <1>2 DEF LedgerInv, Ledger!Settle

LEMMA LedgerAggregates ==
    ASSUME LedgerInv, NEW k \in Coordinators, NEW i \in Iterations, Ledger!Aggregate(k, i)
    PROVE  LedgerInv'
<1> DEFINE settled == [c \in Cases |-> Result[<<i, c>>]]
<1>1. settled \in [Cases -> 0..MaxAttempts]
  BY DEF LedgerInv, Ledger!Aggregate, Ledger!Slots
<1>2. /\ report' = [report EXCEPT ![<<k, i>>] = settled] /\ Result' = Result
      /\ \A c \in Cases : Result[<<i, c>>] # Open
  BY DEF Ledger!Aggregate
<1>3. ASSUME NEW l \in Coordinators, NEW h \in Iterations, report'[<<l, h>>] # NoReport
      PROVE  /\ \A c \in Cases : Result[<<h, c>>] # Open
             /\ report'[<<l, h>>] = [c \in Cases |-> Result[<<h, c>>]]
  <2>1. CASE l = k /\ h = i
    BY <1>2, <2>1 DEF LedgerInv
  <2>2. CASE ~(l = k /\ h = i)
    <3>1. report'[<<l, h>>] = report[<<l, h>>]
      BY <1>2, <2>2 DEF LedgerInv
    <3>. QED  BY <1>3, <3>1 DEF LedgerInv, ReportsSettled
  <2>. QED  BY <2>1, <2>2
<1> HIDE DEF settled
<1>4. ReportsSettled'
  <2>1. ASSUME NEW l \in Coordinators, NEW h \in Iterations, report'[<<l, h>>] # NoReport
        PROVE  /\ \A c \in Cases : Result'[<<h, c>>] # Open
               /\ report'[<<l, h>>] = [c \in Cases |-> Result'[<<h, c>>]]
    <3>1. /\ \A c \in Cases : Result[<<h, c>>] # Open
          /\ report'[<<l, h>>] = [c \in Cases |-> Result[<<h, c>>]]
      BY <1>3, <2>1
    <3>2. Result' = Result
      BY <1>2
    <3>. QED  BY <3>1, <3>2
  <2>. QED  BY <2>1 DEF ReportsSettled
<1>. QED  BY <1>1, <1>2, <1>4 DEF LedgerInv

(* Aggregates of one iteration agree, whoever computed them and when.       *)
THEOREM LedgerReportsAgree == Ledger!Spec => []Ledger!ReportsAgree
<1>1. Ledger!Init => LedgerInv
  BY DEF Ledger!Init, LedgerInv, ReportsSettled
<1>2. LedgerInv /\ [Ledger!Next]_<<Result, report>> => LedgerInv'
  <2> SUFFICES ASSUME LedgerInv, [Ledger!Next]_<<Result, report>> PROVE LedgerInv'
    OBVIOUS
  <2>1. CASE UNCHANGED <<Result, report>>
    <3>1. Result' = Result /\ report' = report
      BY <2>1
    <3>2. ReportsSettled
      BY DEF LedgerInv
    <3>3. ReportsSettled'
      BY <3>1, <3>2, ZenonT(30) DEF ReportsSettled
    <3>. QED  BY <3>1, <3>3 DEF LedgerInv
  <2>. QED  BY <2>1, LedgerSettles, LedgerAggregates DEF Ledger!Next
<1>3. LedgerInv => Ledger!ReportsAgree
  BY DEF LedgerInv, ReportsSettled, Ledger!ReportsAgree
<1>. QED  BY <1>1, <1>2, <1>3, PTL DEF Ledger!Spec

(* Two coordinators of one run record the same aggregate of an iteration.   *)
THEOREM CoordinatorsAgree == Spec => []ReportsAgree
<1>1. ImplementsLedger => Ledger!Spec
  BY DEF ImplementsLedger
<1>2. Ledger!ReportsAgree => ReportsAgree
  BY DEF ReportsAgree
<1>. QED  BY <1>1, <1>2, Implements, LedgerReportsAgree, PTL

-----------------------------------------------------------------------------
(***************************************************************************)
(* A case that is a conversation (Conversation): for any script with a     *)
(* message that drives a turn, any number of repetitions and of simulated  *)
(* turns, every turn is given the whole conversation before it, threads    *)
(* are numbered without gaps, and their results are their last turns.      *)
(***************************************************************************)
CONSTANTS
    Script, Threads, Simulates, Scripted, Judge, MaxTurns, CaseGraders, Graders, Override

VARIABLES talk, thread, history, position, emitted, results, collapsed

Talk == INSTANCE Conversation WITH Reps <- Threads, pc <- talk

(* The module's own sizes of sets are those of the lemmas.                   *)
LEMMA TalkCounts == \A S : Talk!Cardinality(S) = Cardinality(S)
  BY DEF Talk!Cardinality, Cardinality

USE TalkCounts

TalkRoles == {"system", "user", "assistant", "tool"}
Authors == {"script", "agent", "simulator"}
Said == [role : TalkRoles, by : Authors]

TalkConstants ==
    /\ Script \in Seq(TalkRoles) /\ Talk!Drivers # {}
    /\ Threads \in Nat \ {0} /\ MaxTurns \in Nat /\ Scripted \in Nat
    /\ Graders # {}

TurnResult ==
    [thread : 1..Threads, position : Nat, input : Seq(Said), error : BOOLEAN,
     agent : {Talk!Named}, ran : {Talk!Invoked}]

TalkType ==
    /\ talk \in {"thread", "script", "simulate", "end"}
    /\ thread \in 0..Threads /\ position \in Nat /\ emitted \in Nat
    /\ history \in Seq(Said)
    /\ results \in Seq(TurnResult)
    /\ \A i \in DOMAIN results : results[i].thread <= thread

Replayed(n) == IF n = 0 THEN 0 ELSE Talk!Driver(IF n < Talk!Turns THEN n ELSE Talk!Turns)

(* What the history holds between two turns.                                *)
HistoryIsWhole ==
    talk \in {"script", "simulate"} =>
        /\ Cardinality(Talk!By(history, "agent")) = position
        /\ Talk!HoldsScript(history, Replayed(position))

(* The thread that is running: its turns so far, none of which failed.      *)
ThreadSoFar ==
    /\ talk \in {"script", "simulate"} =>
          /\ thread >= 1
          /\ Cardinality(Talk!InThread(thread)) = position
          /\ \A i \in Talk!InThread(thread) : ~results[i].error
    /\ talk = "script" => position < Talk!Turns /\ emitted = 0
    /\ talk = "simulate" => position >= Talk!Turns /\ emitted = position - Talk!Turns /\ emitted <= MaxTurns

(* A thread's positions number its turns without gaps or repeats.           *)
NumberedThread(t) ==
    /\ {results[j].position : j \in Talk!InThread(t)} = 0..(Cardinality(Talk!InThread(t)) - 1)
    /\ \A i, j \in Talk!InThread(t) : results[i].position = results[j].position => i = j
    /\ \A i, j \in Talk!InThread(t) : results[i].error => results[j].position <= results[i].position
    /\ Cardinality(Talk!InThread(t)) <= Talk!Turns + MaxTurns
    /\ (t < thread \/ talk \in {"thread", "end"}) => Talk!InThread(t) # {}

ThreadsAreNumbered == \A t \in 1..thread : NumberedThread(t)

TalkInv ==
    /\ TalkType /\ HistoryIsWhole /\ ThreadSoFar /\ ThreadsAreNumbered
    /\ Talk!TurnsSeeTheHistory /\ Talk!CollapsedIsFinal
    /\ talk = "end" => thread = Threads

-----------------------------------------------------------------------------
(* The messages that drive turns, by rank.                                   *)
Below(i) == {j \in Talk!Drivers : j <= i}

LEMMA DriverFacts ==
    ASSUME TalkConstants
    PROVE  /\ Len(Script) \in Nat /\ Talk!Drivers \subseteq 1..Len(Script)
           /\ IsFiniteSet(Talk!Drivers) /\ Talk!Turns \in Nat /\ Talk!Turns >= 1
           /\ \A i : IsFiniteSet(Below(i)) /\ Cardinality(Below(i)) \in Nat
<1>1. Len(Script) \in Nat /\ DOMAIN Script = 1..Len(Script)
  BY DEF TalkConstants
<1>2. Talk!Drivers \subseteq 1..Len(Script)
  BY <1>1 DEF Talk!Drivers
<1>3. IsFiniteSet(Talk!Drivers)
  <2>1. 1 \in Int /\ Len(Script) \in Int
    BY <1>1
  <2>2. IsFiniteSet(1..Len(Script))
    BY <2>1, FS_Interval
  <2>. QED  BY <1>2, <2>2, FS_Subset
<1>4. Talk!Turns \in Nat /\ Talk!Turns # 0
  BY <1>3, FS_CardinalityType, FS_EmptySet DEF Talk!Turns, TalkConstants
<1>5. \A i : IsFiniteSet(Below(i)) /\ Cardinality(Below(i)) \in Nat
  BY <1>3, FS_Subset, FS_CardinalityType DEF Below
<1>. QED  BY <1>1, <1>2, <1>3, <1>4, <1>5

LEMMA RankOrder ==
    ASSUME TalkConstants, NEW i \in Talk!Drivers, NEW j \in Talk!Drivers, i < j
    PROVE  Cardinality(Below(i)) < Cardinality(Below(j))
<1>1. \A x \in Talk!Drivers : x \in Int
  BY DriverFacts
<1>2. Below(i) \subseteq Below(j) /\ j \in Below(j) /\ j \notin Below(i)
  BY <1>1 DEF Below
<1>3. Cardinality(Below(i)) <= Cardinality(Below(j)) /\ Cardinality(Below(i)) # Cardinality(Below(j))
  BY <1>2, DriverFacts, FS_Subset
<1>. QED  BY <1>3, DriverFacts

LEMMA DriverExists ==
    ASSUME TalkConstants, NEW k \in 1..Talk!Turns
    PROVE  Talk!Driver(k) \in Talk!Drivers /\ Cardinality(Below(Talk!Driver(k))) = k
<1> DEFINE rank == [i \in Talk!Drivers |-> Cardinality(Below(i))]
<1>1. ASSUME NEW i \in Talk!Drivers PROVE rank[i] \in 1..Talk!Turns
  <2>1. Below(i) \subseteq Talk!Drivers /\ i \in Below(i)
    BY DriverFacts DEF Below
  <2>2. Cardinality(Below(i)) <= Talk!Turns /\ Cardinality(Below(i)) # 0
    BY <2>1, DriverFacts, FS_Subset, FS_EmptySet DEF Talk!Turns
  <2>. QED  BY <2>2, DriverFacts
<1>2. rank \in Injection(Talk!Drivers, 1..Talk!Turns)
  <2>1. ASSUME NEW i \in Talk!Drivers, NEW j \in Talk!Drivers, rank[i] = rank[j] PROVE i = j
    BY <2>1, RankOrder, DriverFacts
  <2>. QED  BY <1>1, <2>1 DEF Injection, IsInjective
<1>3. IsFiniteSet(1..Talk!Turns) /\ Cardinality(1..Talk!Turns) = Cardinality(Talk!Drivers)
  BY DriverFacts, FS_Interval DEF Talk!Turns
<1>4. rank \in Surjection(Talk!Drivers, 1..Talk!Turns)
  BY <1>2, <1>3, FS_Injection
<1>5. \E i \in Talk!Drivers : rank[i] = k
  BY <1>4 DEF Surjection
<1>. QED  BY <1>5 DEF Talk!Driver, Below

LEMMA DriverOrder ==
    ASSUME TalkConstants, NEW k \in 1..Talk!Turns, NEW l \in 1..Talk!Turns, k < l
    PROVE  Talk!Driver(k) < Talk!Driver(l)
<1>1. Talk!Driver(k) \in Talk!Drivers /\ Talk!Driver(l) \in Talk!Drivers
  BY DriverExists
<1>2. Cardinality(Below(Talk!Driver(k))) = k /\ Cardinality(Below(Talk!Driver(l))) = l
  BY DriverExists
<1>3. ~(Talk!Driver(l) < Talk!Driver(k)) /\ Talk!Driver(l) # Talk!Driver(k)
  BY <1>1, <1>2, RankOrder, DriverFacts
<1>. QED  BY <1>1, <1>3, DriverFacts

LEMMA ReplayedFacts ==
    ASSUME TalkConstants, NEW n \in Nat
    PROVE  /\ Replayed(n) \in 0..Len(Script)
           /\ n < Talk!Turns => /\ Replayed(n + 1) = Talk!Driver(n + 1) /\ Talk!Driver(n + 1) \in Talk!Drivers
                           /\ Replayed(n) < Replayed(n + 1)
                           /\ Talk!Turn(n + 1) = SubSeq(Script, Replayed(n) + 1, Replayed(n + 1))
           /\ n >= Talk!Turns => Replayed(n + 1) = Replayed(n)
<1>1. \A k \in 1..Talk!Turns : Talk!Driver(k) \in Talk!Drivers /\ Talk!Driver(k) \in 1..Len(Script)
  BY DriverExists, DriverFacts
<1>2. Replayed(n) \in 0..Len(Script)
  BY <1>1, DriverFacts DEF Replayed
<1>3. ASSUME n < Talk!Turns
      PROVE /\ Replayed(n + 1) = Talk!Driver(n + 1) /\ Talk!Driver(n + 1) \in Talk!Drivers
            /\ Replayed(n) < Replayed(n + 1)
            /\ Talk!Turn(n + 1) = SubSeq(Script, Replayed(n) + 1, Replayed(n + 1))
  <2>1. n + 1 \in 1..Talk!Turns /\ n + 1 # 0 /\ (n + 1) - 1 = n
    BY <1>3, DriverFacts
  <2>2. Replayed(n + 1) = Talk!Driver(n + 1)
    BY <1>3, <2>1, DriverFacts DEF Replayed
  <2>3. Replayed(n) < Replayed(n + 1)
    <3>1. CASE n = 0
      BY <1>1, <2>1, <2>2, <3>1, DriverFacts DEF Replayed
    <3>2. CASE n # 0
      <4>1. n \in 1..Talk!Turns /\ n < n + 1 /\ Replayed(n) = Talk!Driver(n)
        BY <1>3, <3>2, DriverFacts DEF Replayed
      <4>. QED  BY <2>1, <2>2, <4>1, DriverOrder
    <3>. QED  BY <3>1, <3>2
  <2>4. Talk!Turn(n + 1) = SubSeq(Script, Replayed(n) + 1, Talk!Driver(n + 1))
    <3>1. CASE n = 0
      BY <3>1 DEF Talk!Turn, Replayed
    <3>2. CASE n # 0
      <4>1. Replayed(n) = Talk!Driver(n) /\ n + 1 # 1
        BY <1>3, <3>2, DriverFacts DEF Replayed
      <4>. QED  BY <2>1, <4>1 DEF Talk!Turn
    <3>. QED  BY <3>1, <3>2
  <2>. QED  BY <1>1, <2>1, <2>2, <2>3, <2>4
<1>4. ASSUME n >= Talk!Turns PROVE Replayed(n + 1) = Replayed(n)
  <2>1. n # 0 /\ n + 1 # 0 /\ ~(n + 1 < Talk!Turns) /\ ~(n < Talk!Turns)
    BY <1>4, DriverFacts
  <2>. QED  BY <2>1 DEF Replayed
<1>. QED  BY <1>2, <1>3, <1>4

LEMMA FromScriptFacts ==
    ASSUME TalkConstants, NEW n \in Nat, n < Talk!Turns
    PROVE  /\ Talk!FromScript(n + 1) \in Seq(Said)
           /\ Len(Talk!FromScript(n + 1)) = Replayed(n + 1) - Replayed(n)
           /\ \A x \in 1..(Replayed(n + 1) - Replayed(n)) :
                 Talk!FromScript(n + 1)[x] = Talk!Message(Script[Replayed(n) + x], "script")
<1> DEFINE a == Replayed(n)
           b == Replayed(n + 1)
           turn == Talk!Turn(n + 1)
<1>1. a \in 0..Len(Script) /\ b \in 0..Len(Script) /\ a < b /\ turn = SubSeq(Script, a + 1, b)
  BY ReplayedFacts
<1> HIDE DEF a, b, turn
<1>2. /\ turn \in Seq(TalkRoles) /\ Len(turn) = b - a /\ DOMAIN turn = 1..(b - a)
      /\ \A x \in 1..(b - a) : turn[x] = Script[a + x]
  BY <1>1 DEF TalkConstants
<1>3. Talk!FromScript(n + 1) = [x \in 1..(b - a) |-> Talk!Message(turn[x], "script")]
  BY <1>2 DEF Talk!FromScript, turn
<1>4. \A x \in 1..(b - a) : Talk!Message(turn[x], "script") \in Said
  BY <1>2 DEF Talk!Message, Said, Authors
<1>5. b - a \in Nat
  BY <1>1
<1>6. Talk!FromScript(n + 1) \in Seq(Said) /\ Len(Talk!FromScript(n + 1)) = b - a
  BY <1>3, <1>4, <1>5
<1>. QED  BY <1>2, <1>3, <1>6 DEF a, b

-----------------------------------------------------------------------------
(* What a message adds to a history.                                         *)
LEMMA ByFacts ==
    ASSUME NEW m \in Seq(Said), NEW who
    PROVE  /\ Talk!By(m, who) \subseteq 1..Len(m)
           /\ IsFiniteSet(Talk!By(m, who)) /\ Cardinality(Talk!By(m, who)) \in Nat
           /\ \A j : /\ IsFiniteSet({i \in Talk!By(m, who) : i <= j})
                     /\ Cardinality({i \in Talk!By(m, who) : i <= j}) \in Nat
<1>1. Talk!By(m, who) \subseteq 1..Len(m) /\ Len(m) \in Nat
  BY DEF Talk!By
<1>2. IsFiniteSet(Talk!By(m, who))
  <2>1. 1 \in Int /\ Len(m) \in Int
    BY <1>1
  <2>2. IsFiniteSet(1..Len(m))
    BY <2>1, FS_Interval
  <2>. QED  BY <1>1, <2>2, FS_Subset
<1>. QED  BY <1>1, <1>2, FS_Subset, FS_CardinalityType

LEMMA AnotherMessage ==
    ASSUME NEW m \in Seq(Said), NEW x \in Said, x.by # "script", NEW n \in Nat, Talk!HoldsScript(m, n)
    PROVE  /\ Talk!HoldsScript(Append(m, x), n)
           /\ Append(m, x) \in Seq(Said) /\ Len(Append(m, x)) = Len(m) + 1
           /\ Append(m, x)[Len(m) + 1] = x
           /\ Cardinality(Talk!By(Append(m, x), "agent"))
                = Cardinality(Talk!By(m, "agent")) + (IF x.by = "agent" THEN 1 ELSE 0)
<1> DEFINE a == Append(m, x)
<1>1. /\ a \in Seq(Said) /\ Len(a) = Len(m) + 1 /\ Len(m) \in Nat
      /\ DOMAIN a = 1..(Len(m) + 1) /\ DOMAIN m = 1..Len(m)
      /\ \A i \in 1..Len(m) : a[i] = m[i]
      /\ a[Len(m) + 1] = x
  OBVIOUS
<1> HIDE DEF a
<1>2. Talk!By(a, "script") = Talk!By(m, "script")
  BY <1>1 DEF Talk!By
<1>3. Talk!HoldsScript(a, n)
  BY <1>1, <1>2, ByFacts DEF Talk!HoldsScript
<1>4. Talk!By(a, "agent") = IF x.by = "agent" THEN Talk!By(m, "agent") \cup {Len(m) + 1} ELSE Talk!By(m, "agent")
  BY <1>1 DEF Talk!By
<1>5. Len(m) + 1 \notin Talk!By(m, "agent")
  BY <1>1, ByFacts
<1>6. Cardinality(Talk!By(a, "agent")) = Cardinality(Talk!By(m, "agent")) + (IF x.by = "agent" THEN 1 ELSE 0)
  BY <1>4, <1>5, ByFacts, FS_AddElement
<1>. QED  BY <1>1, <1>3, <1>6 DEF a

LEMMA ScriptedMessages ==
    ASSUME NEW m \in Seq(Said), NEW f \in Seq(Said), NEW n \in Nat, Talk!HoldsScript(m, n),
           \A x \in 1..Len(f) : f[x] = Talk!Message(Script[n + x], "script")
    PROVE  /\ Talk!HoldsScript(m \o f, n + Len(f))
           /\ m \o f \in Seq(Said) /\ Len(m \o f) = Len(m) + Len(f)
           /\ \A x \in 1..Len(f) : (m \o f)[Len(m) + x] = f[x]
           /\ Talk!By(m \o f, "agent") = Talk!By(m, "agent")
<1> DEFINE a == m \o f
           k == Len(m)
           l == Len(f)
<1>1. /\ a \in Seq(Said) /\ Len(a) = k + l /\ k \in Nat /\ l \in Nat
      /\ DOMAIN a = 1..(k + l) /\ DOMAIN m = 1..k
      /\ \A i \in 1..k : a[i] = m[i]
      /\ \A x \in 1..l : a[k + x] = f[x]
  OBVIOUS
<1>0. \A x \in 1..l : f[x].by = "script" /\ f[x].role = Script[n + x]
  <2>1. ASSUME NEW x \in 1..l PROVE f[x].by = "script" /\ f[x].role = Script[n + x]
    <3>1. f[x] = [role |-> Script[n + x], by |-> "script"]
      BY DEF Talk!Message
    <3>. QED  BY <3>1
  <2>. QED  BY <2>1
<1> HIDE DEF a, k, l
<1>2. \A i \in (k + 1)..(k + l) : a[i] = f[i - k] /\ i - k \in 1..l
  BY <1>1
<1>a. \A i \in (k + 1)..(k + l) : a[i].by = "script"
  <2> SUFFICES ASSUME NEW i \in (k + 1)..(k + l) PROVE a[i].by = "script"
    OBVIOUS
  <2>1. a[i] = f[i - k] /\ i - k \in 1..l
    BY <1>2
  <2>. QED  BY <1>0, <2>1
<1>b. \A i : i \in 1..(k + l) <=> (i \in 1..k \/ i \in (k + 1)..(k + l))
  BY <1>1
<1>c. \A i \in (k + 1)..(k + l) : i \notin 1..k
  BY <1>1
<1>d. DOMAIN a = 1..(k + l) /\ DOMAIN m = 1..k /\ \A i \in 1..k : a[i] = m[i]
  BY <1>1
<1>3. Talk!By(a, "agent") = Talk!By(m, "agent")
  BY <1>a, <1>b, <1>d, Zenon DEF Talk!By
<1>4. Talk!By(a, "script") = Talk!By(m, "script") \cup (k + 1)..(k + l)
  BY <1>a, <1>b, <1>d DEF Talk!By
<1>5. Talk!By(m, "script") \subseteq 1..k /\ IsFiniteSet(Talk!By(m, "script"))
  BY ByFacts DEF k
<1>6. Cardinality(Talk!By(m, "script")) = n
  BY DEF Talk!HoldsScript
<1>7. ASSUME NEW c \in 0..l
      PROVE Cardinality(Talk!By(m, "script") \cup (k + 1)..(k + c)) = n + c
  <2>1. IsFiniteSet((k + 1)..(k + c)) /\ Cardinality((k + 1)..(k + c)) = c
    <3>1. k + 1 \in Int /\ k + c \in Int /\ (k + 1 > k + c <=> c = 0) /\ (k + c) - (k + 1) + 1 = c
      BY <1>1
    <3>. QED  BY <3>1, FS_Interval
  <2>2. Talk!By(m, "script") \cap ((k + 1)..(k + c)) = {}
    BY <1>1, <1>5
  <2> DEFINE S == Talk!By(m, "script")
             T == (k + 1)..(k + c)
  <2>3. IsFiniteSet(S) /\ IsFiniteSet(T) /\ S \cap T = {} /\ Cardinality(S) = n /\ Cardinality(T) = c
    BY <1>5, <1>6, <2>1, <2>2
  <2> HIDE DEF S, T
  <2>4. Cardinality(S \cup T) = n + c
    <3>1. Cardinality(S \cup T) = Cardinality(S) + Cardinality(T) - Cardinality(S \cap T)
      BY <2>3, FS_Union
    <3>2. Cardinality(S \cap T) = 0
      BY <2>3, FS_EmptySet
    <3>3. n \in Int /\ c \in Int
      BY <1>1
    <3>. QED  BY <2>3, <3>1, <3>2, <3>3
  <2>. QED  BY <2>4 DEF S, T
<1>8. Cardinality(Talk!By(a, "script")) = n + l
  <2>1. l \in 0..l
    BY <1>1
  <2>2. Cardinality(Talk!By(m, "script") \cup (k + 1)..(k + l)) = n + l
    BY <1>7, <2>1
  <2>. QED  BY <1>4, <2>2
<1>9. ASSUME NEW j \in Talk!By(a, "script")
      PROVE  a[j].role = Script[Cardinality({i \in Talk!By(a, "script") : i <= j})]
  <2>1. CASE j \in Talk!By(m, "script")
    <3>1. {i \in Talk!By(a, "script") : i <= j} = {i \in Talk!By(m, "script") : i <= j}
      BY <1>1, <1>4, <1>5, <2>1
    <3>. QED  BY <1>1, <1>5, <2>1, <3>1 DEF Talk!HoldsScript
  <2>2. CASE j \in (k + 1)..(k + l)
    <3>1. {i \in Talk!By(a, "script") : i <= j} = Talk!By(m, "script") \cup (k + 1)..(k + (j - k))
      BY <1>1, <1>4, <1>5, <2>2
    <3>2. j - k \in 0..l
      BY <1>1, <2>2
    <3>3. Cardinality({i \in Talk!By(a, "script") : i <= j}) = n + (j - k)
      BY <1>7, <3>1, <3>2
    <3>. QED  BY <1>0, <1>2, <2>2, <3>3
  <2>. QED  BY <1>4, <2>1, <2>2
<1>. QED  BY <1>1, <1>3, <1>8, <1>9 DEF Talk!HoldsScript, a, k, l

-----------------------------------------------------------------------------
LEMMA ThreadFacts ==
    ASSUME TalkType, NEW t
    PROVE  /\ Talk!InThread(t) \subseteq DOMAIN results /\ DOMAIN results = 1..Len(results)
           /\ Len(results) \in Nat
           /\ IsFiniteSet(Talk!InThread(t)) /\ Cardinality(Talk!InThread(t)) \in Nat
           /\ \A i \in DOMAIN results : results[i] \in TurnResult
<1>1. Len(results) \in Nat /\ DOMAIN results = 1..Len(results)
  BY DEF TalkType
<1>2. Talk!InThread(t) \subseteq 1..Len(results)
  BY <1>1 DEF Talk!InThread
<1>3. IsFiniteSet(1..Len(results))
  <2>1. 1 \in Int /\ Len(results) \in Int
    BY <1>1
  <2>. QED  BY <2>1, FS_Interval
<1>4. IsFiniteSet(Talk!InThread(t))
  BY <1>2, <1>3, FS_Subset
<1>5. \A i \in DOMAIN results : results[i] \in TurnResult
  BY <1>1 DEF TalkType
<1>. QED  BY <1>1, <1>2, <1>4, <1>5, FS_CardinalityType

LEMMA EmptyHistory == Talk!HoldsScript(<<>>, 0) /\ Cardinality(Talk!By(<<>>, "agent")) = 0
BY FS_EmptySet DEF Talk!HoldsScript, Talk!By

LEMMA TalkInit == ASSUME TalkConstants, Talk!Init PROVE TalkInv
<1>1. TalkType
  <2>1. \A i \in DOMAIN results : FALSE
    BY DEF Talk!Init
  <2>2. thread \in 0..Threads
    BY DEF Talk!Init, TalkConstants
  <2>. QED  BY <2>1, <2>2 DEF Talk!Init, TalkType
<1>2. HistoryIsWhole /\ ThreadSoFar
  BY DEF Talk!Init, HistoryIsWhole, ThreadSoFar
<1>3. ThreadsAreNumbered
  BY DEF Talk!Init, ThreadsAreNumbered
<1>4. Talk!TurnsSeeTheHistory /\ Talk!CollapsedIsFinal
  BY DEF Talk!Init, Talk!TurnsSeeTheHistory, Talk!CollapsedIsFinal
<1>. QED  BY <1>1, <1>2, <1>3, <1>4 DEF Talk!Init, TalkInv

LEMMA StartStep == ASSUME TalkConstants, TalkInv, Talk!StartThread PROVE TalkInv'
<1>1. /\ thread' = thread + 1 /\ thread' \in 1..Threads /\ history' = <<>> /\ position' = 0
      /\ emitted' = 0 /\ talk' = "script" /\ results' = results /\ talk = "thread"
  BY DEF Talk!StartThread, TalkInv, TalkType, TalkConstants
<1>2. TalkType'
  <2>1. \A i \in DOMAIN results : results[i] \in TurnResult /\ results[i].thread <= thread
    BY ThreadFacts DEF TalkInv, TalkType
  <2>2. \A i \in DOMAIN results : results[i].thread <= thread + 1
    BY <2>1 DEF TurnResult, TalkInv, TalkType
  <2>. QED  BY <1>1, <2>2 DEF TalkInv, TalkType
<1>3. HistoryIsWhole'
  BY <1>1, EmptyHistory DEF HistoryIsWhole, Replayed
<1>4. \A t : Talk!InThread(t)' = Talk!InThread(t)
  BY <1>1 DEF Talk!InThread
<1>5. Talk!InThread(thread') = {} /\ Cardinality(Talk!InThread(thread')) = 0
  <2>1. Talk!InThread(thread') = {}
    BY <1>1, SMTT(30) DEF Talk!InThread, TalkInv, TalkType, TurnResult
  <2>. QED  BY <2>1, FS_EmptySet
<1>6. ThreadSoFar'
  BY <1>1, <1>4, <1>5, DriverFacts DEF ThreadSoFar
<1>7. ASSUME NEW t \in 1..thread' PROVE NumberedThread(t)'
  <2>1. CASE t = thread'
    <3>1. Talk!InThread(t)' = {} /\ Cardinality(Talk!InThread(t)') = 0
      BY <1>4, <1>5, <2>1
    <3>2. {results'[j].position : j \in Talk!InThread(t)'} = 0..(Cardinality(Talk!InThread(t)') - 1)
      BY <3>1
    <3>3. 0 <= Talk!Turns + MaxTurns /\ ~(t < thread')
      BY <1>1, <2>1, DriverFacts DEF TalkConstants
    <3>. QED  BY <1>1, <3>1, <3>2, <3>3 DEF NumberedThread
  <2>2. CASE t # thread'
    <3>1. t \in 1..thread
      BY <1>1, <2>2 DEF TalkInv, TalkType
    <3>. QED  BY <1>1, <1>4, <3>1 DEF TalkInv, ThreadsAreNumbered, NumberedThread
  <2>. QED  BY <2>1, <2>2
<1>8. Talk!TurnsSeeTheHistory'
  BY <1>1 DEF TalkInv, Talk!TurnsSeeTheHistory
<1>. QED  BY <1>1, <1>2, <1>3, <1>6, <1>7, <1>8 DEF TalkInv, ThreadsAreNumbered, Talk!CollapsedIsFinal

(* The end of a thread that the simulator leaves.                            *)
LEMMA ThreadStep ==
    ASSUME TalkConstants, TalkInv, talk = "simulate", talk' = "thread", emitted' \in Nat,
           UNCHANGED <<thread, history, position, results, collapsed>>
    PROVE  TalkInv'
<1>1. TalkType' /\ HistoryIsWhole' /\ ThreadSoFar'
  BY DEF TalkInv, TalkType, HistoryIsWhole, ThreadSoFar
<1>2. \A t : Talk!InThread(t)' = Talk!InThread(t)
  BY DEF Talk!InThread
<1>3. Talk!InThread(thread) # {}
  <2>1. Cardinality(Talk!InThread(thread)) = position /\ position >= Talk!Turns /\ position \in Nat
    BY DEF TalkInv, TalkType, ThreadSoFar
  <2>2. Cardinality(Talk!InThread(thread)) # 0
    BY <2>1, DriverFacts
  <2>. QED  BY <2>2, FS_EmptySet
<1>4. ASSUME NEW t \in 1..thread' PROVE NumberedThread(t)'
  <2>1. NumberedThread(t) /\ (t < thread \/ t = thread)
    BY DEF TalkInv, TalkType, ThreadsAreNumbered
  <2>. QED  BY <1>2, <1>3, <2>1 DEF NumberedThread
<1>5. Talk!TurnsSeeTheHistory'
  BY DEF TalkInv, Talk!TurnsSeeTheHistory
<1>. QED  BY <1>1, <1>4, <1>5 DEF TalkInv, ThreadsAreNumbered, Talk!CollapsedIsFinal

(* A turn of the running thread, scripted or simulated.                      *)
LEMMA TurnStep ==
    ASSUME TalkConstants, TalkInv, NEW input \in Seq(Said), NEW error \in BOOLEAN,
           talk \in {"script", "simulate"}, talk' \in {"thread", "script", "simulate"},
           results' = Append(results, Talk!Result(input, error)),
           history' = IF error THEN input ELSE Append(input, Talk!Message("assistant", "agent")),
           position' = position + 1, emitted' \in Nat, UNCHANGED <<thread, collapsed>>,
           error => talk' = "thread",
           position + 1 <= Talk!Turns + MaxTurns,
           Cardinality(Talk!By(input, "agent")) = position,
           Talk!HoldsScript(input, Replayed(position + 1)),
           Talk!Drives(input[Len(input)].role),
           talk' = "script" => position + 1 < Talk!Turns /\ emitted' = 0,
           talk' = "simulate" => /\ position + 1 >= Talk!Turns /\ emitted' = position + 1 - Talk!Turns
                               /\ emitted' <= MaxTurns
    PROVE  TalkInv'
<1> DEFINE r == Talk!Result(input, error)
           n == Len(results)
<1>0. /\ TalkType /\ thread \in 1..Threads /\ position \in Nat /\ n \in Nat
      /\ DOMAIN results = 1..n /\ Talk!Turns \in Nat /\ MaxTurns \in Nat
      /\ Cardinality(Talk!InThread(thread)) = position
      /\ \A i \in Talk!InThread(thread) : ~results[i].error
  BY ThreadFacts, DriverFacts DEF TalkInv, TalkType, ThreadSoFar, TalkConstants
<1>1. /\ r \in TurnResult /\ r.thread = thread /\ r.position = position /\ r.input = input
      /\ r.error = error
  BY <1>0 DEF Talk!Result, TurnResult
<1> HIDE DEF r
<1>2. /\ results' \in Seq(TurnResult) /\ DOMAIN results' = 1..(n + 1)
      /\ \A i \in 1..n : results'[i] = results[i]
      /\ results'[n + 1] = r
  BY <1>0, <1>1 DEF TalkType, r
<1> HIDE DEF n
<1>3. history' \in Seq(Said)
  <2>1. Talk!Message("assistant", "agent") \in Said
    BY DEF Talk!Message, Said, TalkRoles, Authors
  <2>. QED  BY <2>1
<1>4. TalkType'
  <2>1. \A i \in DOMAIN results' : results'[i].thread <= thread
    BY <1>0, <1>1, <1>2 DEF TalkType
  <2>2. talk' \in {"thread", "script", "simulate", "end"} /\ position' \in Nat
    BY <1>0
  <2>. QED  BY <1>0, <1>2, <1>3, <2>1, <2>2 DEF TalkType
<1>5. HistoryIsWhole'
  <2>1. CASE ~error
    <3> DEFINE x == Talk!Message("assistant", "agent")
    <3>1. x \in Said /\ x.by = "agent"
      BY DEF Talk!Message, Said, TalkRoles, Authors
    <3>2. Replayed(position + 1) \in Nat
      BY <1>0, ReplayedFacts
    <3>3. history' = Append(input, x)
      BY <2>1
    <3> HIDE DEF x
    <3>4. Talk!HoldsScript(Append(input, x), Replayed(position + 1))
      BY <3>1, <3>2, AnotherMessage
    <3>5. Cardinality(Talk!By(Append(input, x), "agent")) = position + 1
      BY <3>1, <3>2, AnotherMessage
    <3>. QED  BY <3>3, <3>4, <3>5 DEF HistoryIsWhole
  <2>2. CASE error
    BY <2>2 DEF HistoryIsWhole
  <2>. QED  BY <2>1, <2>2
<1>6. /\ Talk!InThread(thread)' = Talk!InThread(thread) \cup {n + 1}
      /\ \A t : t # thread => Talk!InThread(t)' = Talk!InThread(t)
      /\ \A t : Talk!InThread(t) \subseteq 1..n
  BY <1>0, <1>1, <1>2 DEF Talk!InThread
<1>7. Cardinality(Talk!InThread(thread)') = position + 1
  <2>1. IsFiniteSet(Talk!InThread(thread)) /\ n + 1 \notin Talk!InThread(thread)
    BY <1>0, <1>6, ThreadFacts
  <2> DEFINE I == Talk!InThread(thread)
  <2>2. IsFiniteSet(I) /\ n + 1 \notin I /\ Cardinality(I) = position
    BY <1>0, <2>1
  <2> HIDE DEF I
  <2>3. Cardinality(I \cup {n + 1}) = position + 1
    BY <2>2, FS_AddElement
  <2>. QED  BY <1>6, <2>3 DEF I
<1>8. ThreadSoFar'
  <2>1. ASSUME talk' \in {"script", "simulate"} PROVE \A i \in Talk!InThread(thread)' : ~results'[i].error
    BY <1>0, <1>1, <1>2, <1>6, <2>1
  <2>2. talk' = "script" => position' < Talk!Turns /\ emitted' = 0
    OBVIOUS
  <2>3. talk' = "simulate" => position' >= Talk!Turns /\ emitted' = position' - Talk!Turns /\ emitted' <= MaxTurns
    BY <1>0
  <2>4. thread' >= 1 /\ Cardinality(Talk!InThread(thread)') = position'
    BY <1>0, <1>7
  <2>. QED  BY <2>1, <2>2, <2>3, <2>4 DEF ThreadSoFar
<1>9. ASSUME NEW t \in 1..thread' PROVE NumberedThread(t)'
  <2>0. NumberedThread(t)
    BY DEF TalkInv, ThreadsAreNumbered
  <2>1. CASE t # thread
    <3>1. Talk!InThread(t)' = Talk!InThread(t) /\ t < thread
      BY <1>0, <1>6, <2>1
    <3>2. \A i \in Talk!InThread(t) : results'[i] = results[i]
      BY <1>2, <1>6
    <3>3. {results'[j].position : j \in Talk!InThread(t)} = {results[j].position : j \in Talk!InThread(t)}
      BY <3>2
    <3> DEFINE I == Talk!InThread(t)
               R == results'
    <3>4. /\ {R[j].position : j \in I} = 0..(Cardinality(I) - 1)
          /\ Cardinality(I) <= Talk!Turns + MaxTurns /\ I # {}
      BY <2>0, <3>1, <3>3 DEF NumberedThread
    <3>5. ASSUME NEW i \in I, NEW j \in I
          PROVE  /\ R[i].position = R[j].position => i = j
                 /\ R[i].error => R[j].position <= R[i].position
      <4>1. R[i] = results[i] /\ R[j] = results[j]
        BY <3>2
      <4>2. /\ results[i].position = results[j].position => i = j
            /\ results[i].error => results[j].position <= results[i].position
        BY <2>0 DEF NumberedThread
      <4>. QED  BY <4>1, <4>2
    <3>6. Talk!InThread(t)' = I
      BY <3>1
    <3> HIDE DEF I, R
    <3>. QED  BY <3>4, <3>5, <3>6 DEF NumberedThread, R
  <2>2. CASE t = thread
    <3> DEFINE I == Talk!InThread(thread)
               J == Talk!InThread(thread)'
               R == results'
    <3>0. position \in Int
      BY <1>0
    <3>1. J = I \cup {n + 1} /\ Cardinality(J) = position + 1 /\ n + 1 \notin I
      BY <1>0, <1>6, <1>7
    <3>2. \A i \in I : R[i] = results[i] /\ results[i] \in TurnResult
      BY <1>0, <1>2, <1>6, ThreadFacts
    <3>3. /\ {results[j].position : j \in I} = 0..(position - 1)
          /\ \A i, j \in I : results[i].position = results[j].position => i = j
      BY <1>0, <2>0, <2>2 DEF NumberedThread
    <3> HIDE DEF I, J, R
    <3>4. \A i \in I : R[i].position \in 0..(position - 1) /\ ~R[i].error
      <4>1. \A i \in I : results[i].position \in 0..(position - 1)
        BY <3>3
      <4>. QED  BY <1>0, <3>2, <4>1 DEF I
    <3>5. R[n + 1].position = position /\ R[n + 1].error = error
      BY <1>1, <1>2 DEF R
    <3>6. {R[j].position : j \in J} = {results[j].position : j \in I} \cup {position}
      BY <3>1, <3>2, <3>5
    <3>7. {R[j].position : j \in J} = 0..(Cardinality(J) - 1)
      <4>1. (position + 1) - 1 = position /\ 0..position = 0..(position - 1) \cup {position}
        BY <1>0
      <4>. QED  BY <3>1, <3>3, <3>6, <4>1
    <3>8. \A i, j \in J : R[i].position = R[j].position => i = j
      <4>1. ASSUME NEW i \in I, NEW j \in I, R[i].position = R[j].position PROVE i = j
        BY <3>2, <3>3, <4>1
      <4>2. \A i \in I : R[i].position # position
        BY <3>0, <3>4
      <4>. QED  BY <3>1, <3>5, <4>1, <4>2
    <3>9. \A i, j \in J : R[i].error => R[j].position <= R[i].position
      <4>1. \A j \in J : R[j].position <= position
        BY <3>0, <3>1, <3>4, <3>5
      <4>2. \A i \in J : R[i].error => i = n + 1
        BY <3>1, <3>4
      <4>. QED  BY <3>5, <4>1, <4>2
    <3>10. Cardinality(J) <= Talk!Turns + MaxTurns /\ J # {}
      BY <3>1
    <3>. QED  BY <2>2, <3>7, <3>8, <3>9, <3>10 DEF NumberedThread, J, R
  <2>. QED  BY <2>1, <2>2
<1>10. Talk!TurnsSeeTheHistory'
  <2>1. Replayed(position + 1) = Talk!Driver(IF position < Talk!Turns THEN position + 1 ELSE Talk!Turns)
    <3>1. position + 1 # 0 /\ (position < Talk!Turns <=> (position + 1 < Talk!Turns \/ position + 1 = Talk!Turns))
      BY <1>0
    <3>. QED  BY <1>0, <3>1 DEF Replayed
  <2>2. ASSUME NEW i \in 1..(n + 1), i # n + 1 PROVE i \in 1..n /\ results'[i] = results[i]
    BY <1>0, <1>2, <2>2
  <2>. QED  BY <1>0, <1>1, <1>2, <2>1, <2>2, SMTT(30) DEF TalkInv, Talk!TurnsSeeTheHistory
<1>. QED  BY <1>4, <1>5, <1>8, <1>9, <1>10 DEF TalkInv, ThreadsAreNumbered, Talk!CollapsedIsFinal

LEMMA ScriptedStep == ASSUME TalkConstants, TalkInv, Talk!ScriptedTurn PROVE TalkInv'
<1> DEFINE input == history \o Talk!FromScript(position + 1)
<1>1. /\ talk = "script" /\ position \in Nat /\ position < Talk!Turns /\ history \in Seq(Said)
      /\ Talk!Turns \in Nat /\ MaxTurns \in Nat /\ emitted = 0
      /\ Cardinality(Talk!By(history, "agent")) = position /\ Talk!HoldsScript(history, Replayed(position))
  BY DriverFacts DEF TalkInv, TalkType, HistoryIsWhole, ThreadSoFar, Talk!ScriptedTurn, TalkConstants
<1> DEFINE f == Talk!FromScript(position + 1)
           a == Replayed(position)
           b == Replayed(position + 1)
<1>2. /\ a \in Nat /\ b \in Nat /\ a < b /\ b = Talk!Driver(position + 1) /\ b \in Talk!Drivers
      /\ position < Talk!Turns
  BY <1>1, ReplayedFacts
<1>3. /\ f \in Seq(Said) /\ Len(f) = b - a
      /\ \A x \in 1..(b - a) : f[x] = Talk!Message(Script[a + x], "script")
  BY <1>1, FromScriptFacts
<1> HIDE DEF f, a, b
<1>4. b - a \in 1..Len(f) /\ a + (b - a) = b /\ a + Len(f) = b
  BY <1>2, <1>3
<1>5. \A x \in 1..Len(f) : f[x] = Talk!Message(Script[a + x], "script")
  BY <1>3
<1>6. /\ Talk!HoldsScript(history \o f, b)
      /\ history \o f \in Seq(Said) /\ Len(history \o f) = Len(history) + Len(f)
      /\ (history \o f)[Len(history) + Len(f)] = f[Len(f)]
      /\ Talk!By(history \o f, "agent") = Talk!By(history, "agent")
  <2>1. Talk!HoldsScript(history, a)
    BY <1>1 DEF a
  <2>2. Len(f) \in 1..Len(f)
    BY <1>3, <1>4
  <2>. QED  BY <1>1, <1>2, <1>3, <1>4, <1>5, <2>1, <2>2, ScriptedMessages
<1>7. f[Len(f)] = Talk!Message(Script[b], "script")
  BY <1>3, <1>4
<1>8. input \in Seq(Said) /\ Talk!HoldsScript(input, Replayed(position + 1))
  BY <1>6 DEF f, b
<1>9. Cardinality(Talk!By(input, "agent")) = position
  BY <1>1, <1>6 DEF f
<1>10. Talk!Drives(input[Len(input)].role)
  <2>1. Talk!Drives(Script[b])
    BY <1>2 DEF Talk!Drivers
  <2>2. (history \o f)[Len(history \o f)].role = Script[b]
    BY <1>6, <1>7 DEF Talk!Message
  <2>. QED  BY <2>1, <2>2 DEF f
<1>11. PICK error \in BOOLEAN :
          /\ results' = Append(results, Talk!Result(input, error))
          /\ history' = IF error THEN input ELSE Append(input, Talk!Message("assistant", "agent"))
          /\ talk' = IF error THEN "thread"
                   ELSE IF position + 1 < Talk!Turns THEN "script"
                   ELSE IF Simulates THEN "simulate" ELSE "thread"
  BY DEF Talk!ScriptedTurn
<1>12. /\ position' = position + 1 /\ UNCHANGED <<thread, emitted, collapsed>>
  BY DEF Talk!ScriptedTurn
<1> HIDE DEF input
<1>13. emitted' \in Nat /\ position + 1 <= Talk!Turns + MaxTurns
  BY <1>1, <1>12
<1>14. talk' \in {"thread", "script", "simulate"} /\ (error => talk' = "thread")
  BY <1>11
<1>15. talk' = "script" => position + 1 < Talk!Turns /\ emitted' = 0
  BY <1>1, <1>11, <1>12
<1>16. talk' = "simulate" => /\ position + 1 >= Talk!Turns /\ emitted' = position + 1 - Talk!Turns
                           /\ emitted' <= MaxTurns
  <2>1. talk' = "simulate" => ~(position + 1 < Talk!Turns)
    BY <1>11
  <2>. QED  BY <1>1, <1>12, <2>1
<1>. QED  BY <1>1, <1>8, <1>9, <1>10, <1>11, <1>12, <1>13, <1>14, <1>15, <1>16, TurnStep

LEMMA SimulatedStep == ASSUME TalkConstants, TalkInv, Talk!SimulatedTurn PROVE TalkInv'
<1> DEFINE x == Talk!Message("user", "simulator")
           input == Append(history, x)
<1>1. /\ talk = "simulate" /\ position \in Nat /\ position >= Talk!Turns /\ history \in Seq(Said)
      /\ Talk!Turns \in Nat /\ MaxTurns \in Nat /\ emitted \in Nat /\ emitted = position - Talk!Turns
      /\ Cardinality(Talk!By(history, "agent")) = position /\ Talk!HoldsScript(history, Replayed(position))
  BY DriverFacts DEF TalkInv, TalkType, HistoryIsWhole, ThreadSoFar, Talk!SimulatedTurn, TalkConstants
<1>2. emitted < MaxTurns /\ emitted' = emitted + 1
  BY <1>1 DEF Talk!SimulatedTurn, Talk!Invoke
<1>3. x \in Said /\ x.by = "simulator" /\ x.role = "user"
  BY DEF Talk!Message, Said, TalkRoles, Authors
<1>4. Replayed(position + 1) = Replayed(position) /\ Replayed(position) \in Nat
  BY <1>1, ReplayedFacts
<1> HIDE DEF x
<1>5. /\ Talk!HoldsScript(input, Replayed(position + 1)) /\ input \in Seq(Said)
      /\ input[Len(input)] = x /\ Cardinality(Talk!By(input, "agent")) = position
  <2>1. /\ Talk!HoldsScript(Append(history, x), Replayed(position))
        /\ Append(history, x) \in Seq(Said) /\ Len(Append(history, x)) = Len(history) + 1
        /\ Append(history, x)[Len(history) + 1] = x
        /\ Cardinality(Talk!By(Append(history, x), "agent")) = Cardinality(Talk!By(history, "agent")) + 0
    BY <1>1, <1>3, <1>4, AnotherMessage
  <2>. QED  BY <1>1, <1>4, <2>1
<1>6. Talk!Drives(input[Len(input)].role)
  BY <1>3, <1>5 DEF Talk!Drives
<1>7. PICK error \in BOOLEAN :
          /\ results' = Append(results, Talk!Result(input, error))
          /\ history' = IF error THEN input ELSE Append(input, Talk!Message("assistant", "agent"))
          /\ talk' = IF error THEN "thread" ELSE "simulate"
  BY DEF Talk!SimulatedTurn, x
<1>8. /\ position' = position + 1 /\ UNCHANGED <<thread, collapsed>>
  BY DEF Talk!SimulatedTurn
<1> HIDE DEF input
<1>9. emitted' \in Nat /\ position + 1 <= Talk!Turns + MaxTurns
  BY <1>1, <1>2
<1>10. talk' \in {"thread", "script", "simulate"} /\ (error => talk' = "thread") /\ talk' # "script"
  BY <1>7
<1>11. /\ position + 1 >= Talk!Turns /\ emitted' = position + 1 - Talk!Turns /\ emitted' <= MaxTurns
  BY <1>1, <1>2
<1>. QED  BY <1>1, <1>5, <1>6, <1>7, <1>8, <1>9, <1>10, <1>11, TurnStep

LEMMA CollapseStep == ASSUME TalkConstants, TalkInv, Talk!Collapse PROVE TalkInv'
<1>1. /\ talk = "thread" /\ thread = Threads /\ talk' = "end"
      /\ UNCHANGED <<thread, history, position, emitted, results>>
  BY DEF Talk!Collapse
<1>2. \A t : Talk!InThread(t)' = Talk!InThread(t)
  BY <1>1 DEF Talk!InThread
<1>3. TalkType' /\ HistoryIsWhole' /\ ThreadSoFar' /\ Talk!TurnsSeeTheHistory'
  BY <1>1 DEF TalkInv, TalkType, HistoryIsWhole, ThreadSoFar, Talk!TurnsSeeTheHistory
<1>4. ASSUME NEW t \in 1..thread' PROVE NumberedThread(t)'
  BY <1>1, <1>2 DEF TalkInv, ThreadsAreNumbered, NumberedThread
<1>5. ASSUME NEW t \in 1..Threads
      PROVE  /\ results[Talk!Final(t)].position = Cardinality(Talk!InThread(t)) - 1
             /\ (\E i \in Talk!InThread(t) : results[i].error) = results[Talk!Final(t)].error
  <2> DEFINE I == Talk!InThread(t)
             n == Cardinality(I)
  <2>1. /\ {results[j].position : j \in I} = 0..(n - 1)
        /\ \A i, j \in I : results[i].position = results[j].position => i = j
        /\ \A i, j \in I : results[i].error => results[j].position <= results[i].position
        /\ I # {}
    BY <1>1 DEF TalkInv, ThreadsAreNumbered, NumberedThread
  <2>2. /\ n \in Nat /\ n # 0
        /\ \A i \in I : results[i].position \in Nat /\ results[i].error \in BOOLEAN
    BY <2>1, ThreadFacts, FS_EmptySet DEF TalkInv, TurnResult
  <2> HIDE DEF I, n
  <2>3. n - 1 \in 0..(n - 1)
    BY <2>2
  <2>4. PICK k \in I : results[k].position = n - 1
    BY <2>1, <2>3
  <2>5. \A j \in I : results[j].position \in 0..(n - 1)
    BY <2>1
  <2>6. \A j \in I : results[j].position <= results[k].position
    BY <2>2, <2>4, <2>5
  <2> DEFINE c == Talk!Final(t)
  <2>7. c \in I /\ \A j \in I : results[j].position <= results[c].position
    BY <2>6 DEF Talk!Final, I
  <2> HIDE DEF c
  <2>8. results[c].position = n - 1
    BY <2>2, <2>4, <2>5, <2>7
  <2>9. ASSUME NEW i \in I, results[i].error PROVE i = c
    <3>1. results[i].position = n - 1
      BY <2>1, <2>2, <2>5, <2>7, <2>8, <2>9
    <3>. QED  BY <2>1, <2>7, <2>8, <3>1
  <2>10. (\E i \in I : results[i].error) = results[c].error
    BY <2>2, <2>7, <2>9
  <2>. QED  BY <2>8, <2>10 DEF I, n, c
<1>6. Talk!GradersForCase # {}
  BY DEF Talk!GradersForCase, TalkConstants
<1>7. ASSUME NEW t \in 1..Threads
      PROVE  /\ collapsed'[t].final.position = Cardinality(Talk!InThread(t)) - 1
             /\ collapsed'[t].error = collapsed'[t].final.error
             /\ collapsed'[t].grades # {}
  <2> DEFINE e == \E i \in Talk!InThread(t) : results[i].error
  <2>1. collapsed'[t] = [final |-> results[Talk!Final(t)], turns |-> Cardinality(Talk!InThread(t)),
                         error |-> e, grades |-> Talk!GradersForCase]
    BY DEF Talk!Collapse
  <2> HIDE DEF e
  <2>2. collapsed'[t].final = results[Talk!Final(t)] /\ collapsed'[t].grades = Talk!GradersForCase
    BY <2>1
  <2>3. collapsed'[t].error = e
    BY <2>1
  <2>4. e = results[Talk!Final(t)].error
    BY <1>5 DEF e
  <2>5. collapsed'[t].error = collapsed'[t].final.error
    BY <2>2, <2>3, <2>4
  <2>. QED  BY <1>5, <1>6, <2>2, <2>5
<1>8. Talk!CollapsedIsFinal'
  BY <1>1, <1>2, <1>7 DEF Talk!CollapsedIsFinal
<1>. QED  BY <1>1, <1>3, <1>4, <1>8 DEF TalkInv, ThreadsAreNumbered

LEMMA TalkNext == ASSUME TalkConstants, TalkInv, [Talk!Next]_Talk!vars PROVE TalkInv'
<1>1. CASE Talk!StartThread
  BY <1>1, StartStep
<1>2. CASE Talk!ScriptedTurn
  BY <1>2, ScriptedStep
<1>3. CASE Talk!UserIsDone
  <2>1. emitted' \in Nat
    BY <1>3 DEF Talk!UserIsDone, TalkInv, TalkType
  <2>. QED  BY <1>3, <2>1, ThreadStep DEF Talk!UserIsDone
<1>4. CASE Talk!SimulatedTurn
  BY <1>4, SimulatedStep
<1>5. CASE Talk!SimulatorStops
  <2>1. emitted' \in Nat
    BY <1>5 DEF Talk!SimulatorStops, TalkInv, TalkType
  <2>. QED  BY <1>5, <2>1, ThreadStep DEF Talk!SimulatorStops
<1>6. CASE Talk!Collapse
  BY <1>6, CollapseStep
<1>7. CASE UNCHANGED Talk!vars
  <2>1. \A t : Talk!InThread(t)' = Talk!InThread(t)
    BY <1>7 DEF Talk!vars, Talk!InThread
  <2>2. TalkType' /\ HistoryIsWhole' /\ ThreadSoFar' /\ Talk!TurnsSeeTheHistory'
    BY <1>7, <2>1 DEF Talk!vars, TalkInv, TalkType, HistoryIsWhole, ThreadSoFar, Talk!TurnsSeeTheHistory
  <2>3. ThreadsAreNumbered' /\ Talk!CollapsedIsFinal'
    BY <1>7, <2>1 DEF Talk!vars, TalkInv, ThreadsAreNumbered, NumberedThread, Talk!CollapsedIsFinal
  <2>. QED  BY <1>7, <2>2, <2>3 DEF Talk!vars, TalkInv
<1>. QED  BY <1>1, <1>2, <1>3, <1>4, <1>5, <1>6, <1>7 DEF Talk!Next

(* The properties of a conversation.                                         *)
Whole ==
    /\ Talk!TurnsSeeTheHistory /\ Talk!ThreadsAreUnbroken /\ Talk!SimulatorIsCapped
    /\ Talk!CollapsedIsFinal /\ Talk!CountIsPerThread

LEMMA TalkIsWhole == ASSUME TalkConstants, TalkInv PROVE Whole
<1>1. Talk!ThreadsAreUnbroken /\ Talk!SimulatorIsCapped
  BY DEF TalkInv, ThreadsAreNumbered, NumberedThread, Talk!ThreadsAreUnbroken, Talk!SimulatorIsCapped
<1>2. Talk!CountIsPerThread
  BY DEF TalkInv, ThreadSoFar, Talk!CountIsPerThread
<1>. QED  BY <1>1, <1>2 DEF TalkInv, Whole

(* Every turn of a conversation is given what was said before it, threads are numbered without   *)
(* gaps up to a failed turn, repetitions share nothing, the simulator stops at its limit and the *)
(* collapsed results are the last turns (MultiTurnExecutor.run_case, UserSimulator).             *)
THEOREM TalksAreWhole == ASSUME TalkConstants PROVE Talk!Spec => []Whole
<1>1. Talk!Init => TalkInv
  BY TalkInit
<1>2. TalkInv /\ [Talk!Next]_Talk!vars => TalkInv'
  BY TalkNext
<1>3. TalkInv => Whole
  BY TalkIsWhole
<1>. QED  BY <1>1, <1>2, <1>3, PTL DEF Talk!Spec

HIDE TalkCounts

-----------------------------------------------------------------------------
(***************************************************************************)
(* The repetitions of a case (CaseExecution): for any number of them, of   *)
(* model calls and of retries, a posted span that leaves the buffer is in  *)
(* a trace, and an embedded agent's calls are counted once; of an agent in *)
(* another process that flushes and runs alone, every span is in the trace *)
(* of the repetition it was made in.                                       *)
(***************************************************************************)
CONSTANTS Reps, Concurrency, MaxRetries, Remote, Flushes, MaxCalls

VARIABLES rep, trace, receiver, unsent, failed

Exec == INSTANCE CaseExecution

LEMMA ExecCounts == \A S : Exec!Cardinality(S) = Cardinality(S)
  BY DEF Exec!Cardinality, Cardinality

USE ExecCounts

ExecConstants ==
    /\ IsFiniteSet(Reps) /\ Exec!Nobody \notin Reps
    /\ MaxCalls \in Nat /\ Remote \in BOOLEAN /\ Flushes \in BOOLEAN

AllSpans == Reps \X (0..MaxCalls)

RepState ==
    [pc : {"queued", "invoke", "done", "errored", "crashed"}, attempt : Nat,
     calls : 0..MaxCalls, since : Nat, used : BOOLEAN]

TraceState == [spans : SUBSET AllSpans, tokens : Nat, error : BOOLEAN]

ReceiverState == [bound : Reps \cup {Exec!Nobody}, pending : SUBSET Exec!Spans, stopped : BOOLEAN]

ExecType ==
    /\ rep \in [Reps -> RepState]
    /\ trace \in [Reps -> TraceState]
    /\ receiver \in ReceiverState
    /\ unsent \subseteq Exec!Spans
    /\ failed \in BOOLEAN

Somewhere == unsent \cup receiver.pending \cup UNION {trace[r].spans : r \in Reps}

(* A span is of a call that was made; what makes the next one new.           *)
SpansWereMade == \A s \in Somewhere : s[2] <= rep[s[1]].calls

(* An agent that has not replied has no span of the executor's own.          *)
NotReplied == \A r \in Reps : rep[r].pc \in {"queued", "invoke"} =>
                 \A q \in Reps : Exec!Synthetic(r) \notin trace[q].spans

(* An embedded agent that records its calls itself is not counted again.     *)
Counting ==
    ~Remote => unsent = {} /\ receiver.pending = {} /\ \A r \in Reps :
        /\ rep[r].since <= rep[r].calls
        /\ trace[r].tokens <= rep[r].calls
        /\ rep[r].pc \in {"queued", "invoke"} /\ ~rep[r].used => trace[r].tokens = 0

ExecInv == ExecType /\ SpansWereMade /\ NotReplied /\ Exec!OnePlace /\ Counting

OneAtATime == Concurrency = 1 /\ Remote /\ Flushes

SlotIsTheRunners ==
    /\ \A r \in Reps : Exec!Running(r) => receiver.bound = r
    /\ receiver.bound # Exec!Nobody => Exec!Running(receiver.bound)
    /\ receiver.stopped \/ failed => receiver.bound = Exec!Nobody
    /\ receiver.stopped => failed \/ \A r \in Reps : rep[r].pc \in {"done", "errored"}
    /\ receiver.pending = {}
    /\ \A s \in unsent : receiver.bound = s[1]

EveryCallIsThere ==
    \A r \in Reps : \A n \in 1..rep[r].calls : <<r, n>> \in unsent \cup trace[r].spans

SerialInv == SlotIsTheRunners /\ EveryCallIsThere /\ Exec!SpansDrainIntoTheirCase

LEMMA SpanFacts ==
    ASSUME ExecConstants
    PROVE  /\ IsFiniteSet(Exec!Spans) /\ Exec!Spans \subseteq AllSpans
           /\ \A r \in Reps : Exec!Synthetic(r) \in AllSpans /\ Exec!Synthetic(r) \notin Exec!Spans
           /\ \A S \in SUBSET Exec!Spans : IsFiniteSet(S) /\ Cardinality(S) \in Nat
           /\ \A s : IsFiniteSet({s}) /\ Cardinality({s}) = 1
<1>1. IsFiniteSet(1..MaxCalls)
  <2>1. 1 \in Int /\ MaxCalls \in Int
    BY DEF ExecConstants
  <2>. QED  BY <2>1, FS_Interval
<1>2. IsFiniteSet(Exec!Spans)
  BY <1>1, FS_Product DEF Exec!Spans, ExecConstants
<1>3. Exec!Spans \subseteq AllSpans
  BY DEF ExecConstants, Exec!Spans, AllSpans
<1>4. \A r \in Reps : Exec!Synthetic(r) \in AllSpans /\ Exec!Synthetic(r) \notin Exec!Spans
  BY DEF ExecConstants, Exec!Spans, AllSpans, Exec!Synthetic
<1>5. \A S \in SUBSET Exec!Spans : IsFiniteSet(S) /\ Cardinality(S) \in Nat
  BY <1>2, FS_Subset, FS_CardinalityType
<1>. QED  BY <1>2, <1>3, <1>4, <1>5, FS_Singleton

LEMMA ExecFacts ==
    ASSUME ExecConstants, ExecType, NEW r \in Reps
    PROVE  /\ rep[r] \in RepState /\ trace[r] \in TraceState
           /\ receiver.bound \in Reps \cup {Exec!Nobody} /\ receiver.pending \subseteq Exec!Spans
           /\ receiver.stopped \in BOOLEAN
BY DEF ExecType, ReceiverState

LEMMA ExecInit == ASSUME ExecConstants, Exec!Init PROVE ExecInv
<1>1. [pc |-> "queued", attempt |-> 0, calls |-> 0, since |-> 0, used |-> FALSE] \in RepState
  BY DEF ExecConstants, RepState
<1>2. [spans |-> {}, tokens |-> 0, error |-> FALSE] \in TraceState
  BY DEF TraceState
<1>3. ExecType
  BY <1>1, <1>2 DEF Exec!Init, ExecType, ReceiverState
<1>4. \A r \in Reps : rep[r].calls = 0 /\ rep[r].since = 0 /\ trace[r].spans = {} /\ trace[r].tokens = 0
  BY DEF Exec!Init
<1>5. unsent = {} /\ receiver.pending = {}
  BY DEF Exec!Init
<1>6. SpansWereMade /\ NotReplied /\ Exec!OnePlace
  BY <1>4, <1>5 DEF SpansWereMade, NotReplied, Exec!OnePlace, Somewhere
<1>7. Counting
  BY <1>4, <1>5 DEF Counting
<1>. QED  BY <1>3, <1>6, <1>7 DEF ExecInv

(* Spans that are nowhere yet, or leave the exporter or the buffer, are       *)
(* appended to traces.                                                       *)
LEMMA PlacesMove ==
    ASSUME Exec!OnePlace, NEW add \in [Reps -> SUBSET AllSpans],
           \A q \in Reps : trace'[q].spans = trace[q].spans \cup add[q],
           \A q, p \in Reps : add[q] \cap trace[p].spans = {},
           \A q, p \in Reps : q # p => add[q] \cap add[p] = {},
           \A q \in Reps : add[q] \cap (unsent' \cup receiver'.pending) = {},
           \A q \in Reps : trace[q].spans \cap (unsent' \cup receiver'.pending) = {},
           unsent' \cap receiver'.pending = {}
    PROVE  Exec!OnePlace'
<1>1. ASSUME NEW r \in Reps
      PROVE  /\ trace'[r].spans \cap (unsent' \cup receiver'.pending) = {}
             /\ \A q \in Reps \ {r} : trace'[r].spans \cap trace'[q].spans = {}
  <2>1. trace'[r].spans \cap (unsent' \cup receiver'.pending) = {}
    OBVIOUS
  <2>2. ASSUME NEW q \in Reps \ {r} PROVE trace'[r].spans \cap trace'[q].spans = {}
    <3>1. trace[r].spans \cap trace[q].spans = {} /\ q \in Reps /\ q # r
      BY DEF Exec!OnePlace
    <3>. QED  BY <3>1
  <2>. QED  BY <2>1, <2>2
<1>. QED  BY <1>1 DEF Exec!OnePlace

LEMMA BeginStep == ASSUME ExecConstants, ExecInv, NEW r \in Reps, Exec!Begin(r) PROVE ExecInv'
<1>1. /\ rep' = [rep EXCEPT ![r].pc = "invoke"] /\ UNCHANGED <<trace, unsent, failed>>
      /\ receiver' = [receiver EXCEPT !.bound = r] \/ receiver' = receiver
      /\ rep[r].pc = "queued"
  BY DEF Exec!Begin, Exec!Set
<1>2. ExecType /\ receiver \in ReceiverState
  BY DEF ExecInv, ExecType
<1>3. receiver' \in ReceiverState /\ receiver'.pending = receiver.pending
  BY <1>1, <1>2 DEF ReceiverState
<1>4. /\ rep' \in [Reps -> RepState]
      /\ \A q \in Reps : /\ rep'[q].calls = rep[q].calls /\ rep'[q].since = rep[q].since
                         /\ rep'[q].used = rep[q].used
                         /\ rep'[q].pc = "invoke" => rep[q].pc \in {"queued", "invoke"}
                         /\ rep'[q].pc = "queued" => rep[q].pc = "queued"
  BY <1>1, <1>2 DEF ExecType, RepState
<1>5. ExecType'
  BY <1>1, <1>2, <1>3, <1>4 DEF ExecType
<1>6. SpansWereMade'
  <2>1. \A s \in Somewhere : s[1] \in Reps
    BY <1>2 DEF Somewhere, ExecType, ReceiverState, TraceState, AllSpans, Exec!Spans
  <2>2. Somewhere' = Somewhere
    BY <1>1, <1>3 DEF Somewhere
  <2>. QED  BY <1>4, <2>1, <2>2 DEF ExecInv, SpansWereMade
<1>7. Exec!OnePlace'
  BY <1>1, <1>3 DEF ExecInv, Exec!OnePlace
<1>8. NotReplied' /\ Counting'
  BY <1>1, <1>3, <1>4 DEF ExecInv, NotReplied, Counting
<1>. QED  BY <1>5, <1>6, <1>7, <1>8 DEF ExecInv

LEMMA RetryStep == ASSUME ExecConstants, ExecInv, NEW r \in Reps, Exec!Retry(r) PROVE ExecInv'
<1>1. /\ rep' = [rep EXCEPT ![r].attempt = @ + 1, ![r].since = 0]
      /\ UNCHANGED <<trace, receiver, unsent, failed>>
  BY DEF Exec!Retry
<1>2. ExecType
  BY DEF ExecInv
<1>4. /\ rep' \in [Reps -> RepState]
      /\ \A q \in Reps : /\ rep'[q].calls = rep[q].calls
                         /\ rep'[q].since = rep[q].since \/ rep'[q].since = 0
                         /\ rep'[q].used = rep[q].used /\ rep'[q].pc = rep[q].pc
                         /\ rep[q].calls \in Nat
  <2>1. \A q \in Reps : rep[q] \in RepState
    BY <1>2 DEF ExecType
  <2>2. [rep[r] EXCEPT !.attempt = @ + 1, !.since = 0] \in RepState
    <3>1. rep[r] \in RepState /\ rep[r].attempt + 1 \in Nat
      BY <2>1 DEF RepState
    <3>. QED  BY <3>1 DEF RepState
  <2>3. rep' \in [Reps -> RepState]
    BY <1>1, <1>2, <2>2 DEF ExecType
  <2>4. /\ \A q \in Reps \ {r} : rep'[q] = rep[q]
        /\ rep'[r] = [rep[r] EXCEPT !.attempt = @ + 1, !.since = 0]
    BY <1>1, <1>2 DEF ExecType
  <2>5. \A q \in Reps : rep[q].calls \in Nat
    BY <2>1 DEF RepState
  <2>6. /\ rep'[r].calls = rep[r].calls /\ rep'[r].since = 0
        /\ rep'[r].used = rep[r].used /\ rep'[r].pc = rep[r].pc
    BY <2>1, <2>4 DEF RepState
  <2>. QED  BY <2>3, <2>4, <2>5, <2>6
<1>5. ExecType'
  BY <1>1, <1>2, <1>4 DEF ExecType
<1>6. SpansWereMade'
  <2>1. \A s \in Somewhere : s[1] \in Reps
    BY <1>2 DEF Somewhere, ExecType, ReceiverState, TraceState, AllSpans, Exec!Spans
  <2>2. Somewhere' = Somewhere
    BY <1>1 DEF Somewhere
  <2>. QED  BY <1>4, <2>1, <2>2 DEF ExecInv, SpansWereMade
<1>7. Exec!OnePlace'
  BY <1>1 DEF ExecInv, Exec!OnePlace
<1>8. NotReplied' /\ Counting'
  <2>1. Counting'
    <3>1. \A q \in Reps : rep'[q].since <= rep'[q].calls \/ Remote
      BY <1>4 DEF ExecInv, Counting
    <3>. QED  BY <1>1, <1>4, <3>1 DEF ExecInv, Counting
  <2>. QED  BY <1>1, <1>4, <2>1 DEF ExecInv, NotReplied
<1>. QED  BY <1>5, <1>6, <1>7, <1>8 DEF ExecInv

LEMMA CallStep == ASSUME ExecConstants, ExecInv, NEW r \in Reps, Exec!ModelCall(r) PROVE ExecInv'
<1> DEFINE n == rep[r].calls + 1
           new == <<r, n>>
<1>1. /\ rep[r].pc = "invoke" /\ rep[r].calls < MaxCalls /\ UNCHANGED <<receiver, failed>>
  BY DEF Exec!ModelCall, Exec!Running
<1>2. ExecType /\ receiver \in ReceiverState /\ rep[r] \in RepState /\ trace[r] \in TraceState
  BY ExecFacts DEF ExecInv, ExecType
<1>3. n \in 1..MaxCalls /\ new \in Exec!Spans /\ new \in AllSpans /\ new[1] = r /\ new[2] = n
  BY <1>1, <1>2, SpanFacts DEF RepState, ExecConstants, Exec!Spans
<1>4. new \notin Somewhere
  <2>1. ~(n <= rep[r].calls)
    BY <1>2 DEF RepState
  <2>. QED  BY <1>3, <2>1 DEF ExecInv, SpansWereMade
<1>5. new \notin unsent /\ new \notin receiver.pending /\ \A q \in Reps : new \notin trace[q].spans
  BY <1>4 DEF Somewhere
<1>6. /\ DOMAIN rep' = Reps /\ \A q \in Reps \ {r} : rep'[q] = rep[q]
      /\ rep'[r].pc = "invoke" /\ rep'[r].calls = n /\ rep'[r].since = rep[r].since + 1
      /\ rep'[r] \in RepState
      /\ Remote => /\ unsent' = unsent \cup {new} /\ trace' = trace
      /\ ~Remote => /\ unsent' = unsent
                    /\ \/ trace' = trace /\ rep'[r].used = rep[r].used
                       \/ Exec!feed_to_recorder({new}, r) /\ rep'[r].used
  <2>1. CASE Remote
    BY <1>1, <1>2, <1>3, <2>1 DEF Exec!ModelCall, ExecType, RepState
  <2>2. CASE ~Remote
    <3>1. PICK emits \in BOOLEAN :
              /\ rep' = [rep EXCEPT ![r].calls = n, ![r].since = @ + 1, ![r].used = @ \/ emits]
              /\ IF emits THEN Exec!feed_to_recorder({new}, r) ELSE UNCHANGED trace
      BY <2>2 DEF Exec!ModelCall
    <3> DEFINE u == rep[r].used \/ emits
    <3>2. u \in BOOLEAN /\ (emits => u) /\ (~emits => u = rep[r].used)
      BY <1>2 DEF RepState
    <3>3. rep' = [rep EXCEPT ![r].calls = n, ![r].since = @ + 1, ![r].used = u]
      BY <3>1
    <3> HIDE DEF u
    <3>4. /\ DOMAIN rep' = Reps /\ \A q \in Reps \ {r} : rep'[q] = rep[q]
          /\ rep'[r] = [rep[r] EXCEPT !.calls = n, !.since = @ + 1, !.used = u]
      BY <1>2, <3>3 DEF ExecType
    <3>5. unsent' = unsent
      BY <2>2 DEF Exec!ModelCall
    <3>6. /\ rep'[r].pc = "invoke" /\ rep'[r].calls = n /\ rep'[r].since = rep[r].since + 1
          /\ rep'[r].used = u /\ rep'[r] \in RepState
      <4>1. rep[r].since + 1 \in Nat /\ n \in 0..MaxCalls
        BY <1>2, <1>3 DEF RepState
      <4> HIDE DEF n
      <4>. QED  BY <1>1, <1>2, <3>2, <3>4, <4>1 DEF RepState
    <3>. QED  BY <2>2, <3>1, <3>2, <3>4, <3>5, <3>6
  <2>. QED  BY <2>1, <2>2 DEF ExecConstants
<1> HIDE DEF new, n
<1>7. /\ DOMAIN trace' = Reps /\ \A q \in Reps : trace'[q] \in TraceState
      /\ \A q \in Reps \ {r} : trace'[q] = trace[q]
      /\ \/ Remote /\ trace' = trace
         \/ trace' = trace /\ rep'[r].used = rep[r].used
         \/ /\ trace'[r].spans = trace[r].spans \cup {new}
            /\ trace'[r].tokens = trace[r].tokens + 1
            /\ rep'[r].used
  <2>0. DOMAIN trace = Reps /\ \A q \in Reps : trace[q] \in TraceState
    BY <1>2 DEF ExecType
  <2>1. CASE trace' = trace /\ (Remote \/ rep'[r].used = rep[r].used)
    BY <2>0, <2>1
  <2>2. CASE Exec!feed_to_recorder({new}, r) /\ rep'[r].used
    <3>1. trace' = [trace EXCEPT ![r].spans = @ \cup {new}, ![r].tokens = @ + 1]
      BY <2>2, SpanFacts DEF Exec!feed_to_recorder
    <3>. QED  BY <1>2, <1>3, <2>0, <2>2, <3>1 DEF TraceState
  <2>. QED  BY <1>6, <2>1, <2>2 DEF ExecConstants
<1>8. ExecType'
  <2>1. rep' \in [Reps -> RepState]
    <3>1. \A q \in Reps : rep'[q] \in RepState
      BY <1>2, <1>6 DEF ExecType
    <3>2. rep' = [q \in Reps |-> rep'[q]]
      BY <1>2 DEF ExecType, Exec!ModelCall
    <3>. QED  BY <3>1, <3>2
  <2>2. trace' \in [Reps -> TraceState]
    <3>1. trace' = [q \in Reps |-> trace'[q]]
      BY <1>2 DEF ExecType, Exec!ModelCall, Exec!feed_to_recorder
    <3>. QED  BY <1>7, <3>1
  <2>3. unsent' \subseteq Exec!Spans
    BY <1>2, <1>3, <1>6 DEF ExecType, ExecConstants
  <2>. QED  BY <1>1, <1>2, <2>1, <2>2, <2>3 DEF ExecType
<1>9. Exec!OnePlace'
  <2> DEFINE add == [q \in Reps |-> IF trace'[q].spans = trace[q].spans THEN {} ELSE {new}]
  <2>1. add \in [Reps -> SUBSET AllSpans]
    BY <1>3
  <2>2. \A q \in Reps : trace'[q].spans = trace[q].spans \cup add[q]
    BY <1>7
  <2>3. \A q, p \in Reps : add[q] \cap trace[p].spans = {}
    BY <1>5
  <2>4. \A q, p \in Reps : q # p => add[q] \cap add[p] = {}
    BY <1>7
  <2>5. \A q \in Reps : trace[q].spans \cap (unsent' \cup receiver'.pending) = {}
    BY <1>1, <1>5, <1>6 DEF ExecInv, Exec!OnePlace, ExecConstants
  <2>6. unsent' \cap receiver'.pending = {}
    BY <1>1, <1>5, <1>6 DEF ExecInv, Exec!OnePlace, ExecConstants
  <2>7. \A q \in Reps : add[q] \cap (unsent' \cup receiver'.pending) = {}
    <3>1. CASE Remote
      BY <1>6, <3>1
    <3>2. CASE ~Remote
      BY <1>1, <1>5, <1>6, <3>2
    <3>. QED  BY <3>1, <3>2
  <2> HIDE DEF add
  <2>. QED  BY <2>1, <2>2, <2>3, <2>4, <2>5, <2>6, <2>7, PlacesMove DEF ExecInv
<1>10. SpansWereMade'
  <2>1. \A s \in Somewhere : s[1] \in Reps
    BY <1>2 DEF Somewhere, ExecType, ReceiverState, TraceState, AllSpans, Exec!Spans
  <2>2. Somewhere' \subseteq Somewhere \cup {new}
    BY <1>1, <1>6, <1>7 DEF Somewhere, ExecConstants
  <2>3. \A q \in Reps : rep[q].calls <= rep'[q].calls /\ rep[q].calls \in Int /\ rep'[q].calls \in Int
    BY <1>2, <1>6 DEF ExecType, RepState, n
  <2>4. \A s \in Somewhere : s[2] \in Int
    BY <1>2 DEF Somewhere, ExecType, ReceiverState, TraceState, AllSpans, Exec!Spans
  <2>5. \A s \in Somewhere : s[2] <= rep'[s[1]].calls
    BY <2>1, <2>3, <2>4 DEF ExecInv, SpansWereMade
  <2>6. new[2] <= rep'[new[1]].calls
    BY <1>3, <1>6
  <2>. QED  BY <2>2, <2>5, <2>6 DEF SpansWereMade
<1>11. NotReplied'
  <2>1. \A q \in Reps : Exec!Synthetic(q) # new
    BY <1>3, SpanFacts
  <2>2. \A q \in Reps : rep'[q].pc = rep[q].pc
    BY <1>1, <1>6
  <2>. QED  BY <1>7, <2>1, <2>2 DEF ExecInv, NotReplied
<1>12. Counting'
  <2>1. SUFFICES ASSUME ~Remote, NEW q \in Reps
                 PROVE  /\ rep'[q].since <= rep'[q].calls
                        /\ trace'[q].tokens <= rep'[q].calls
                        /\ rep'[q].pc \in {"queued", "invoke"} /\ ~rep'[q].used => trace'[q].tokens = 0
    BY <1>1, <1>6 DEF ExecInv, Counting
  <2>2. /\ rep[q].since <= rep[q].calls /\ trace[q].tokens <= rep[q].calls
        /\ rep[q].pc \in {"queued", "invoke"} /\ ~rep[q].used => trace[q].tokens = 0
    BY <2>1 DEF ExecInv, Counting
  <2>3. CASE q # r
    BY <1>6, <1>7, <2>2, <2>3
  <2>4. CASE q = r
    <3>1. rep[r].calls \in Nat /\ rep[r].since \in Nat /\ trace[r].tokens \in Nat
      BY <1>2 DEF RepState, TraceState
    <3>. QED  BY <1>1, <1>6, <1>7, <2>1, <2>2, <2>4, <3>1 DEF n
  <2>. QED  BY <2>3, <2>4
<1>. QED  BY <1>8, <1>9, <1>10, <1>11, <1>12 DEF ExecInv

LEMMA PushStep == ASSUME ExecConstants, ExecInv, NEW s \in unsent, Exec!Push(s) PROVE ExecInv'
<1> DEFINE b == receiver.bound
<1>1. /\ unsent' = unsent \ {s} /\ UNCHANGED <<rep, failed>>
      /\ \/ trace' = trace /\ receiver' = receiver
         \/ b # Exec!Nobody /\ Exec!feed_to_recorder({s}, b) /\ receiver' = receiver
         \/ trace' = trace /\ receiver' = [receiver EXCEPT !.pending = @ \cup {s}]
  BY DEF Exec!Push
<1>2. /\ ExecType /\ receiver \in ReceiverState /\ s \in Exec!Spans /\ s \in AllSpans
      /\ b \in Reps \cup {Exec!Nobody} /\ unsent \subseteq Exec!Spans
  BY SpanFacts DEF ExecInv, ExecType, ReceiverState
<1>3. s \notin receiver.pending /\ \A q \in Reps : s \notin trace[q].spans
  BY DEF ExecInv, Exec!OnePlace
<1>4. /\ DOMAIN trace' = Reps /\ \A q \in Reps : trace'[q] \in TraceState
      /\ trace' = [q \in Reps |-> trace'[q]]
      /\ \/ trace' = trace
         \/ /\ b \in Reps /\ trace'[b].spans = trace[b].spans \cup {s} /\ receiver' = receiver
            /\ \A q \in Reps \ {b} : trace'[q] = trace[q]
            /\ trace'[b].tokens = trace[b].tokens + 1
  <2>0. trace \in [Reps -> TraceState]
    BY <1>2 DEF ExecType
  <2>1. CASE trace' = trace
    BY <2>0, <2>1
  <2>2. CASE b # Exec!Nobody /\ Exec!feed_to_recorder({s}, b) /\ receiver' = receiver
    <3>1. trace' = [trace EXCEPT ![b].spans = @ \cup {s}, ![b].tokens = @ + 1]
      BY <2>2, SpanFacts DEF Exec!feed_to_recorder
    <3>2. b \in Reps
      BY <1>2, <2>2
    <3>. DEFINE t == [trace[b] EXCEPT !.spans = @ \cup {s}, !.tokens = @ + 1]
    <3>3. trace[b] \in TraceState
      BY <2>0, <3>2
    <3>4. t \in TraceState /\ t.spans = trace[b].spans \cup {s} /\ t.tokens = trace[b].tokens + 1
      <4>1. ASSUME NEW u \in TraceState, NEW v, v = [u EXCEPT !.spans = @ \cup {s}, !.tokens = @ + 1]
            PROVE  v \in TraceState /\ v.spans = u.spans \cup {s} /\ v.tokens = u.tokens + 1
        <5>1. /\ u = [spans |-> u.spans, tokens |-> u.tokens, error |-> u.error]
              /\ u.spans \subseteq AllSpans /\ u.tokens \in Nat /\ u.error \in BOOLEAN
          BY <4>1 DEF TraceState
        <5>2. v = [spans |-> u.spans \cup {s}, tokens |-> u.tokens + 1, error |-> u.error]
          BY <4>1, <5>1
        <5>3. u.spans \cup {s} \subseteq AllSpans
          BY <1>2, <5>1
        <5>. QED  BY <5>1, <5>2, <5>3 DEF TraceState
      <4>. QED  BY <3>3, <4>1
    <3>5. trace' = [trace EXCEPT ![b] = t]
      BY <3>1
    <3>. HIDE DEF t
    <3>6. DOMAIN trace' = Reps /\ trace'[b] = t /\ \A q \in Reps \ {b} : trace'[q] = trace[q]
      BY <2>0, <3>2, <3>5
    <3>7. trace' = [q \in Reps |-> trace'[q]] /\ \A q \in Reps : trace'[q] \in TraceState
      BY <2>0, <3>4, <3>5, <3>6
    <3>. QED  BY <2>2, <3>2, <3>4, <3>6, <3>7
  <2>. QED  BY <1>1, <2>1, <2>2
<1>5. /\ receiver' \in ReceiverState /\ receiver'.bound = b
      /\ receiver'.pending \subseteq receiver.pending \cup {s}
      /\ trace' # trace => receiver' = receiver
  BY <1>1, <1>2 DEF ReceiverState
<1> HIDE DEF b
<1>6. ExecType'
  BY <1>1, <1>2, <1>4, <1>5 DEF ExecType
<1>7. Exec!OnePlace'
  <2> DEFINE add == [q \in Reps |-> IF trace'[q].spans = trace[q].spans THEN {} ELSE {s}]
  <2>1. add \in [Reps -> SUBSET AllSpans]
    BY <1>2
  <2>2. \A q \in Reps : trace'[q].spans = trace[q].spans \cup add[q]
    BY <1>4
  <2>3. \A q, p \in Reps : add[q] \cap trace[p].spans = {}
    BY <1>3
  <2>4. \A q, p \in Reps : q # p => add[q] \cap add[p] = {}
    BY <1>4
  <2>5. \A q \in Reps : trace[q].spans \cap (unsent' \cup receiver'.pending) = {}
    BY <1>1, <1>3, <1>5 DEF ExecInv, Exec!OnePlace
  <2>6. unsent' \cap receiver'.pending = {}
    BY <1>1, <1>5 DEF ExecInv, Exec!OnePlace
  <2>7. \A q \in Reps : add[q] \cap (unsent' \cup receiver'.pending) = {}
    BY <1>1, <1>3, <1>5
  <2> HIDE DEF add
  <2>. QED  BY <2>1, <2>2, <2>3, <2>4, <2>5, <2>6, <2>7, PlacesMove DEF ExecInv
<1>8. SpansWereMade'
  <2>1. Somewhere' \subseteq Somewhere
    BY <1>1, <1>4, <1>5 DEF Somewhere
  <2>. QED  BY <1>1, <2>1 DEF ExecInv, SpansWereMade
<1>9. NotReplied'
  <2>1. \A q \in Reps : Exec!Synthetic(q) # s
    BY <1>2, SpanFacts
  <2>. QED  BY <1>1, <1>4, <2>1 DEF ExecInv, NotReplied
<1>10. Counting'
  BY DEF ExecInv, Counting
<1>. QED  BY <1>6, <1>7, <1>8, <1>9, <1>10 DEF ExecInv

LEMMA LoseStep == ASSUME ExecConstants, ExecInv, NEW s \in unsent, Exec!ExportFails(s) PROVE ExecInv'
<1>1. unsent' = unsent \ {s} /\ UNCHANGED <<rep, trace, receiver, failed>>
  BY DEF Exec!ExportFails
<1>2. ExecType' /\ Exec!OnePlace' /\ NotReplied'
  BY <1>1 DEF ExecInv, ExecType, Exec!OnePlace, NotReplied
<1>3. SpansWereMade'
  <2>1. Somewhere' \subseteq Somewhere
    BY <1>1 DEF Somewhere
  <2>. QED  BY <1>1, <2>1 DEF ExecInv, SpansWereMade
<1>4. Counting'
  BY DEF ExecInv, Counting
<1>. QED  BY <1>2, <1>3, <1>4 DEF ExecInv

LEMMA CloseStep == ASSUME ExecConstants, ExecInv, Exec!Close PROVE ExecInv'
<1>1. receiver' = [receiver EXCEPT !.stopped = TRUE] /\ UNCHANGED <<rep, trace, unsent, failed>>
  BY DEF Exec!Close
<1>2. receiver \in ReceiverState
  BY DEF ExecInv, ExecType
<1>3. receiver' \in ReceiverState /\ receiver'.pending = receiver.pending
  BY <1>1, <1>2 DEF ReceiverState
<1>4. ExecType' /\ Exec!OnePlace' /\ NotReplied' /\ Counting'
  BY <1>1, <1>3 DEF ExecInv, ExecType, Exec!OnePlace, NotReplied, Counting
<1>5. SpansWereMade'
  <2>1. Somewhere' = Somewhere
    BY <1>1, <1>3 DEF Somewhere
  <2>. QED  BY <1>1, <2>1 DEF ExecInv, SpansWereMade
<1>. QED  BY <1>4, <1>5 DEF ExecInv

(* What the end of a repetition leaves: its own span at most, and what was   *)
(* pending in the trace that is bound.                                       *)
EndedWith(r, to, own) ==
    /\ rep' = [rep EXCEPT ![r].pc = to]
    /\ own \in [Reps -> TraceState]
    /\ \A q \in Reps \ {r} : own[q] = trace[q]
    /\ own[r].spans \in {trace[r].spans, trace[r].spans \cup {Exec!Synthetic(r)}}
    /\ ~Remote => own[r].tokens <= rep[r].calls
    /\ Exec!DrainAndUnbind(r, own)
    /\ unsent' = unsent /\ failed' \in BOOLEAN

Drained(q) == IF Remote /\ q = receiver.bound THEN receiver.pending ELSE {}

LEMMA DrainFacts ==
    ASSUME ExecConstants, ExecInv, NEW r \in Reps, NEW to, NEW own, EndedWith(r, to, own)
    PROVE  /\ trace' \in [Reps -> TraceState]
           /\ \A q \in Reps : trace'[q].spans = own[q].spans \cup Drained(q)
           /\ ~Remote => trace' = own
           /\ receiver' \in ReceiverState
           /\ receiver'.pending \subseteq receiver.pending
           /\ \A q \in Reps : Drained(q) \cap receiver'.pending = {}
           /\ \A s \in receiver.pending \ receiver'.pending : \E q \in Reps : s \in Drained(q)
           /\ Remote => receiver'.bound = Exec!Nobody
           /\ receiver'.stopped = receiver.stopped
<1> DEFINE b == receiver.bound
           p == receiver.pending
<1>1. /\ own \in [Reps -> TraceState] /\ receiver \in ReceiverState /\ b \in Reps \cup {Exec!Nobody}
      /\ p \subseteq Exec!Spans /\ p \subseteq AllSpans /\ Cardinality(p) \in Nat
  BY SpanFacts DEF EndedWith, ExecInv, ExecType, ReceiverState
<1>2. CASE ~Remote
  <2>1. trace' = own /\ receiver' = receiver
    BY <1>2 DEF EndedWith, Exec!DrainAndUnbind
  <2>2. receiver.pending = {}
    BY <1>2 DEF ExecInv, Counting
  <2>. QED  BY <1>1, <1>2, <2>1, <2>2 DEF Drained
<1>3. CASE Remote /\ b = Exec!Nobody
  <2>1. trace' = own /\ receiver' = [receiver EXCEPT !.bound = Exec!Nobody, !.pending = @]
    BY <1>3 DEF EndedWith, Exec!DrainAndUnbind
  <2>2. \A q \in Reps : Drained(q) = {}
    BY <1>3 DEF Drained, ExecConstants
  <2>3. receiver' \in ReceiverState /\ receiver'.pending = p /\ receiver'.stopped = receiver.stopped
        /\ receiver'.bound = Exec!Nobody
    BY <1>1, <1>3, <2>1 DEF ReceiverState
  <2>. QED  BY <1>1, <1>3, <2>1, <2>2, <2>3
<1>4. CASE Remote /\ b # Exec!Nobody
  <2>1. /\ trace' = [own EXCEPT ![b].spans = @ \cup p, ![b].tokens = @ + Cardinality(p)]
        /\ receiver' = [receiver EXCEPT !.bound = Exec!Nobody, !.pending = {}]
    BY <1>4 DEF EndedWith, Exec!DrainAndUnbind
  <2>2. /\ receiver' \in ReceiverState /\ receiver'.pending = {} /\ receiver'.bound = Exec!Nobody
        /\ receiver'.stopped = receiver.stopped
    BY <1>1, <2>1 DEF ReceiverState
  <2>3. b \in Reps /\ own[b] \in TraceState
    BY <1>1, <1>4
  <2> HIDE DEF b, p
  <2>4. /\ DOMAIN trace' = Reps /\ \A q \in Reps \ {b} : trace'[q] = own[q]
        /\ trace'[b].spans = own[b].spans \cup p /\ trace'[b] \in TraceState
    <3>1. own[b].tokens + Cardinality(p) \in Nat /\ own[b].spans \cup p \in SUBSET AllSpans
      BY <1>1, <2>3 DEF TraceState
    <3>2. /\ DOMAIN trace' = Reps /\ \A q \in Reps \ {b} : trace'[q] = own[q]
          /\ trace'[b] = [own[b] EXCEPT !.spans = @ \cup p, !.tokens = @ + Cardinality(p)]
      BY <1>1, <2>1, <2>3
    <3>. QED  BY <2>3, <3>1, <3>2 DEF TraceState
  <2>5. trace' \in [Reps -> TraceState]
    BY <1>1, <2>1, <2>4
  <2>6. \A q \in Reps : Drained(q) = IF q = b THEN p ELSE {}
    BY <1>4 DEF Drained, b, p
  <2>. QED  BY <1>4, <2>2, <2>3, <2>4, <2>5, <2>6 DEF p
<1>. QED  BY <1>2, <1>3, <1>4

LEMMA EndStep ==
    ASSUME ExecConstants, ExecInv, NEW r \in Reps, Exec!Running(r),
           NEW to \in {"done", "errored", "crashed"}, NEW own, EndedWith(r, to, own)
    PROVE  ExecInv'
<1>1. /\ rep' = [rep EXCEPT ![r].pc = to] /\ unsent' = unsent /\ failed' \in BOOLEAN
      /\ \A q \in Reps \ {r} : own[q] = trace[q]
      /\ own[r].spans \in {trace[r].spans, trace[r].spans \cup {Exec!Synthetic(r)}}
      /\ ~Remote => own[r].tokens <= rep[r].calls
  BY DEF EndedWith
<1>2. ExecType /\ receiver \in ReceiverState /\ receiver.pending \subseteq Exec!Spans
  BY DEF ExecInv, ExecType, ReceiverState
<1>3. /\ rep' \in [Reps -> RepState]
      /\ \A q \in Reps : /\ rep'[q].calls = rep[q].calls /\ rep'[q].since = rep[q].since
                         /\ rep'[q].used = rep[q].used /\ rep[q].calls \in Nat
                         /\ rep'[q].pc \in {"queued", "invoke"} => q # r /\ rep[q].pc = rep'[q].pc
  BY <1>1, <1>2 DEF ExecType, RepState
<1>4. ExecType'
  BY <1>1, <1>2, <1>3, DrainFacts DEF ExecType
<1>5. Exec!Synthetic(r) \in AllSpans /\ Exec!Synthetic(r) \notin Exec!Spans /\ \A q \in Reps : Exec!Synthetic(r) \notin trace[q].spans
  BY SpanFacts DEF ExecInv, NotReplied, Exec!Running
<1>6. Exec!OnePlace'
  <2> DEFINE made(q) == IF q = r /\ own[r].spans # trace[r].spans THEN {Exec!Synthetic(r)} ELSE {}
             add == [q \in Reps |-> made(q) \cup Drained(q)]
  <2>0. \A q \in Reps : Drained(q) \subseteq receiver.pending /\ Drained(q) \subseteq Exec!Spans
    BY <1>2 DEF Drained
  <2>1. add \in [Reps -> SUBSET AllSpans]
    BY <1>5, <2>0, SpanFacts
  <2>2. \A q \in Reps : trace'[q].spans = trace[q].spans \cup add[q]
    <3>1. \A q \in Reps : trace'[q].spans = own[q].spans \cup Drained(q)
      BY DrainFacts
    <3>2. \A q \in Reps : own[q].spans = trace[q].spans \cup made(q)
      BY <1>1
    <3> HIDE DEF made
    <3>. QED  BY <3>1, <3>2
  <2>3. \A q, p \in Reps : add[q] \cap trace[p].spans = {}
    BY <1>5, <2>0 DEF ExecInv, Exec!OnePlace
  <2>4. \A q, p \in Reps : q # p => add[q] \cap add[p] = {}
    BY <1>5, <2>0 DEF Drained
  <2>5. receiver'.pending \subseteq receiver.pending /\ receiver'.pending \subseteq Exec!Spans
    BY <1>2, DrainFacts
  <2>6. \A q \in Reps : trace[q].spans \cap (unsent' \cup receiver'.pending) = {}
    BY <1>1, <2>5 DEF ExecInv, Exec!OnePlace
  <2>7. unsent' \cap receiver'.pending = {} /\ unsent \subseteq Exec!Spans
    BY <1>1, <1>2, <2>5 DEF ExecInv, Exec!OnePlace, ExecType
  <2>8. \A q \in Reps : Drained(q) \cap receiver'.pending = {} /\ Drained(q) \cap unsent = {}
    BY <2>0, DrainFacts DEF ExecInv, Exec!OnePlace
  <2>9. \A q \in Reps : add[q] \cap (unsent' \cup receiver'.pending) = {}
    BY <1>1, <1>5, <2>5, <2>7, <2>8
  <2> HIDE DEF add
  <2>. QED  BY <2>1, <2>2, <2>3, <2>4, <2>6, <2>7, <2>9, PlacesMove DEF ExecInv
<1>7. SpansWereMade'
  <2>1. \A s \in Somewhere : s[1] \in Reps
    BY <1>2 DEF Somewhere, ExecType, ReceiverState, TraceState, AllSpans, Exec!Spans
  <2>2. Somewhere' \subseteq Somewhere \cup {Exec!Synthetic(r)}
    <3>1. \A q \in Reps : trace'[q].spans \subseteq trace[q].spans \cup {Exec!Synthetic(r)} \cup receiver.pending
      BY <1>1, DrainFacts DEF Drained
    <3>2. receiver'.pending \subseteq receiver.pending
      BY DrainFacts
    <3>. QED  BY <1>1, <3>1, <3>2 DEF Somewhere
  <2>3. Exec!Synthetic(r)[1] = r /\ Exec!Synthetic(r)[2] = 0 /\ 0 <= rep'[r].calls
    BY <1>3 DEF Exec!Synthetic
  <2>. QED  BY <1>3, <2>1, <2>2, <2>3 DEF ExecInv, SpansWereMade
<1>8. NotReplied'
  <2>1. \A q \in Reps : trace'[q].spans \subseteq trace[q].spans \cup {Exec!Synthetic(r)} \cup Exec!Spans
    BY <1>1, <1>2, DrainFacts DEF Drained
  <2>2. \A q \in Reps : q # r => Exec!Synthetic(q) # Exec!Synthetic(r) /\ Exec!Synthetic(q) \notin Exec!Spans
    BY SpanFacts DEF Exec!Synthetic
  <2>. QED  BY <1>3, <2>1, <2>2 DEF ExecInv, NotReplied
<1>9. Counting'
  <2>1. SUFFICES ASSUME ~Remote PROVE Counting'
    BY DEF Counting
  <2>2. trace' = own /\ unsent' = {} /\ receiver'.pending = {}
    BY <1>1, <2>1, DrainFacts DEF ExecInv, Counting
  <2>3. \A q \in Reps : q # r => trace'[q] = trace[q]
    BY <1>1, <2>2
  <2>. QED  BY <1>1, <1>3, <2>1, <2>2, <2>3 DEF ExecInv, Counting
<1>. QED  BY <1>4, <1>6, <1>7, <1>8, <1>9 DEF ExecInv

LEMMA ReplyEnds ==
    ASSUME ExecConstants, ExecInv, NEW r \in Reps, Exec!Reply(r)
    PROVE  EndedWith(r, "done", Exec!Recorded(r))
<1>1. /\ rep[r] \in RepState /\ trace[r] \in TraceState /\ trace \in [Reps -> TraceState]
      /\ rep[r].pc = "invoke" /\ failed \in BOOLEAN
  BY DEF ExecInv, ExecType, Exec!Reply, Exec!Running
<1>2. CASE rep[r].used
  <2>1. Exec!Recorded(r) = trace
    BY <1>2 DEF Exec!Recorded
  <2>2. ~Remote => trace[r].tokens <= rep[r].calls
    BY DEF ExecInv, Counting
  <2>. QED  BY <1>1, <2>1, <2>2 DEF Exec!Reply, Exec!Set, EndedWith
<1>3. CASE ~rep[r].used
  <2> DEFINE own == Exec!Recorded(r)
  <2>1. own = [trace EXCEPT ![r].spans = @ \cup {Exec!Synthetic(r)}, ![r].tokens = @ + rep[r].since]
    BY <1>3 DEF Exec!Recorded
  <2>2. /\ Exec!Synthetic(r) \in AllSpans /\ trace[r].tokens + rep[r].since \in Nat
    BY <1>1, SpanFacts DEF RepState, TraceState
  <2> HIDE DEF own
  <2>3. /\ own \in [Reps -> TraceState] /\ \A q \in Reps \ {r} : own[q] = trace[q]
        /\ own[r].spans = trace[r].spans \cup {Exec!Synthetic(r)}
        /\ own[r].tokens = trace[r].tokens + rep[r].since
    BY <1>1, <2>1, <2>2 DEF TraceState
  <2>4. ~Remote => own[r].tokens <= rep[r].calls
    <3>1. ~Remote => trace[r].tokens = 0 /\ rep[r].since <= rep[r].calls
      BY <1>1, <1>3 DEF ExecInv, Counting
    <3>. QED  BY <1>1, <2>3, <3>1 DEF RepState
  <2>. QED  BY <1>1, <2>3, <2>4 DEF Exec!Reply, Exec!Set, EndedWith, own
<1>. QED  BY <1>2, <1>3

LEMMA ErrorEnds ==
    ASSUME ExecConstants, ExecInv, NEW r \in Reps, Exec!AdapterFails(r) \/ Exec!Crash(r)
    PROVE  \E to \in {"errored", "crashed"} : EndedWith(r, to, [trace EXCEPT ![r].error = TRUE])
<1> DEFINE own == [trace EXCEPT ![r].error = TRUE]
<1>1. /\ trace[r] \in TraceState /\ trace \in [Reps -> TraceState] /\ failed \in BOOLEAN
  BY DEF ExecInv, ExecType
<1>2. /\ own \in [Reps -> TraceState] /\ \A q \in Reps \ {r} : own[q] = trace[q]
      /\ own[r].spans = trace[r].spans /\ own[r].tokens = trace[r].tokens
  BY <1>1 DEF TraceState
<1>3. ~Remote => own[r].tokens <= rep[r].calls
  BY <1>2 DEF ExecInv, Counting
<1> HIDE DEF own
<1>4. CASE Exec!AdapterFails(r)
  BY <1>1, <1>2, <1>3, <1>4 DEF Exec!AdapterFails, Exec!Set, EndedWith, own
<1>5. CASE Exec!Crash(r)
  BY <1>1, <1>2, <1>3, <1>5 DEF Exec!Crash, Exec!Set, EndedWith, own
<1>. QED  BY <1>4, <1>5 DEF own

LEMMA ExecNext == ASSUME ExecConstants, ExecInv, [Exec!Next]_Exec!vars PROVE ExecInv'
<1>1. ASSUME NEW r \in Reps, Exec!Begin(r) \/ Exec!ModelCall(r) \/ Exec!Retry(r) PROVE ExecInv'
  BY <1>1, BeginStep, CallStep, RetryStep
<1>2. ASSUME NEW r \in Reps, Exec!Reply(r) PROVE ExecInv'
  BY <1>2, ReplyEnds, EndStep DEF Exec!Reply
<1>3. ASSUME NEW r \in Reps, Exec!AdapterFails(r) \/ Exec!Crash(r) PROVE ExecInv'
  <2>1. Exec!Running(r)
    BY <1>3 DEF Exec!AdapterFails, Exec!Crash
  <2>. QED  BY <1>3, <2>1, ErrorEnds, EndStep
<1>4. ASSUME NEW s \in unsent, Exec!Push(s) \/ Exec!ExportFails(s) PROVE ExecInv'
  BY <1>4, PushStep, LoseStep
<1>5. CASE UNCHANGED Exec!vars
  <2>1. Somewhere' = Somewhere
    BY <1>5 DEF Exec!vars, Somewhere
  <2>. QED  BY <1>5, <2>1 DEF Exec!vars, ExecInv, ExecType, SpansWereMade, NotReplied, Exec!OnePlace, Counting
<1>. QED  BY <1>1, <1>2, <1>3, <1>4, <1>5, CloseStep DEF Exec!Next

LEMMA DrainsIntoATrace == ASSUME ExecConstants, ExecInv, [Exec!Next]_Exec!vars PROVE Exec!DrainedIntoATrace
<1>1. SUFFICES ASSUME NEW s \in Exec!Spans, s \in receiver.pending, s \notin receiver'.pending
               PROVE  \E r \in Reps : s \in trace'[r].spans
  BY DEF Exec!DrainedIntoATrace
<1>2. receiver \in ReceiverState
  BY DEF ExecInv, ExecType
<1>3. ASSUME NEW r \in Reps, NEW to, NEW own, EndedWith(r, to, own)
      PROVE  \E q \in Reps : s \in trace'[q].spans
  BY <1>1, <1>3, DrainFacts
<1>4. ASSUME NEW r \in Reps, Exec!Reply(r) \/ Exec!AdapterFails(r) \/ Exec!Crash(r)
      PROVE  \E q \in Reps : s \in trace'[q].spans
  BY <1>3, <1>4, ReplyEnds, ErrorEnds
<1>5. ASSUME NEW r \in Reps, Exec!Begin(r) \/ Exec!ModelCall(r) \/ Exec!Retry(r)
      PROVE  receiver'.pending = receiver.pending
  BY <1>2, <1>5 DEF Exec!Begin, Exec!ModelCall, Exec!Retry, ReceiverState
<1>6. ASSUME NEW x \in unsent, Exec!Push(x) \/ Exec!ExportFails(x)
      PROVE  receiver.pending \subseteq receiver'.pending
  BY <1>2, <1>6 DEF Exec!Push, Exec!ExportFails, ReceiverState
<1>7. Exec!Close => receiver'.pending = receiver.pending
  BY <1>2 DEF Exec!Close, ReceiverState
<1>. QED  BY <1>1, <1>4, <1>5, <1>6, <1>7 DEF Exec!Next, Exec!vars

LEMMA CountsOnce == ASSUME ExecConstants, ExecInv, ~Remote PROVE Exec!CountedOnce
BY DEF ExecInv, Counting, Exec!CountedOnce

-----------------------------------------------------------------------------
(* One repetition at a time, of an agent that exports before it replies.     *)
LEMMA SerialInit == ASSUME ExecConstants, Exec!Init PROVE SerialInv
<1>1. /\ \A r \in Reps : rep[r].pc = "queued" /\ rep[r].calls = 0 /\ trace[r].spans = {}
      /\ receiver.bound = Exec!Nobody /\ receiver.pending = {} /\ ~receiver.stopped /\ unsent = {} /\ ~failed
  BY DEF Exec!Init
<1>2. SlotIsTheRunners
  BY <1>1 DEF SlotIsTheRunners, Exec!Running, ExecConstants
<1>3. EveryCallIsThere /\ Exec!SpansDrainIntoTheirCase
  BY <1>1 DEF EveryCallIsThere, Exec!SpansDrainIntoTheirCase, Exec!Owned
<1>. QED  BY <1>2, <1>3 DEF SerialInv

LEMMA SerialNext ==
    ASSUME ExecConstants, OneAtATime, ExecInv, SerialInv, [Exec!Next]_Exec!vars
    PROVE  SerialInv'
<1>0. /\ ExecType /\ receiver \in ReceiverState /\ rep \in [Reps -> RepState]
      /\ trace \in [Reps -> TraceState] /\ unsent \subseteq Exec!Spans /\ Remote
      /\ receiver.bound \in Reps \cup {Exec!Nobody}
  BY DEF ExecInv, ExecType, OneAtATime, ReceiverState
<1>1. ASSUME NEW r \in Reps, Exec!Begin(r) PROVE SerialInv'
  <2>1. /\ rep' = [rep EXCEPT ![r].pc = "invoke"] /\ UNCHANGED <<trace, unsent, failed>>
        /\ receiver' = [receiver EXCEPT !.bound = r] /\ rep[r].pc = "queued" /\ ~failed
    BY <1>0, <1>1 DEF Exec!Begin, Exec!Set
  <2>2. \A q \in Reps : ~Exec!Running(q)
    <3> DEFINE H == {q \in Reps : Exec!Holding(q)}
    <3>1. IsFiniteSet(H) /\ Cardinality(H) \in Nat
      BY FS_Subset, FS_CardinalityType DEF ExecConstants
    <3>2. Cardinality(H) < 1
      BY <1>1 DEF Exec!Begin, OneAtATime
    <3> HIDE DEF H
    <3>3. H = {}
      BY <3>1, <3>2, FS_EmptySet
    <3>. QED  BY <3>3 DEF H, Exec!Holding
  <2>3. unsent = {} /\ ~receiver.stopped
    BY <1>0, <2>1, <2>2 DEF SerialInv, SlotIsTheRunners, Exec!Spans, ExecConstants
  <2>4. /\ \A q \in Reps : rep'[q].calls = rep[q].calls /\ (rep'[q].pc = "invoke" <=> q = r)
        /\ receiver'.bound = r /\ receiver'.pending = receiver.pending /\ receiver'.stopped = receiver.stopped
    BY <1>0, <2>1, <2>2 DEF RepState, ReceiverState, Exec!Running
  <2>5. SlotIsTheRunners'
    BY <2>1, <2>3, <2>4 DEF SerialInv, SlotIsTheRunners, Exec!Running
  <2>6. EveryCallIsThere' /\ Exec!SpansDrainIntoTheirCase'
    BY <2>1, <2>4 DEF SerialInv, EveryCallIsThere, Exec!SpansDrainIntoTheirCase, Exec!Owned
  <2>. QED  BY <2>5, <2>6 DEF SerialInv
<1>2. ASSUME NEW r \in Reps, Exec!ModelCall(r) PROVE SerialInv'
  <2> DEFINE n == rep[r].calls + 1
  <2>1. /\ rep' = [rep EXCEPT ![r].calls = n, ![r].since = @ + 1] /\ unsent' = unsent \cup {<<r, n>>}
        /\ UNCHANGED <<trace, receiver, failed>> /\ Exec!Running(r)
    BY <1>0, <1>2 DEF Exec!ModelCall
  <2>2. rep[r].calls \in Nat
    BY <1>0 DEF RepState
  <2>3. /\ \A q \in Reps : rep'[q].pc = rep[q].pc /\ (q # r => rep'[q].calls = rep[q].calls)
        /\ rep'[r].calls = n
    BY <1>0, <2>1 DEF RepState
  <2>4. SlotIsTheRunners'
    BY <1>0, <2>1, <2>3 DEF SerialInv, SlotIsTheRunners, Exec!Running
  <2>5. EveryCallIsThere'
    <3>1. \A k \in 1..n : k \in 1..rep[r].calls \/ k = n
      BY <2>2
    <3>. QED  BY <2>1, <2>3, <3>1 DEF SerialInv, EveryCallIsThere
  <2>6. Exec!SpansDrainIntoTheirCase'
    BY <2>1 DEF SerialInv, Exec!SpansDrainIntoTheirCase, Exec!Owned
  <2>. QED  BY <2>4, <2>5, <2>6 DEF SerialInv
<1>3. ASSUME NEW r \in Reps, Exec!Retry(r) PROVE SerialInv'
  <2>1. /\ \A q \in Reps : rep'[q].pc = rep[q].pc /\ rep'[q].calls = rep[q].calls
        /\ UNCHANGED <<trace, receiver, unsent, failed>>
    BY <1>0, <1>3 DEF Exec!Retry, RepState
  <2>. QED
    BY <1>0, <2>1 DEF SerialInv, SlotIsTheRunners, Exec!Running, EveryCallIsThere, Exec!SpansDrainIntoTheirCase, Exec!Owned
<1>4. ASSUME NEW r \in Reps, NEW to \in {"done", "errored", "crashed"}, NEW own,
             EndedWith(r, to, own), Exec!Running(r), Exec!Flushed(r), to # "crashed" => failed' = failed
      PROVE  SerialInv'
  <2>1. receiver.bound = r /\ receiver.pending = {} /\ ~receiver.stopped /\ ~failed
    BY <1>4 DEF SerialInv, SlotIsTheRunners, ExecConstants
  <2>2. unsent = {}
    BY <1>0, <1>4, <2>1 DEF SerialInv, SlotIsTheRunners, Exec!Flushed, OneAtATime
  <2>3. /\ \A q \in Reps : rep'[q].calls = rep[q].calls /\ (q # r => rep'[q].pc = rep[q].pc)
        /\ rep'[r].pc = to /\ unsent' = unsent
    BY <1>0, <1>4 DEF EndedWith, RepState
  <2>4. receiver'.bound = Exec!Nobody /\ receiver'.pending = {} /\ ~receiver'.stopped
    BY <1>0, <1>4, <2>1, DrainFacts
  <2>5. \A q \in Reps : Exec!Running(q) => q = r
    BY <2>1 DEF SerialInv, SlotIsTheRunners
  <2>6. SlotIsTheRunners'
    BY <2>2, <2>3, <2>4, <2>5 DEF SlotIsTheRunners, Exec!Running
  <2>7. \A q \in Reps : trace'[q].spans \in {trace[q].spans, trace[q].spans \cup {Exec!Synthetic(q)}}
    <3>1. \A q \in Reps : trace'[q].spans = own[q].spans
      BY <1>4, <2>1, DrainFacts DEF Drained
    <3>. QED  BY <1>4, <3>1 DEF EndedWith
  <2>8. EveryCallIsThere'
    BY <2>3, <2>7 DEF SerialInv, EveryCallIsThere
  <2>9. Exec!SpansDrainIntoTheirCase'
    <3>1. \A q \in Reps : Exec!Synthetic(q)[1] = q
      BY DEF Exec!Synthetic
    <3>. QED  BY <2>7, <3>1 DEF SerialInv, Exec!SpansDrainIntoTheirCase, Exec!Owned
  <2>. QED  BY <2>6, <2>8, <2>9 DEF SerialInv
<1>5. ASSUME NEW r \in Reps, Exec!Reply(r) \/ Exec!AdapterFails(r) \/ Exec!Crash(r) PROVE SerialInv'
  <2>1. CASE Exec!Reply(r)
    <3>1. EndedWith(r, "done", Exec!Recorded(r)) /\ Exec!Running(r) /\ Exec!Flushed(r) /\ failed' = failed
      BY <2>1, ReplyEnds DEF Exec!Reply
    <3>. QED  BY <1>4, <3>1
  <2>2. CASE Exec!AdapterFails(r) \/ Exec!Crash(r)
    <3>1. PICK to \in {"errored", "crashed"} : EndedWith(r, to, [trace EXCEPT ![r].error = TRUE])
      BY <2>2, ErrorEnds
    <3>2. Exec!Running(r) /\ Exec!Flushed(r)
      BY <2>2 DEF Exec!AdapterFails, Exec!Crash
    <3>3. rep'[r].pc = to
      BY <1>0, <3>1 DEF EndedWith, RepState
    <3>4. Exec!AdapterFails(r) => failed' = failed
      BY DEF Exec!AdapterFails
    <3>5. Exec!Crash(r) => rep'[r].pc = "crashed"
      BY <1>0 DEF Exec!Crash, Exec!Set, RepState
    <3>6. to # "crashed" => failed' = failed
      BY <2>2, <3>3, <3>4, <3>5
    <3>. QED  BY <1>4, <3>1, <3>2, <3>6
  <2>. QED  BY <1>5, <2>1, <2>2
<1>6. ASSUME NEW s \in unsent, Exec!Push(s) PROVE SerialInv'
  <2> DEFINE b == receiver.bound
  <2>1. s \in Exec!Spans /\ b = s[1] /\ b \in Reps /\ b # Exec!Nobody
    BY <1>0 DEF SerialInv, SlotIsTheRunners, Exec!Spans, ExecConstants
  <2>2. ~receiver.stopped
    BY <2>1 DEF SerialInv, SlotIsTheRunners
  <2>3. /\ Exec!feed_to_recorder({s}, b) /\ UNCHANGED <<receiver, rep, failed>> /\ unsent' = unsent \ {s}
    BY <1>6, <2>1, <2>2 DEF Exec!Push
  <2>4. /\ \A q \in Reps \ {b} : trace'[q] = trace[q]
        /\ trace'[b].spans = trace[b].spans \cup {s}
    BY <1>0, <2>1, <2>3 DEF Exec!feed_to_recorder, TraceState
  <2>5. SlotIsTheRunners'
    BY <2>3 DEF SerialInv, SlotIsTheRunners, Exec!Running
  <2>6. EveryCallIsThere'
    <3>1. ASSUME NEW q \in Reps, NEW n \in 1..rep[q].calls
          PROVE <<q, n>> \in unsent' \cup trace'[q].spans
      <4>1. <<q, n>> \in unsent \cup trace[q].spans
        BY DEF SerialInv, EveryCallIsThere
      <4>2. <<q, n>> = s => q = b
        BY <2>1
      <4>. QED  BY <2>3, <2>4, <4>1, <4>2
    <3>. QED  BY <2>3, <3>1 DEF EveryCallIsThere
  <2>7. Exec!SpansDrainIntoTheirCase'
    BY <2>1, <2>4 DEF SerialInv, Exec!SpansDrainIntoTheirCase, Exec!Owned
  <2>. QED  BY <2>5, <2>6, <2>7 DEF SerialInv
<1>7. ASSUME NEW s \in unsent, Exec!ExportFails(s) PROVE SerialInv'
  <2>1. receiver.bound = s[1] /\ s[1] \in Reps /\ receiver.stopped
    BY <1>0, <1>7 DEF SerialInv, SlotIsTheRunners, Exec!Spans, Exec!ExportFails
  <2>. QED  BY <2>1 DEF SerialInv, SlotIsTheRunners, ExecConstants
<1>8. ASSUME Exec!Close PROVE SerialInv'
  <2>1. /\ receiver' = [receiver EXCEPT !.stopped = TRUE] /\ UNCHANGED <<rep, trace, unsent, failed>>
        /\ failed \/ \A r \in Reps : rep[r].pc \in {"done", "errored"}
    BY <1>8 DEF Exec!Close
  <2>2. receiver'.bound = receiver.bound /\ receiver'.pending = receiver.pending
    BY <1>0, <2>1 DEF ReceiverState
  <2>3. receiver.bound = Exec!Nobody
    <3>1. (\A r \in Reps : rep[r].pc \in {"done", "errored"}) => \A r \in Reps : ~Exec!Running(r)
      BY DEF Exec!Running
    <3>. QED  BY <1>0, <2>1, <3>1 DEF SerialInv, SlotIsTheRunners, ReceiverState
  <2>4. SlotIsTheRunners'
    BY <2>1, <2>2, <2>3 DEF SerialInv, SlotIsTheRunners, Exec!Running
  <2>. QED  BY <2>1, <2>4 DEF SerialInv, EveryCallIsThere, Exec!SpansDrainIntoTheirCase, Exec!Owned
<1>9. CASE UNCHANGED Exec!vars
  BY <1>9 DEF Exec!vars, SerialInv, SlotIsTheRunners, Exec!Running, EveryCallIsThere, Exec!SpansDrainIntoTheirCase, Exec!Owned
<1>. QED  BY <1>1, <1>2, <1>3, <1>5, <1>6, <1>7, <1>8, <1>9 DEF Exec!Next

LEMMA SerialKeepsSpans ==
    ASSUME ExecConstants, ExecInv, SerialInv
    PROVE  Exec!SpansDrainIntoTheirCase /\ Exec!NoExportIsLost
<1>1. ASSUME NEW r \in Reps, rep[r].pc \in {"done", "errored"}, NEW n \in 1..rep[r].calls
      PROVE  <<r, n>> \in trace[r].spans
  <2>1. <<r, n>> \notin unsent
    BY <1>1 DEF SerialInv, SlotIsTheRunners, Exec!Running, ExecConstants
  <2>. QED  BY <2>1 DEF SerialInv, EveryCallIsThere
<1>. QED  BY <1>1 DEF SerialInv, Exec!NoExportIsLost

(* Whatever comes late, fails or is retried, a span is with the exporter, in the buffer or in  *)
(* one trace, and one that leaves the buffer is in a trace (OtlpReceiver.drain, unbind); the    *)
(* calls of an embedded agent are counted once (Executor.record_adapter_response).              *)
THEOREM SpansAreKept ==
    ASSUME ExecConstants
    PROVE  Exec!Spec => [](Exec!OnePlace /\ (~Remote => Exec!CountedOnce)) /\ Exec!NeverDropped
<1>1. Exec!Init => ExecInv
  BY ExecInit
<1>2. ExecInv /\ [Exec!Next]_Exec!vars => ExecInv'
  BY ExecNext
<1>3. ExecInv => Exec!OnePlace /\ (~Remote => Exec!CountedOnce)
  BY CountsOnce DEF ExecInv
<1>4. ExecInv /\ [Exec!Next]_Exec!vars => [Exec!DrainedIntoATrace]_Exec!vars
  BY DrainsIntoATrace
<1>. QED  BY <1>1, <1>2, <1>3, <1>4, PTL DEF Exec!Spec, Exec!NeverDropped

(* Where repetitions run one at a time and the agent exports before it replies, the one slot of *)
(* the receiver is enough: every span is in the trace of its repetition when that has ended     *)
(* (OtlpReceiver.bind_recorder).                                                                 *)
THEOREM SerialSpansAreTheirs ==
    ASSUME ExecConstants, OneAtATime
    PROVE  Exec!Spec => [](Exec!SpansDrainIntoTheirCase /\ Exec!NoExportIsLost)
<1> DEFINE I == ExecInv /\ SerialInv
<1>1. Exec!Init => I
  BY ExecInit, SerialInit
<1>2. I /\ [Exec!Next]_Exec!vars => I'
  BY ExecNext, SerialNext
<1>3. I => Exec!SpansDrainIntoTheirCase /\ Exec!NoExportIsLost
  BY SerialKeepsSpans
<1> HIDE DEF I
<1>. QED  BY <1>1, <1>2, <1>3, PTL DEF Exec!Spec

HIDE ExecCounts

-----------------------------------------------------------------------------
(***************************************************************************)
(* The trace an agent leaves (TraceRecording): for any number of tasks,    *)
(* spans and depth, every span that was opened is in the trace once, the   *)
(* counters are those of the spans and what was streamed is what is        *)
(* stored; with one task the spans nest like the blocks they were.         *)
(***************************************************************************)
CONSTANTS Tasks, MaxSpans, MaxDepth

VARIABLES rec, held, within, phase, used, built

Rec == INSTANCE TraceRecording WITH trace <- built

LEMMA RecCounts == \A S : Rec!Cardinality(S) = Cardinality(S)
  BY DEF Rec!Cardinality, Cardinality

USE RecCounts

SpanKinds == {"agent_turn", "llm_call", "tool_call", "decision", "error"}

SpanRecord == [id : Nat, kind : SpanKinds, parent : Nat, failed : BOOLEAN]

LiveEvents == SpanRecord \cup {Rec!Event("started"), Rec!Event("finished")}

Recorder ==
    [spans : Seq(SpanRecord), open : Seq(Nat), live : Seq(LiveEvents),
     state : {"unset", "completed", "errored"},
     tokens : Nat, llm_calls : Nat, tool_calls : Nat]

OfKind(spans, kind) == {i \in DOMAIN spans : spans[i].kind = kind}

IdsOf(spans) == {spans[i].id : i \in DOMAIN spans}

One(yes) == IF yes THEN 1 ELSE 0

(* q is r after one more span has been recorded.                             *)
Adds(q, r, span) ==
    /\ q \in Recorder
    /\ q.spans = Append(r.spans, span) /\ q.live = Append(r.live, span)
    /\ q.llm_calls = r.llm_calls + One(span.kind = "llm_call")
    /\ q.tokens = r.tokens + One(span.kind = "llm_call")
    /\ q.tool_calls = r.tool_calls + One(span.kind = "tool_call")
    /\ q.state = r.state

CountsSpans(r) ==
    /\ r.llm_calls = Cardinality(OfKind(r.spans, "llm_call"))
    /\ r.tokens = Cardinality(OfKind(r.spans, "llm_call"))
    /\ r.tool_calls = Cardinality(OfKind(r.spans, "tool_call"))

Streams(r) == r.live = <<Rec!Event("started")>> \o r.spans

LEMMA RecorderFields ==
    ASSUME NEW r \in Recorder
    PROVE  /\ r = [spans |-> r.spans, open |-> r.open, live |-> r.live, state |-> r.state,
                  tokens |-> r.tokens, llm_calls |-> r.llm_calls, tool_calls |-> r.tool_calls]
           /\ r.spans \in Seq(SpanRecord) /\ r.open \in Seq(Nat) /\ r.live \in Seq(LiveEvents)
           /\ r.state \in {"unset", "completed", "errored"}
           /\ r.tokens \in Nat /\ r.llm_calls \in Nat /\ r.tool_calls \in Nat
<1>. QED  BY DEF Recorder

LEMMA RecordAdds ==
    ASSUME NEW r \in Recorder, NEW span \in SpanRecord
    PROVE  /\ Rec!Record(r, span) = [r EXCEPT !.spans = Append(@, span), !.live = Append(@, span)]
           /\ Rec!Record(r, span) \in Recorder
           /\ Rec!Record(r, span).open = r.open
<1>1. Rec!Record(r, span) = [r EXCEPT !.spans = Append(@, span), !.live = Append(@, span)]
  BY DEF Rec!Record, Rec!SinkCall, Recorder
<1>2. Append(r.spans, span) \in Seq(SpanRecord) /\ Append(r.live, span) \in Seq(LiveEvents)
  <2>1. span \in LiveEvents /\ r.live \in Seq(LiveEvents) /\ r.spans \in Seq(SpanRecord)
    BY DEF LiveEvents, Recorder
  <2>. QED  BY <2>1
<1>. QED  BY <1>1, <1>2 DEF Recorder

LEMMA RecordFields ==
    ASSUME NEW r \in Recorder, NEW span \in SpanRecord
    PROVE  /\ Rec!Record(r, span).spans = Append(r.spans, span)
           /\ Rec!Record(r, span).live = Append(r.live, span)
           /\ Rec!Record(r, span).llm_calls = r.llm_calls /\ Rec!Record(r, span).tokens = r.tokens
           /\ Rec!Record(r, span).tool_calls = r.tool_calls
           /\ Rec!Record(r, span).state = r.state /\ Rec!Record(r, span).open = r.open
<1> DEFINE S == Append(r.spans, span)
           L == Append(r.live, span)
<1>1. Rec!Record(r, span) = [r EXCEPT !.spans = S, !.live = L]
  BY RecordAdds
<1> HIDE DEF S, L
<1>2. r = [spans |-> r.spans, open |-> r.open, live |-> r.live, state |-> r.state,
           tokens |-> r.tokens, llm_calls |-> r.llm_calls, tool_calls |-> r.tool_calls]
  BY DEF Recorder
<1>. QED  BY <1>1, <1>2 DEF S, L

LEMMA PopFacts ==
    ASSUME NEW r \in Recorder, r.open # <<>>
    PROVE  /\ Rec!Pop(r) \in Recorder /\ Rec!Pop(r) = [r EXCEPT !.open = Rec!Front(r.open)]
           /\ Rec!Front(r.open) \in Seq(Nat) /\ Len(Rec!Front(r.open)) = Len(r.open) - 1
           /\ \A i \in 1..(Len(r.open) - 1) : Rec!Front(r.open)[i] = r.open[i]
<1>1. r.open \in Seq(Nat) /\ Len(r.open) \in Nat \ {0}
  BY DEF Recorder
<1>2. Rec!Front(r.open) = SubSeq(r.open, 1, Len(r.open) - 1)
  BY DEF Rec!Front
<1> DEFINE front == Rec!Front(r.open)
<1>3. /\ front \in Seq(Nat) /\ Len(front) = Len(r.open) - 1
      /\ \A i \in 1..(Len(r.open) - 1) : front[i] = r.open[i]
  BY <1>1, <1>2, SMTT(30)
<1>4. Rec!Pop(r) = [r EXCEPT !.open = front]
  BY DEF Rec!Pop
<1> HIDE DEF front
<1>5. [r EXCEPT !.open = front] \in Recorder
  BY <1>3 DEF Recorder
<1>. QED  BY <1>3, <1>4, <1>5 DEF front

(* Whatever the kind, leaving a block records its span and pops one.         *)
LEMMA LeaveAdds ==
    ASSUME NEW r \in Recorder, r.open # <<>>, NEW span \in SpanRecord, NEW raised \in BOOLEAN
    PROVE  \E s \in SpanRecord :
              /\ s.id = span.id /\ s.kind = span.kind /\ s.parent = span.parent
              /\ Adds(Rec!Leave(r, span, raised), r, s)
              /\ Rec!Leave(r, span, raised).open = Rec!Front(r.open)
<1> DEFINE p == Rec!Pop(r)
<1>1. /\ p \in Recorder /\ p.open = Rec!Front(r.open) /\ p.spans = r.spans /\ p.live = r.live
      /\ p.llm_calls = r.llm_calls /\ p.tokens = r.tokens /\ p.tool_calls = r.tool_calls
      /\ p.state = r.state /\ r.llm_calls \in Nat /\ r.tokens \in Nat /\ r.tool_calls \in Nat
  BY PopFacts, SMTT(30) DEF Recorder
<1> HIDE DEF p
<1> DEFINE plain == Rec!Record(p, span)
<1>p. /\ plain \in Recorder
      /\ plain.spans = Append(r.spans, span) /\ plain.live = Append(r.live, span)
      /\ plain.llm_calls = r.llm_calls /\ plain.tokens = r.tokens /\ plain.tool_calls = r.tool_calls
      /\ plain.state = r.state /\ plain.open = Rec!Front(r.open)
  <2>1. plain \in Recorder
    BY <1>1, RecordAdds
  <2>2. /\ plain.spans = Append(p.spans, span) /\ plain.live = Append(p.live, span)
        /\ plain.llm_calls = p.llm_calls /\ plain.tokens = p.tokens /\ plain.tool_calls = p.tool_calls
        /\ plain.state = p.state /\ plain.open = p.open
    BY <1>1, RecordFields
  <2> HIDE DEF plain
  <2>. QED  BY <1>1, <2>1, <2>2
<1> HIDE DEF plain
<1>2. CASE span.kind = "llm_call"
  <2> DEFINE q == [plain EXCEPT !.llm_calls = @ + 1, !.tokens = @ + 1]
  <2>1. Rec!Leave(r, span, raised) = q
    BY <1>2 DEF Rec!Leave, Rec!LeaveLLMCall, p, plain
  <2>2. One(span.kind = "llm_call") = 1 /\ One(span.kind = "tool_call") = 0
    BY <1>2 DEF One
  <2>3. /\ q \in Recorder /\ q.spans = plain.spans /\ q.live = plain.live
        /\ q.llm_calls = plain.llm_calls + 1 /\ q.tokens = plain.tokens + 1
        /\ q.tool_calls = plain.tool_calls /\ q.state = plain.state /\ q.open = plain.open
    <3> DEFINE x == plain.llm_calls + 1
               y == plain.tokens + 1
    <3>0. plain.llm_calls \in Nat /\ plain.tokens \in Nat
      BY <1>p, RecorderFields
    <3>1. q = [plain EXCEPT !.llm_calls = x, !.tokens = y] /\ x \in Nat /\ y \in Nat
      BY <3>0
    <3> HIDE DEF q, x, y
    <3>2. q \in Recorder
      BY <1>p, <3>1 DEF Recorder
    <3>3. plain = [spans |-> plain.spans, open |-> plain.open, live |-> plain.live,
                   state |-> plain.state, tokens |-> plain.tokens, llm_calls |-> plain.llm_calls,
                   tool_calls |-> plain.tool_calls]
      BY <1>p, RecorderFields
    <3>. QED  BY <3>1, <3>2, <3>3 DEF x, y
  <2> HIDE DEF q
  <2>4. Adds(q, r, span)
    BY <1>1, <1>p, <2>2, <2>3 DEF Adds
  <2>. QED  BY <1>p, <2>1, <2>3, <2>4
<1>3. CASE span.kind = "tool_call"
  <2> DEFINE s == [span EXCEPT !.failed = raised]
  <2>1. s \in SpanRecord /\ s.id = span.id /\ s.kind = span.kind /\ s.parent = span.parent
    BY DEF SpanRecord
  <2> HIDE DEF s
  <2> DEFINE b == Rec!Record(p, s)
  <2> DEFINE q == [b EXCEPT !.tool_calls = @ + 1]
  <2>2. Rec!Leave(r, span, raised) = q
    BY <1>3 DEF Rec!Leave, Rec!LeaveToolCall, p, s
  <2>3. /\ b \in Recorder
        /\ b.spans = Append(r.spans, s) /\ b.live = Append(r.live, s)
        /\ b.llm_calls = r.llm_calls /\ b.tokens = r.tokens /\ b.tool_calls = r.tool_calls
        /\ b.state = r.state /\ b.open = Rec!Front(r.open)
    <3>1. b \in Recorder
      BY <1>1, <2>1, RecordAdds
    <3>2. /\ b.spans = Append(p.spans, s) /\ b.live = Append(p.live, s)
          /\ b.llm_calls = p.llm_calls /\ b.tokens = p.tokens /\ b.tool_calls = p.tool_calls
          /\ b.state = p.state /\ b.open = p.open
      BY <1>1, <2>1, RecordFields
    <3> HIDE DEF b
    <3>. QED  BY <1>1, <3>1, <3>2
  <2> HIDE DEF b
  <2>4. One(s.kind = "llm_call") = 0 /\ One(s.kind = "tool_call") = 1
    BY <1>3, <2>1 DEF One
  <2>5. /\ q \in Recorder /\ q.spans = b.spans /\ q.live = b.live
        /\ q.llm_calls = b.llm_calls /\ q.tokens = b.tokens
        /\ q.tool_calls = b.tool_calls + 1 /\ q.state = b.state /\ q.open = b.open
    <3>1. q = [spans |-> b.spans, open |-> b.open, live |-> b.live, state |-> b.state, tokens |-> b.tokens,
               llm_calls |-> b.llm_calls, tool_calls |-> b.tool_calls + 1]
      <4>1. b = [spans |-> b.spans, open |-> b.open, live |-> b.live, state |-> b.state, tokens |-> b.tokens,
               llm_calls |-> b.llm_calls, tool_calls |-> b.tool_calls]
        BY <2>3, RecorderFields
      <4>2. q = [b EXCEPT !.tool_calls = b.tool_calls + 1]
        OBVIOUS
      <4>. QED  BY <4>1, <4>2
    <3> HIDE DEF q
    <3>2. b.tool_calls + 1 \in Nat
      BY <2>3, RecorderFields, SMTT(30)
    <3>. QED  BY <2>3, <3>1, <3>2, RecorderFields DEF Recorder
  <2> HIDE DEF q
  <2>6. Adds(q, r, s)
    BY <1>1, <2>3, <2>4, <2>5 DEF Adds
  <2>. QED  BY <2>1, <2>2, <2>3, <2>5, <2>6
<1>4. CASE span.kind \notin {"llm_call", "tool_call"}
  <2>1. Rec!Leave(r, span, raised) = plain
    BY <1>4 DEF Rec!Leave, Rec!LeaveAgentTurn, Rec!LeaveVoice, p, plain
  <2>2. One(span.kind = "llm_call") = 0 /\ One(span.kind = "tool_call") = 0
    BY <1>4 DEF One
  <2>3. Adds(plain, r, span)
    BY <1>1, <1>p, <2>2 DEF Adds
  <2>. QED  BY <1>p, <2>1, <2>3
<1>. QED  BY <1>2, <1>3, <1>4

LEMMA FactAdds ==
    ASSUME NEW r \in Recorder, NEW id \in Nat, NEW kind \in {"decision", "error"}
    PROVE  /\ Rec!CurrentParent(r) \in Nat
           /\ Rec!Fact(r, id, kind) \in SpanRecord
           /\ Rec!Fact(r, id, kind) = [id |-> id, kind |-> kind, parent |-> Rec!CurrentParent(r), failed |-> FALSE]
           /\ Adds(Rec!AddFact(r, id, kind), r, Rec!Fact(r, id, kind))
           /\ Rec!AddFact(r, id, kind).open = r.open
<1>1. Rec!CurrentParent(r) \in Nat
  <2>1. r.open \in Seq(Nat)
    BY DEF Recorder
  <2>. QED  BY <2>1 DEF Rec!CurrentParent, Rec!NoSpan, Rec!Last
<1> DEFINE f == Rec!Fact(r, id, kind)
<1>2. /\ f = [id |-> id, kind |-> kind, parent |-> Rec!CurrentParent(r), failed |-> FALSE]
      /\ f \in SpanRecord
  BY <1>1 DEF Rec!Fact, Rec!OpenSpan, SpanRecord, SpanKinds
<1> HIDE DEF f
<1>3. Rec!AddFact(r, id, kind) = Rec!Record(r, f)
  BY DEF Rec!AddFact, f
<1>4. f.kind = kind
  BY <1>2
<1>5. Adds(Rec!Record(r, f), r, f) /\ Rec!Record(r, f).open = r.open
  <2>1. One(f.kind = "llm_call") = 0 /\ One(f.kind = "tool_call") = 0
    BY <1>4 DEF One
  <2>2. r.llm_calls \in Nat /\ r.tokens \in Nat /\ r.tool_calls \in Nat
    BY DEF Recorder
  <2>3. Rec!Record(r, f) \in Recorder
    BY <1>2, RecordAdds
  <2>4. /\ Rec!Record(r, f).spans = Append(r.spans, f) /\ Rec!Record(r, f).live = Append(r.live, f)
        /\ Rec!Record(r, f).llm_calls = r.llm_calls /\ Rec!Record(r, f).tokens = r.tokens
        /\ Rec!Record(r, f).tool_calls = r.tool_calls
        /\ Rec!Record(r, f).state = r.state /\ Rec!Record(r, f).open = r.open
    BY <1>2, RecordFields
  <2>. QED  BY <2>1, <2>2, <2>3, <2>4 DEF Adds
<1>. QED  BY <1>1, <1>2, <1>3, <1>5 DEF f

LEMMA AddsKeeps ==
    ASSUME NEW r \in Recorder, NEW span \in SpanRecord, NEW q, Adds(q, r, span)
    PROVE  /\ CountsSpans(r) => CountsSpans(q)
           /\ Streams(r) => Streams(q)
           /\ Len(q.spans) = Len(r.spans) + 1 /\ Len(r.spans) \in Nat
           /\ DOMAIN q.spans = 1..(Len(r.spans) + 1) /\ DOMAIN r.spans = 1..Len(r.spans)
           /\ \A i \in 1..Len(r.spans) : q.spans[i] = r.spans[i]
           /\ q.spans[Len(r.spans) + 1] = span
           /\ IdsOf(q.spans) = IdsOf(r.spans) \cup {span.id}
<1> DEFINE n == Len(r.spans)
<1>1. /\ r.spans \in Seq(SpanRecord) /\ n \in Nat /\ q.spans = Append(r.spans, span)
      /\ DOMAIN r.spans = 1..n
  BY DEF Adds, Recorder
<1>2. /\ Len(q.spans) = n + 1 /\ DOMAIN q.spans = 1..(n + 1)
      /\ \A i \in 1..n : q.spans[i] = r.spans[i]
      /\ q.spans[n + 1] = span
  BY <1>1
<1> HIDE DEF n
<1>3. ASSUME NEW kind \in {"llm_call", "tool_call"}
      PROVE  Cardinality(OfKind(q.spans, kind)) = Cardinality(OfKind(r.spans, kind)) + One(span.kind = kind)
  <2> DEFINE K == OfKind(r.spans, kind)
  <2>1. K \subseteq 1..n /\ n + 1 \notin K
    BY <1>1 DEF OfKind
  <2>2. IsFiniteSet(K) /\ Cardinality(K) \in Nat
    <3>1. IsFiniteSet(1..n)
      <4>1. 1 \in Int /\ n \in Int
        BY <1>1
      <4>. QED  BY <4>1, FS_Interval
    <3>. QED  BY <2>1, <3>1, FS_Subset, FS_CardinalityType
  <2>3. OfKind(q.spans, kind) = IF span.kind = kind THEN K \cup {n + 1} ELSE K
    BY <1>1, <1>2 DEF OfKind
  <2> HIDE DEF K
  <2>4. CASE span.kind = kind
    <3>1. Cardinality(K \cup {n + 1}) = Cardinality(K) + 1
      BY <2>1, <2>2, FS_AddElement
    <3>. QED  BY <2>3, <2>4, <3>1 DEF K, One
  <2>5. CASE span.kind # kind
    BY <2>2, <2>3, <2>5 DEF K, One
  <2>. QED  BY <2>4, <2>5
<1>4. CountsSpans(r) => CountsSpans(q)
  BY <1>3 DEF CountsSpans, Adds
<1>5. Streams(r) => Streams(q)
  <2> DEFINE e == Rec!Event("started")
  <2>1. q.live = Append(r.live, span) /\ e \in LiveEvents
    BY DEF Adds, LiveEvents
  <2>2. SpanRecord \subseteq LiveEvents /\ span \in LiveEvents
    BY DEF LiveEvents
  <2>3. r.spans \in Seq(LiveEvents)
    BY <1>1, <2>2
  <2> HIDE DEF e
  <2>4. Append(<<e>> \o r.spans, span) = <<e>> \o Append(r.spans, span)
    <3> HIDE RecCounts
    <3>. QED  BY <2>1, <2>2, <2>3
  <2>. QED  BY <1>1, <2>1, <2>4 DEF Streams, e
<1>6. IdsOf(q.spans) = IdsOf(r.spans) \cup {span.id}
  BY <1>1, <1>2 DEF IdsOf
<1>. QED  BY <1>1, <1>2, <1>4, <1>5, <1>6 DEF n
-----------------------------------------------------------------------------
DoneIds == IdsOf(rec.spans)

HeldIds ==
    {id \in 1..Len(within) : \E t \in Tasks : \E i \in DOMAIN held[t] : held[t][i].id = id}

RecordingType ==
    /\ rec \in Recorder /\ held \in [Tasks -> Seq(SpanRecord)] /\ within \in Seq(Nat)
    /\ phase \in {"new", "agent", "built"} /\ used \in BOOLEAN

(* Every span so far is the case turn, held by one task in one place, or     *)
(* recorded; the one stack is as long as there are spans that are not.       *)
HeldOrRecorded ==
    /\ \A t \in Tasks : \A i \in 1..Len(held[t]) : held[t][i].id \in 2..Len(within)
    /\ \A t, u \in Tasks : \A i \in 1..Len(held[t]), j \in 1..Len(held[u]) :
          held[t][i].id = held[u][j].id => t = u /\ i = j
    /\ \A id \in 2..Len(within) : id \in HeldIds \/ id \in DoneIds
    /\ \A id \in DoneIds : id \in 2..Len(within) /\ id \notin HeldIds
    /\ Len(rec.open) = Cardinality(HeldIds) + 1
    /\ rec.open[1] = Rec!Turn
    /\ Len(rec.spans) + Len(rec.open) = Len(within)

WhileOpen ==
    /\ Len(within) # 0 /\ rec.state = "unset"
    /\ HeldOrRecorded /\ CountsSpans(rec) /\ Streams(rec)

RecordingInv ==
    /\ RecordingType
    /\ phase = "new" => rec = Rec!NewRecorder /\ within = <<>> /\ Rec!Idle
    /\ phase = "agent" => WhileOpen
    /\ Rec!MetricsMatchSpans /\ Rec!LiveIsPersisted /\ Rec!NoSpanIsLost

(* With one task the stack is its blocks.                                    *)
OneTask == \A t, u \in Tasks : t = u

StackIsTheTasks ==
    /\ \A t \in Tasks :
          /\ Len(rec.open) = Len(held[t]) + 1
          /\ \A i \in 1..Len(held[t]) :
                /\ held[t][i].id = rec.open[i + 1]
                /\ held[t][i].parent = rec.open[i]
                /\ within[held[t][i].id] = rec.open[i]
    /\ within[Rec!Turn] = Rec!NoSpan

NestingInv ==
    /\ RecordingInv /\ Rec!NestsCorrectly /\ Rec!InnermostFirst
    /\ phase = "agent" => StackIsTheTasks

-----------------------------------------------------------------------------
LEMMA HeldFacts ==
    ASSUME RecordingType, WhileOpen
    PROVE  /\ Len(within) \in Nat \ {0} /\ HeldIds \subseteq 2..Len(within)
           /\ IsFiniteSet(HeldIds) /\ Cardinality(HeldIds) \in Nat
           /\ Len(rec.open) \in Nat \ {0} /\ rec.open # <<>> /\ rec.open \in Seq(Nat)
           /\ Len(rec.spans) \in Nat /\ DOMAIN rec.spans = 1..Len(rec.spans)
           /\ rec.spans \in Seq(SpanRecord)
           /\ \A t \in Tasks : /\ held[t] \in Seq(SpanRecord) /\ Len(held[t]) \in Nat
                               /\ DOMAIN held[t] = 1..Len(held[t])
<1>1. /\ Len(within) \in Nat \ {0} /\ rec.open \in Seq(Nat) /\ rec.spans \in Seq(SpanRecord)
      /\ \A t \in Tasks : held[t] \in Seq(SpanRecord)
  BY RecorderFields DEF RecordingType, WhileOpen
<1>2. \A t \in Tasks : Len(held[t]) \in Nat /\ DOMAIN held[t] = 1..Len(held[t])
  BY <1>1
<1>3. HeldIds \subseteq 2..Len(within)
  BY <1>1, <1>2 DEF HeldIds, WhileOpen, HeldOrRecorded
<1>4. IsFiniteSet(HeldIds) /\ Cardinality(HeldIds) \in Nat
  <2>1. 2 \in Int /\ Len(within) \in Int
    BY <1>1
  <2>2. IsFiniteSet(2..Len(within))
    BY <2>1, FS_Interval
  <2>. QED  BY <1>3, <2>2, FS_Subset, FS_CardinalityType
<1>5. Len(rec.open) \in Nat \ {0} /\ rec.open # <<>>
  BY <1>1, <1>4 DEF WhileOpen, HeldOrRecorded
<1>. QED  BY <1>1, <1>2, <1>3, <1>4, <1>5

LEMMA HeldIsKnown ==
    ASSUME RecordingType, WhileOpen, NEW t \in Tasks
    PROVE  \A i \in 1..Len(held[t]) : held[t][i].id \in 2..Len(within)
BY DEF WhileOpen, HeldOrRecorded

LEMMA OpenSpanFacts ==
    ASSUME NEW r \in Recorder, NEW id \in Nat, NEW kind \in SpanKinds
    PROVE  /\ Rec!OpenSpan(r, id, kind) \in SpanRecord
           /\ Rec!OpenSpan(r, id, kind).id = id /\ Rec!OpenSpan(r, id, kind).parent = Rec!CurrentParent(r)
           /\ Rec!CurrentParent(r) \in Nat
           /\ r.open # <<>> => Rec!CurrentParent(r) = r.open[Len(r.open)]
<1>1. Rec!CurrentParent(r) \in Nat
  <2>1. r.open \in Seq(Nat)
    BY DEF Recorder
  <2>. QED  BY <2>1 DEF Rec!CurrentParent, Rec!NoSpan, Rec!Last
<1>2. Rec!OpenSpan(r, id, kind)
        = [id |-> id, kind |-> kind, parent |-> Rec!CurrentParent(r), failed |-> FALSE]
  BY DEF Rec!OpenSpan
<1>3. r.open # <<>> => Rec!CurrentParent(r) = r.open[Len(r.open)]
  BY DEF Rec!CurrentParent, Rec!Last
<1>. QED  BY <1>1, <1>2, <1>3 DEF SpanRecord

LEMMA PushFacts ==
    ASSUME NEW r \in Recorder, NEW id \in Nat
    PROVE  /\ Rec!Push(r, id) \in Recorder /\ Rec!Push(r, id).open = Append(r.open, id)
           /\ Rec!Push(r, id).spans = r.spans /\ Rec!Push(r, id).live = r.live
           /\ Rec!Push(r, id).state = r.state /\ Rec!Push(r, id).tokens = r.tokens
           /\ Rec!Push(r, id).llm_calls = r.llm_calls /\ Rec!Push(r, id).tool_calls = r.tool_calls
           /\ Len(r.open) \in Nat /\ Len(Append(r.open, id)) = Len(r.open) + 1
           /\ \A i \in 1..Len(r.open) : Append(r.open, id)[i] = r.open[i]
           /\ Append(r.open, id)[Len(r.open) + 1] = id
<1>1. r.open \in Seq(Nat)
  BY DEF Recorder
<1>2. /\ Append(r.open, id) \in Seq(Nat)
      /\ Len(r.open) \in Nat /\ Len(Append(r.open, id)) = Len(r.open) + 1
      /\ \A i \in 1..Len(r.open) : Append(r.open, id)[i] = r.open[i]
      /\ Append(r.open, id)[Len(r.open) + 1] = id
  BY <1>1
<1> DEFINE o == Append(r.open, id)
<1>3. Rec!Push(r, id) = [r EXCEPT !.open = o]
  BY DEF Rec!Push
<1> HIDE DEF o
<1>4. Rec!Push(r, id) \in Recorder
  BY <1>2, <1>3 DEF Recorder, o
<1>5. /\ Rec!Push(r, id).open = o
      /\ Rec!Push(r, id).spans = r.spans /\ Rec!Push(r, id).live = r.live
      /\ Rec!Push(r, id).state = r.state /\ Rec!Push(r, id).tokens = r.tokens
      /\ Rec!Push(r, id).llm_calls = r.llm_calls /\ Rec!Push(r, id).tool_calls = r.tool_calls
  BY <1>3, RecorderFields
<1>. QED  BY <1>2, <1>4, <1>5 DEF o

LEMMA NewFacts ==
    /\ Rec!NewRecorder \in Recorder
    /\ Rec!Begin(Rec!NewRecorder) \in Recorder
    /\ Rec!Begin(Rec!NewRecorder).spans = <<>> /\ Rec!Begin(Rec!NewRecorder).open = <<>>
    /\ Rec!Begin(Rec!NewRecorder).state = "unset"
    /\ CountsSpans(Rec!Begin(Rec!NewRecorder)) /\ Streams(Rec!Begin(Rec!NewRecorder))
<1>1. /\ <<>> \in Seq(SpanRecord) /\ <<>> \in Seq(Nat) /\ <<>> \in Seq(LiveEvents)
      /\ Append(<<>>, Rec!Event("started")) = <<Rec!Event("started")>>
      /\ <<Rec!Event("started")>> \in Seq(LiveEvents)
      /\ <<Rec!Event("started")>> \o <<>> = <<Rec!Event("started")>>
  BY DEF LiveEvents
<1>2. Rec!Begin(Rec!NewRecorder)
        = [spans |-> <<>>, open |-> <<>>, live |-> Append(<<>>, Rec!Event("started")),
           state |-> "unset", tokens |-> 0, llm_calls |-> 0, tool_calls |-> 0]
  BY DEF Rec!Begin, Rec!SinkCall, Rec!NewRecorder
<1>3. Rec!NewRecorder \in Recorder /\ Rec!Begin(Rec!NewRecorder) \in Recorder
  <2>1. 0 \in Nat
    OBVIOUS
  <2>2. Rec!NewRecorder \in Recorder
    BY <1>1, <2>1 DEF Rec!NewRecorder, Recorder
  <2> DEFINE l == Append(<<>>, Rec!Event("started"))
  <2>3. l \in Seq(LiveEvents)
    BY <1>1
  <2> HIDE DEF l
  <2>4. Rec!Begin(Rec!NewRecorder)
          = [spans |-> <<>>, open |-> <<>>, live |-> l,
             state |-> "unset", tokens |-> 0, llm_calls |-> 0, tool_calls |-> 0]
    BY <1>2 DEF l
  <2>5. Rec!Begin(Rec!NewRecorder) \in Recorder
    BY <1>1, <2>1, <2>3, <2>4 DEF Recorder
  <2>. QED  BY <2>2, <2>5
<1>4. /\ Rec!Begin(Rec!NewRecorder).spans = <<>> /\ Rec!Begin(Rec!NewRecorder).open = <<>>
      /\ Rec!Begin(Rec!NewRecorder).state = "unset" /\ Rec!Begin(Rec!NewRecorder).tokens = 0
      /\ Rec!Begin(Rec!NewRecorder).llm_calls = 0 /\ Rec!Begin(Rec!NewRecorder).tool_calls = 0
      /\ Rec!Begin(Rec!NewRecorder).live = Append(<<>>, Rec!Event("started"))
  BY <1>2
<1>5. Streams(Rec!Begin(Rec!NewRecorder))
  BY <1>1, <1>4 DEF Streams
<1>6. \A kind : Cardinality(OfKind(<<>>, kind)) = 0
  <2>1. \A kind : OfKind(<<>>, kind) = {}
    BY DEF OfKind
  <2>. QED  BY <2>1, FS_EmptySet
<1>7. CountsSpans(Rec!Begin(Rec!NewRecorder))
  BY <1>4, <1>6 DEF CountsSpans
<1>. QED  BY <1>3, <1>4, <1>5, <1>7
-----------------------------------------------------------------------------
LEMMA RecordingInit == Rec!Init => NestingInv
<1> SUFFICES ASSUME Rec!Init PROVE NestingInv
  OBVIOUS
<1>1. /\ rec = Rec!NewRecorder /\ held = [t \in Tasks |-> <<>>] /\ within = <<>> /\ phase = "new"
      /\ used = FALSE
  BY DEF Rec!Init
<1>2. rec.spans = <<>>
  BY <1>1 DEF Rec!NewRecorder
<1>3. RecordingType
  <2>1. Rec!NewRecorder \in Recorder
    BY NewFacts
  <2>2. <<>> \in Seq(SpanRecord) /\ <<>> \in Seq(Nat)
    OBVIOUS
  <2> HIDE DEF Rec!NewRecorder
  <2>. QED  BY <1>1, <2>1, <2>2 DEF RecordingType
<1>4. RecordingInv
  BY <1>1, <1>3 DEF RecordingInv, Rec!Idle, Rec!MetricsMatchSpans, Rec!LiveIsPersisted, Rec!NoSpanIsLost
<1>5. Rec!NestsCorrectly /\ Rec!InnermostFirst
  BY <1>2 DEF Rec!NestsCorrectly, Rec!InnermostFirst
<1>. QED  BY <1>1, <1>4, <1>5 DEF NestingInv

LEMMA BeginTurnStep ==
    ASSUME RecordingInv, Rec!BeginTurn
    PROVE  RecordingInv' /\ (Rec!NestsCorrectly /\ Rec!InnermostFirst /\ StackIsTheTasks)'
<1>1. /\ rec = Rec!NewRecorder /\ within = <<>> /\ Rec!Idle /\ RecordingType
      /\ rec' = Rec!Push(Rec!Begin(rec), Rec!Turn) /\ within' = <<Rec!NoSpan>> /\ phase' = "agent"
      /\ held' = held /\ used' = used
  BY DEF RecordingInv, Rec!BeginTurn
<1> DEFINE b == Rec!Begin(Rec!NewRecorder)
<1>2. /\ b \in Recorder /\ b.spans = <<>> /\ b.open = <<>> /\ b.state = "unset"
      /\ CountsSpans(b) /\ Streams(b)
  BY NewFacts
<1> HIDE DEF b
<1>3. /\ rec' \in Recorder /\ (rec').open = <<Rec!Turn>> /\ (rec').spans = <<>>
      /\ (rec').state = "unset" /\ CountsSpans(rec') /\ Streams(rec')
  <2>1. Rec!Turn \in Nat /\ Append(<<>>, Rec!Turn) = <<Rec!Turn>>
    BY DEF Rec!Turn
  <2>2. rec' = Rec!Push(b, Rec!Turn)
    BY <1>1 DEF b
  <2>3. /\ rec' \in Recorder /\ (rec').open = Append(b.open, Rec!Turn)
        /\ (rec').spans = b.spans /\ (rec').live = b.live /\ (rec').state = b.state
        /\ (rec').tokens = b.tokens /\ (rec').llm_calls = b.llm_calls
        /\ (rec').tool_calls = b.tool_calls
    BY <1>2, <2>1, <2>2, PushFacts
  <2>4. CountsSpans(rec') /\ Streams(rec')
    BY <1>2, <2>3 DEF CountsSpans, Streams
  <2>. QED  BY <1>2, <2>1, <2>3, <2>4
<1>4. /\ \A t \in Tasks : held[t] = <<>>
      /\ Len(within') = 1 /\ within' \in Seq(Nat) /\ (within')[Rec!Turn] = Rec!NoSpan
      /\ Len(<<Rec!Turn>>) = 1 /\ <<Rec!Turn>>[1] = Rec!Turn
  BY <1>1 DEF Rec!Idle, Rec!NoSpan, Rec!Turn
<1>5. RecordingType'
  BY <1>1, <1>3, <1>4 DEF RecordingType
<1>6. HeldIds' = {}
  BY <1>1, <1>4 DEF HeldIds
<1>7. Cardinality(HeldIds') = 0
  BY <1>6, FS_EmptySet
<1>8. DoneIds' = {}
  BY <1>3 DEF DoneIds, IdsOf
<1>9. HeldOrRecorded'
  BY <1>1, <1>3, <1>4, <1>6, <1>7, <1>8 DEF HeldOrRecorded
<1>10. RecordingInv'
  BY <1>1, <1>3, <1>4, <1>5, <1>9 DEF RecordingInv, WhileOpen, Rec!MetricsMatchSpans,
     Rec!LiveIsPersisted, Rec!NoSpanIsLost
<1>11. (Rec!NestsCorrectly /\ Rec!InnermostFirst)'
  BY <1>3 DEF Rec!NestsCorrectly, Rec!InnermostFirst
<1>12. StackIsTheTasks'
  BY <1>1, <1>3, <1>4 DEF StackIsTheTasks
<1>. QED  BY <1>10, <1>11, <1>12

LEMMA OpenStep ==
    ASSUME RecordingInv, NEW t \in Tasks, NEW kind \in {"agent_turn", "llm_call", "tool_call"},
           Rec!HandleOpen(t, kind)
    PROVE  RecordingInv'
<1> DEFINE n == Len(within)
           s == Rec!OpenSpan(rec, Rec!NextId, kind)
<1>1. /\ RecordingType /\ WhileOpen /\ phase = "agent" /\ phase' = "agent" /\ used' = TRUE
      /\ held' = [held EXCEPT ![t] = Append(@, s)]
      /\ within' = Append(within, Rec!Innermost(t)) /\ rec' = Rec!Push(rec, Rec!NextId)
  BY DEF RecordingInv, Rec!HandleOpen
<1>2. Rec!NextId = n + 1 /\ n \in Nat \ {0}
  BY <1>1, HeldFacts DEF Rec!NextId
<1>3. rec \in Recorder /\ s \in SpanRecord /\ s.id = n + 1
  <2>1. rec \in Recorder /\ kind \in SpanKinds /\ n + 1 \in Nat
    BY <1>1, <1>2 DEF RecordingType, SpanKinds
  <2>. QED  BY <1>2, <2>1, OpenSpanFacts
<1> HIDE DEF s
<1>4. /\ rec' \in Recorder /\ (rec').spans = rec.spans /\ (rec').state = rec.state
      /\ (rec').live = rec.live /\ (rec').tokens = rec.tokens
      /\ (rec').llm_calls = rec.llm_calls /\ (rec').tool_calls = rec.tool_calls
      /\ Len((rec').open) = Len(rec.open) + 1 /\ (rec').open[1] = rec.open[1]
  <2>1. n + 1 \in Nat
    BY <1>2
  <2>2. /\ rec' \in Recorder /\ (rec').spans = rec.spans /\ (rec').state = rec.state
        /\ (rec').live = rec.live /\ (rec').tokens = rec.tokens
        /\ (rec').llm_calls = rec.llm_calls /\ (rec').tool_calls = rec.tool_calls
        /\ (rec').open = Append(rec.open, n + 1)
    BY <1>1, <1>2, <1>3, <2>1, PushFacts, ZenonT(30)
  <2>3. rec.open \in Seq(Nat) /\ Len(rec.open) \in Nat \ {0}
    BY <1>1, HeldFacts
  <2>. QED  BY <2>1, <2>2, <2>3
<1>5. held[t] \in Seq(SpanRecord) /\ Len(held[t]) \in Nat /\ Rec!Innermost(t) \in Nat
  <2>1. held[t] \in Seq(SpanRecord) /\ Len(held[t]) \in Nat
    BY <1>1, HeldFacts
  <2>2. held[t] # <<>> => Rec!Last(held[t]) \in SpanRecord
    BY <2>1 DEF Rec!Last
  <2>. QED  BY <2>1, <2>2 DEF Rec!Innermost, Rec!Turn, SpanRecord
<1>6. /\ Len(within') = n + 1 /\ within' \in Seq(Nat)
  BY <1>1, <1>5 DEF RecordingType
<1>7. /\ held' \in [Tasks -> Seq(SpanRecord)]
      /\ Len((held')[t]) = Len(held[t]) + 1 /\ (held')[t][Len(held[t]) + 1] = s
      /\ \A i \in 1..Len(held[t]) : (held')[t][i] = held[t][i]
      /\ \A u \in Tasks \ {t} : (held')[u] = held[u]
  BY <1>1, <1>3, <1>5 DEF RecordingType
<1>8. RecordingType'
  BY <1>1, <1>4, <1>6, <1>7 DEF RecordingType
<1>9. /\ \A u \in Tasks : /\ Len(held[u]) \in Nat
                          /\ \A i \in 1..Len(held[u]) : held[u][i].id \in 2..n
      /\ \A u \in Tasks : (held')[u] \in Seq(SpanRecord)
      /\ \A u, v \in Tasks : \A i \in 1..Len(held[u]), j \in 1..Len(held[v]) :
            held[u][i].id = held[v][j].id => u = v /\ i = j
  BY <1>1, <1>7, HeldFacts DEF WhileOpen, HeldOrRecorded
\* What any task holds was held before, or is the new span.
<1>10. \A u \in Tasks : \A i \in 1..Len((held')[u]) :
          \/ /\ i \in 1..Len(held[u]) /\ (held')[u][i] = held[u][i]
             /\ (held')[u][i].id \in 2..n
          \/ u = t /\ i = Len(held[t]) + 1 /\ (held')[u][i].id = n + 1
  <2> SUFFICES ASSUME NEW u \in Tasks, NEW i \in 1..Len((held')[u])
               PROVE  \/ /\ i \in 1..Len(held[u]) /\ (held')[u][i] = held[u][i]
                         /\ (held')[u][i].id \in 2..n
                      \/ u = t /\ i = Len(held[t]) + 1 /\ (held')[u][i].id = n + 1
    OBVIOUS
  <2>1. CASE u # t
    BY <1>7, <1>9, <2>1
  <2>2. CASE u = t
    BY <1>3, <1>5, <1>7, <1>9, <2>2
  <2>. QED  BY <2>1, <2>2
<1>11. HeldIds' = HeldIds \cup {n + 1}
  <2>1. ASSUME NEW id \in HeldIds' PROVE id \in HeldIds \/ id = n + 1
    <3>1. PICK u \in Tasks : \E i \in DOMAIN (held')[u] : (held')[u][i].id = id
      BY DEF HeldIds
    <3>2. PICK i \in 1..Len((held')[u]) : (held')[u][i].id = id
      BY <1>9, <3>1
    <3>3. CASE i \in 1..Len(held[u]) /\ (held')[u][i] = held[u][i] /\ (held')[u][i].id \in 2..n
      <4>1. i \in DOMAIN held[u]
        BY <1>1, <3>3, HeldFacts
      <4>. QED  BY <3>2, <3>3, <4>1 DEF HeldIds
    <3>. QED  BY <1>10, <3>2, <3>3
  <2>2. ASSUME NEW id \in HeldIds PROVE id \in HeldIds'
    <3>1. PICK u \in Tasks : \E i \in DOMAIN held[u] : held[u][i].id = id
      BY DEF HeldIds
    <3>2. PICK i \in 1..Len(held[u]) : held[u][i].id = id
      BY <1>1, <3>1, HeldFacts
    <3>3. i \in DOMAIN (held')[u] /\ (held')[u][i].id = id
      BY <1>5, <1>7, <1>9, <3>2, SMTT(30)
    <3>4. id \in 1..Len(within')
      BY <1>2, <1>6 DEF HeldIds
    <3>. QED  BY <3>3, <3>4 DEF HeldIds
  <2>3. n + 1 \in HeldIds'
    <3>1. Len(held[t]) + 1 \in DOMAIN (held')[t]
      BY <1>5, <1>7, <1>9
    <3>2. n + 1 \in 1..Len(within')
      BY <1>2, <1>6
    <3>. QED  BY <1>3, <1>7, <3>1, <3>2 DEF HeldIds
  <2>. QED  BY <2>1, <2>2, <2>3
<1>12. Cardinality(HeldIds') = Cardinality(HeldIds) + 1
  <2>1. IsFiniteSet(HeldIds) /\ n + 1 \notin HeldIds
    BY <1>1, <1>2, HeldFacts
  <2>. QED  BY <1>11, <2>1, FS_AddElement
<1>13. DoneIds' = DoneIds
  BY <1>4 DEF DoneIds
<1>14. HeldOrRecorded'
  <2>1. \A u \in Tasks : \A i \in 1..Len((held')[u]) : (held')[u][i].id \in 2..Len(within')
    BY <1>2, <1>6, <1>10, SMTT(30)
  <2>2. \A u, v \in Tasks : \A i \in 1..Len((held')[u]), j \in 1..Len((held')[v]) :
            (held')[u][i].id = (held')[v][j].id => u = v /\ i = j
    <3> SUFFICES ASSUME NEW u \in Tasks, NEW v \in Tasks, NEW i \in 1..Len((held')[u]),
                        NEW j \in 1..Len((held')[v]), (held')[u][i].id = (held')[v][j].id
                 PROVE  u = v /\ i = j
      OBVIOUS
    <3>1. CASE u = t /\ i = Len(held[t]) + 1 /\ (held')[u][i].id = n + 1
      <4>1. (held')[v][j].id \notin 2..n
        BY <1>2, <3>1
      <4>. QED  BY <1>10, <3>1, <4>1
    <3>2. CASE i \in 1..Len(held[u]) /\ (held')[u][i] = held[u][i] /\ (held')[u][i].id \in 2..n
      <4>1. (held')[v][j].id # n + 1
        BY <1>2, <3>2
      <4>2. j \in 1..Len(held[v]) /\ (held')[v][j] = held[v][j]
        BY <1>10, <4>1
      <4>. QED  BY <1>9, <3>2, <4>2
    <3>. QED  BY <1>10, <3>1, <3>2
  <2>3. \A id \in 2..Len(within') : id \in HeldIds' \/ id \in DoneIds'
    BY <1>1, <1>2, <1>6, <1>11, <1>13 DEF WhileOpen, HeldOrRecorded
  <2>4. \A id \in DoneIds' : id \in 2..Len(within') /\ id \notin HeldIds'
    BY <1>1, <1>2, <1>6, <1>11, <1>13 DEF WhileOpen, HeldOrRecorded
  <2>5. Len((rec').open) = Cardinality(HeldIds') + 1 /\ (rec').open[1] = Rec!Turn
    BY <1>1, <1>4, <1>12, HeldFacts DEF WhileOpen, HeldOrRecorded
  <2>6. Len((rec').spans) + Len((rec').open) = Len(within')
    <3>1. Len(rec.spans) \in Nat /\ Len(rec.open) \in Nat
      BY <1>1, HeldFacts
    <3>2. Len(rec.spans) + Len(rec.open) = n
      BY <1>1 DEF WhileOpen, HeldOrRecorded
    <3>3. Len((rec').spans) = Len(rec.spans) /\ Len((rec').open) = Len(rec.open) + 1
      BY <1>4
    <3>4. Len(within') = n + 1
      BY <1>6
    <3>5. n \in Nat
      BY <1>2
    <3>6. Len((rec').spans) \in Nat /\ Len((rec').open) \in Nat
      BY <3>1, <3>3
    <3> DEFINE a == Len(rec.spans)
               b == Len(rec.open)
               x == Len((rec').spans)
               y == Len((rec').open)
               z == Len(within')
    <3>7. /\ a \in Nat /\ b \in Nat /\ x \in Nat /\ y \in Nat /\ n \in Nat
          /\ a + b = n /\ x = a /\ y = b + 1 /\ z = n + 1
      BY <3>1, <3>2, <3>3, <3>4, <3>5, <3>6
    <3> HIDE DEF n, a, b, x, y, z
    <3>8. x + y = z
      BY <3>7
    <3>. QED  BY <3>8 DEF x, y, z
  <2>. QED  BY <2>1, <2>2, <2>3, <2>4, <2>5, <2>6 DEF HeldOrRecorded
<1>15. CountsSpans(rec') /\ Streams(rec')
  BY <1>1, <1>4 DEF WhileOpen, CountsSpans, Streams
<1>16. WhileOpen'
  BY <1>1, <1>2, <1>4, <1>6, <1>14, <1>15 DEF WhileOpen
<1>. QED  BY <1>1, <1>8, <1>16 DEF RecordingInv, Rec!MetricsMatchSpans, Rec!LiveIsPersisted, Rec!NoSpanIsLost
LEMMA LeaveBlockStep ==
    ASSUME RecordingInv, NEW t \in Tasks, NEW raised \in BOOLEAN, Rec!HandleClose(t, raised)
    PROVE  RecordingInv'
<1> DEFINE n == Len(within)
           m == Len(held[t])
           s == held[t][m]
           c == Rec!Leave(rec, s, raised)
<1>1. /\ RecordingType /\ WhileOpen /\ phase = "agent" /\ phase' = "agent" /\ used' = used
      /\ held[t] # <<>> /\ rec' = c
      /\ held' = [held EXCEPT ![t] = Rec!Front(@)] /\ within' = within
  BY DEF RecordingInv, Rec!HandleClose, Rec!Last
<1>2. /\ n \in Nat \ {0} /\ m \in Nat \ {0} /\ held[t] \in Seq(SpanRecord) /\ s \in SpanRecord
      /\ s.id \in 2..n
  <2>1. n \in Nat \ {0} /\ m \in Nat /\ held[t] \in Seq(SpanRecord)
    BY <1>1, HeldFacts
  <2>2. m # 0
    BY <1>1, <2>1
  <2>3. s \in SpanRecord
    BY <2>1, <2>2
  <2>4. m \in 1..Len(held[t])
    BY <2>1, <2>2
  <2>5. s.id \in 2..n
    BY <1>1, <2>4 DEF WhileOpen, HeldOrRecorded
  <2>. QED  BY <2>1, <2>2, <2>3, <2>5
<1>3. rec \in Recorder /\ rec.open # <<>>
  BY <1>1, HeldFacts DEF RecordingType
<1> HIDE DEF c, s
<1>4. PICK e \in SpanRecord :
          /\ e.id = s.id /\ e.kind = s.kind /\ e.parent = s.parent
          /\ Adds(c, rec, e) /\ c.open = Rec!Front(rec.open)
  BY <1>2, <1>3, LeaveAdds DEF c
<1>5. /\ c \in Recorder /\ c.state = rec.state
      /\ Len(c.spans) = Len(rec.spans) + 1
      /\ CountsSpans(c) /\ Streams(c)
      /\ IdsOf(c.spans) = DoneIds \cup {s.id}
  <2>1. CountsSpans(rec) /\ Streams(rec)
    BY <1>1 DEF WhileOpen
  <2>2. c \in Recorder /\ c.state = rec.state
    BY <1>4 DEF Adds
  <2>. QED  BY <1>3, <1>4, <2>1, <2>2, AddsKeeps DEF DoneIds
<1>6. Len(rec.open) > 1 /\ Len(c.open) = Len(rec.open) - 1 /\ c.open[1] = rec.open[1]
  <2>1. s.id \in HeldIds
    <3>1. m \in DOMAIN held[t]
      BY <1>2
    <3>2. s.id \in 1..n
      BY <1>2
    <3>. QED  BY <3>1, <3>2 DEF HeldIds, s
  <2>2. Cardinality(HeldIds) # 0 /\ Cardinality(HeldIds) \in Nat
    BY <1>1, <2>1, HeldFacts, FS_EmptySet
  <2>3. Len(rec.open) > 1
    BY <1>1, <2>2 DEF WhileOpen, HeldOrRecorded
  <2>4. /\ Len(Rec!Front(rec.open)) = Len(rec.open) - 1
        /\ \A i \in 1..(Len(rec.open) - 1) : Rec!Front(rec.open)[i] = rec.open[i]
    BY <1>3, PopFacts
  <2>5. 1 \in 1..(Len(rec.open) - 1)
    BY <1>1, <2>3, HeldFacts
  <2>. QED  BY <1>4, <2>3, <2>4, <2>5
<1>7. /\ held' \in [Tasks -> Seq(SpanRecord)]
      /\ Len((held')[t]) = m - 1
      /\ \A i \in 1..(m - 1) : (held')[t][i] = held[t][i]
      /\ \A u \in Tasks \ {t} : (held')[u] = held[u]
  <2>1. Rec!Front(held[t]) = SubSeq(held[t], 1, m - 1)
    BY DEF Rec!Front
  <2>2. /\ Rec!Front(held[t]) \in Seq(SpanRecord) /\ Len(Rec!Front(held[t])) = m - 1
        /\ \A i \in 1..(m - 1) : Rec!Front(held[t])[i] = held[t][i]
    BY <1>2, <2>1
  <2>. QED  BY <1>1, <2>2 DEF RecordingType
<1>8. RecordingType'
  BY <1>1, <1>5, <1>7 DEF RecordingType
<1>9. /\ \A u \in Tasks : /\ Len(held[u]) \in Nat /\ Len((held')[u]) \in Nat
                          /\ \A i \in 1..Len(held[u]) : held[u][i].id \in 2..n
                          /\ DOMAIN held[u] = 1..Len(held[u])
                          /\ DOMAIN (held')[u] = 1..Len((held')[u])
      /\ \A u, v \in Tasks : \A i \in 1..Len(held[u]), j \in 1..Len(held[v]) :
            held[u][i].id = held[v][j].id => u = v /\ i = j
  <2>1. \A u \in Tasks : (held')[u] \in Seq(SpanRecord)
    BY <1>7
  <2>2. \A u \in Tasks : Len(held[u]) \in Nat /\ DOMAIN held[u] = 1..Len(held[u])
    BY <1>1, HeldFacts
  <2>. QED  BY <1>1, <2>1, <2>2 DEF WhileOpen, HeldOrRecorded
\* What any task still holds it held before, and it is another span.
<1>10. \A u \in Tasks : \A i \in 1..Len((held')[u]) :
          /\ i \in 1..Len(held[u]) /\ (held')[u][i] = held[u][i]
          /\ (held')[u][i].id \in 2..n /\ ~(u = t /\ i = m)
  <2> SUFFICES ASSUME NEW u \in Tasks, NEW i \in 1..Len((held')[u])
               PROVE  /\ i \in 1..Len(held[u]) /\ (held')[u][i] = held[u][i]
                      /\ (held')[u][i].id \in 2..n /\ ~(u = t /\ i = m)
    OBVIOUS
  <2>1. CASE u # t
    BY <1>7, <1>9, <2>1
  <2>2. CASE u = t
    BY <1>2, <1>7, <1>9, <2>2
  <2>. QED  BY <2>1, <2>2
<1>11. s.id \in HeldIds /\ HeldIds' = HeldIds \ {s.id}
  <2>1. s.id \in HeldIds
    <3>1. m \in DOMAIN held[t]
      BY <1>2
    <3>2. s.id \in 1..n
      BY <1>2
    <3>. QED  BY <3>1, <3>2 DEF HeldIds, s
  <2>2. ASSUME NEW id \in HeldIds' PROVE id \in HeldIds /\ id # s.id
    <3>1. PICK u \in Tasks : \E i \in DOMAIN (held')[u] : (held')[u][i].id = id
      BY DEF HeldIds
    <3>2. PICK i \in 1..Len((held')[u]) : (held')[u][i].id = id
      BY <1>9, <3>1
    <3>3. i \in DOMAIN held[u] /\ held[u][i].id = id
      BY <1>9, <1>10, <3>2
    <3>4. id # s.id
      <4>1. m \in 1..Len(held[t]) /\ i \in 1..Len(held[u]) /\ ~(u = t /\ i = m)
        BY <1>2, <1>10, <3>2
      <4>. QED  BY <1>9, <3>3, <4>1, SMTT(30) DEF s
    <3>5. id \in 1..n
      BY <1>1 DEF HeldIds
    <3>. QED  BY <3>3, <3>4, <3>5 DEF HeldIds
  <2>3. ASSUME NEW id \in HeldIds, id # s.id PROVE id \in HeldIds'
    <3>1. PICK u \in Tasks : \E i \in DOMAIN held[u] : held[u][i].id = id
      BY DEF HeldIds
    <3>2. PICK i \in 1..Len(held[u]) : held[u][i].id = id
      BY <1>9, <3>1
    <3>3. ~(u = t /\ i = m)
      BY <2>3, <3>2 DEF s
    <3>4. i \in 1..Len((held')[u]) /\ (held')[u][i] = held[u][i]
      <4>1. CASE u # t
        BY <1>7, <3>2, <4>1
      <4>2. CASE u = t
        BY <1>2, <1>7, <3>2, <3>3, <4>2
      <4>. QED  BY <4>1, <4>2
    <3>5. i \in DOMAIN (held')[u] /\ (held')[u][i].id = id /\ id \in 1..Len(within')
      BY <1>1, <1>9, <3>2, <3>4 DEF HeldIds
    <3>. QED  BY <3>5 DEF HeldIds
  <2>. QED  BY <2>1, <2>2, <2>3
<1>12. Cardinality(HeldIds') = Cardinality(HeldIds) - 1
  <2>1. IsFiniteSet(HeldIds)
    BY <1>1, HeldFacts
  <2>. QED  BY <1>11, <2>1, FS_RemoveElement
<1>13. DoneIds' = DoneIds \cup {s.id}
  BY <1>1, <1>5 DEF DoneIds
<1>14. HeldOrRecorded'
  <2>1. \A u \in Tasks : \A i \in 1..Len((held')[u]) : (held')[u][i].id \in 2..Len(within')
    BY <1>1, <1>10
  <2>2. \A u, v \in Tasks : \A i \in 1..Len((held')[u]), j \in 1..Len((held')[v]) :
            (held')[u][i].id = (held')[v][j].id => u = v /\ i = j
    <3> SUFFICES ASSUME NEW u \in Tasks, NEW v \in Tasks, NEW i \in 1..Len((held')[u]),
                        NEW j \in 1..Len((held')[v]), (held')[u][i].id = (held')[v][j].id
                 PROVE  u = v /\ i = j
      OBVIOUS
    <3>1. i \in 1..Len(held[u]) /\ (held')[u][i] = held[u][i]
      BY <1>10
    <3>2. j \in 1..Len(held[v]) /\ (held')[v][j] = held[v][j]
      BY <1>10
    <3>3. held[u][i].id = held[v][j].id
      BY <3>1, <3>2
    <3>. QED  BY <1>9, <3>1, <3>2, <3>3, SMTT(30)
  <2>3. \A id \in 2..Len(within') : id \in HeldIds' \/ id \in DoneIds'
    BY <1>1, <1>11, <1>13 DEF WhileOpen, HeldOrRecorded
  <2>4. \A id \in DoneIds' : id \in 2..Len(within') /\ id \notin HeldIds'
    BY <1>1, <1>2, <1>11, <1>13 DEF WhileOpen, HeldOrRecorded
  <2>5. Len((rec').open) = Cardinality(HeldIds') + 1 /\ (rec').open[1] = Rec!Turn
    BY <1>1, <1>6, <1>12, HeldFacts DEF WhileOpen, HeldOrRecorded
  <2>6. Len((rec').spans) + Len((rec').open) = Len(within')
    <3>1. Len(rec.spans) \in Nat /\ Len(rec.open) \in Nat
      BY <1>1, HeldFacts
    <3>2. Len(rec.spans) + Len(rec.open) = Len(within)
      BY <1>1 DEF WhileOpen, HeldOrRecorded
    <3>3. Len((rec').spans) = Len(rec.spans) + 1 /\ Len((rec').open) = Len(rec.open) - 1
      BY <1>1, <1>5, <1>6
    <3>4. Len(within') = n /\ n \in Nat /\ Len(rec.spans) + Len(rec.open) = n
      BY <1>1, <1>2, <3>2
    <3>5. Len((rec').spans) \in Nat /\ Len((rec').open) \in Nat
      BY <1>6, <3>1, <3>3
    <3> DEFINE a == Len(rec.spans)
               b == Len(rec.open)
               x == Len((rec').spans)
               y == Len((rec').open)
               z == Len(within')
    <3>6. /\ a \in Nat /\ b \in Nat /\ x \in Nat /\ y \in Nat /\ n \in Nat
          /\ a + b = n /\ x = a + 1 /\ y = b - 1 /\ z = n
      BY <3>1, <3>3, <3>4, <3>5
    <3> HIDE DEF n, a, b, x, y, z
    <3>7. x + y = z
      BY <3>6
    <3>. QED  BY <3>7 DEF x, y, z
  <2>. QED  BY <2>1, <2>2, <2>3, <2>4, <2>5, <2>6 DEF HeldOrRecorded
<1>15. WhileOpen'
  BY <1>1, <1>5, <1>14 DEF WhileOpen
<1>. QED  BY <1>1, <1>8, <1>15 DEF RecordingInv, Rec!MetricsMatchSpans, Rec!LiveIsPersisted, Rec!NoSpanIsLost
LEMMA FactStep ==
    ASSUME RecordingInv, NEW t \in Tasks, Rec!HandleFact(t, "decision")
    PROVE  RecordingInv'
<1> DEFINE n == Len(within)
           s == Rec!Fact(rec, n + 1, "decision")
           c == Rec!AddFact(rec, n + 1, "decision")
<1>1. /\ RecordingType /\ WhileOpen /\ phase = "agent" /\ phase' = "agent" /\ used' = TRUE
      /\ held' = held /\ within' = Append(within, Rec!Innermost(t)) /\ rec' = c
  BY DEF RecordingInv, Rec!HandleFact, Rec!NextId
<1>2. n \in Nat \ {0} /\ rec \in Recorder /\ n + 1 \in Nat
  BY <1>1, HeldFacts DEF RecordingType
<1>3. s \in SpanRecord /\ s.id = n + 1 /\ Adds(c, rec, s) /\ c.open = rec.open
  BY <1>2, FactAdds
<1> HIDE DEF c, s
<1>4. /\ c \in Recorder /\ c.state = rec.state
      /\ Len(c.spans) = Len(rec.spans) + 1
      /\ CountsSpans(c) /\ Streams(c)
      /\ IdsOf(c.spans) = DoneIds \cup {n + 1}
  <2>1. CountsSpans(rec) /\ Streams(rec)
    BY <1>1 DEF WhileOpen
  <2>2. c \in Recorder /\ c.state = rec.state
    BY <1>3 DEF Adds
  <2>3. /\ Len(c.spans) = Len(rec.spans) + 1 /\ CountsSpans(c) /\ Streams(c)
        /\ IdsOf(c.spans) = IdsOf(rec.spans) \cup {s.id}
    BY <1>2, <1>3, <2>1, AddsKeeps
  <2>. QED  BY <1>3, <2>2, <2>3 DEF DoneIds
<1>5. Rec!Innermost(t) \in Nat
  <2>1. held[t] \in Seq(SpanRecord) /\ Len(held[t]) \in Nat
    BY <1>1, HeldFacts
  <2>2. held[t] # <<>> => Rec!Last(held[t]) \in SpanRecord
    BY <2>1 DEF Rec!Last
  <2>. QED  BY <2>1, <2>2 DEF Rec!Innermost, Rec!Turn, SpanRecord
<1>6. Len(within') = n + 1 /\ within' \in Seq(Nat)
  BY <1>1, <1>5 DEF RecordingType
<1>7. RecordingType'
  BY <1>1, <1>4, <1>6 DEF RecordingType
<1>8. HeldIds' = HeldIds /\ n + 1 \notin HeldIds
  <2>1. ASSUME NEW u \in Tasks, NEW i \in DOMAIN held[u] PROVE held[u][i].id \in 1..n
    <3>1. i \in 1..Len(held[u])
      BY <1>1, HeldFacts
    <3>2. held[u][i].id \in 2..n
      BY <1>1, <3>1, HeldIsKnown
    <3>. QED  BY <1>2, <3>2
  <2>2. n + 1 \notin HeldIds
    BY <1>1, <1>2, HeldFacts
  <2>. QED  BY <1>1, <1>2, <1>6, <2>1, <2>2 DEF HeldIds
<1>9. DoneIds' = DoneIds \cup {n + 1}
  BY <1>1, <1>4 DEF DoneIds
<1>10. HeldOrRecorded'
  <2>1. ASSUME NEW u \in Tasks, NEW i \in 1..Len((held')[u])
        PROVE  (held')[u][i].id \in 2..Len(within')
    <3>1. held[u][i].id \in 2..n
      BY <1>1, HeldIsKnown
    <3>. QED  BY <1>1, <1>2, <1>6, <3>1
  <2>2. \A u, v \in Tasks : \A i \in 1..Len((held')[u]), j \in 1..Len((held')[v]) :
            (held')[u][i].id = (held')[v][j].id => u = v /\ i = j
    BY <1>1 DEF WhileOpen, HeldOrRecorded
  <2>3. \A id \in 2..Len(within') : id \in HeldIds' \/ id \in DoneIds'
    BY <1>1, <1>2, <1>6, <1>8, <1>9 DEF WhileOpen, HeldOrRecorded
  <2>4. \A id \in DoneIds' : id \in 2..Len(within') /\ id \notin HeldIds'
    BY <1>1, <1>2, <1>6, <1>8, <1>9 DEF WhileOpen, HeldOrRecorded
  <2>5. Len((rec').open) = Cardinality(HeldIds') + 1 /\ (rec').open[1] = Rec!Turn
    BY <1>1, <1>3, <1>8 DEF WhileOpen, HeldOrRecorded
  <2>6. Len((rec').spans) + Len((rec').open) = Len(within')
    <3> DEFINE a == Len(rec.spans)
               b == Len(rec.open)
               x == Len((rec').spans)
               y == Len((rec').open)
               z == Len(within')
    <3>1. /\ a \in Nat /\ b \in Nat /\ a + b = n /\ x = a + 1 /\ y = b /\ z = n + 1
      BY <1>1, <1>3, <1>4, <1>6, HeldFacts DEF WhileOpen, HeldOrRecorded
    <3>2. n \in Nat
      BY <1>2
    <3> HIDE DEF n, a, b, x, y, z
    <3>3. x + y = z
      BY <3>1, <3>2
    <3>. QED  BY <3>3 DEF x, y, z
  <2>. QED  BY <2>1, <2>2, <2>3, <2>4, <2>5, <2>6 DEF HeldOrRecorded
<1>11. WhileOpen'
  BY <1>1, <1>2, <1>4, <1>6, <1>10 DEF WhileOpen
<1>. QED  BY <1>1, <1>7, <1>11 DEF RecordingInv, Rec!MetricsMatchSpans, Rec!LiveIsPersisted, Rec!NoSpanIsLost

CaseTurn == [id |-> Rec!Turn, kind |-> "agent_turn", parent |-> Rec!NoSpan, failed |-> FALSE]

LEMMA StateFacts ==
    ASSUME NEW r \in Recorder
    PROVE  /\ Rec!SetState(r, "errored") \in Recorder
           /\ Rec!SetState(r, "errored").spans = r.spans /\ Rec!SetState(r, "errored").open = r.open
           /\ Rec!SetState(r, "errored").live = r.live /\ Rec!SetState(r, "errored").tokens = r.tokens
           /\ Rec!SetState(r, "errored").llm_calls = r.llm_calls
           /\ Rec!SetState(r, "errored").tool_calls = r.tool_calls
<1>1. Rec!SetState(r, "errored") = [r EXCEPT !.state = "errored"]
  BY DEF Rec!SetState
<1>2. Rec!SetState(r, "errored") \in Recorder
  BY <1>1 DEF Recorder
<1>. QED  BY <1>1, <1>2, RecorderFields

LEMMA EndFacts ==
    ASSUME NEW r \in Recorder
    PROVE  /\ Rec!End(r, FALSE) \in Recorder
           /\ Rec!End(r, FALSE).spans = r.spans /\ Rec!End(r, FALSE).open = r.open
           /\ Rec!End(r, FALSE).live = Append(r.live, Rec!Event("finished"))
           /\ Rec!End(r, FALSE).tokens = r.tokens /\ Rec!End(r, FALSE).llm_calls = r.llm_calls
           /\ Rec!End(r, FALSE).tool_calls = r.tool_calls
<1> DEFINE s == IF r.state # "unset" THEN r.state ELSE "completed"
           q == [r EXCEPT !.state = s]
           l == Append(r.live, Rec!Event("finished"))
<1>1. s \in {"unset", "completed", "errored"} /\ l \in Seq(LiveEvents)
  <2>1. s \in {"unset", "completed", "errored"}
    BY RecorderFields
  <2>2. Rec!Event("finished") \in LiveEvents /\ r.live \in Seq(LiveEvents)
    BY RecorderFields DEF LiveEvents
  <2>. QED  BY <2>1, <2>2
<1>2. Rec!End(r, FALSE) = Rec!SinkCall(q, Rec!Event("finished"))
  BY DEF Rec!End
<1>3. /\ q.spans = r.spans /\ q.open = r.open /\ q.live = r.live /\ q.tokens = r.tokens
      /\ q.llm_calls = r.llm_calls /\ q.tool_calls = r.tool_calls
  BY RecorderFields
<1>4. q \in Recorder
  <2> HIDE DEF s
  <2>. QED  BY <1>1 DEF Recorder
<1> HIDE DEF q
<1>5. Rec!SinkCall(q, Rec!Event("finished")) = [q EXCEPT !.live = l]
  BY <1>3 DEF Rec!SinkCall
<1> HIDE DEF l
<1>6. [q EXCEPT !.live = l] \in Recorder
  BY <1>1, <1>4 DEF Recorder
<1>7. /\ [q EXCEPT !.live = l].spans = q.spans /\ [q EXCEPT !.live = l].open = q.open
      /\ [q EXCEPT !.live = l].live = l /\ [q EXCEPT !.live = l].tokens = q.tokens
      /\ [q EXCEPT !.live = l].llm_calls = q.llm_calls
      /\ [q EXCEPT !.live = l].tool_calls = q.tool_calls
  BY <1>4, RecorderFields
<1>. QED  BY <1>2, <1>3, <1>5, <1>6, <1>7 DEF l

LEMMA TurnAdds ==
    ASSUME NEW r \in Recorder, Len(r.open) = 1
    PROVE  /\ CaseTurn \in SpanRecord
           /\ Adds(Rec!LeaveAgentTurn(r, CaseTurn), r, CaseTurn)
           /\ Rec!LeaveAgentTurn(r, CaseTurn).open = <<>>
<1>1. r.open \in Seq(Nat) /\ r.open # <<>>
  <2>1. r.open \in Seq(Nat)
    BY RecorderFields
  <2>2. ASSUME r.open = <<>> PROVE FALSE
    BY <2>2
  <2>. QED  BY <2>1, <2>2
<1>2. CaseTurn \in SpanRecord
  BY DEF CaseTurn, SpanRecord, SpanKinds, Rec!Turn, Rec!NoSpan
<1>3. CaseTurn.kind = "agent_turn"
  BY DEF CaseTurn
<1> HIDE DEF CaseTurn
<1>4. Rec!Leave(r, CaseTurn, FALSE) = Rec!LeaveAgentTurn(r, CaseTurn)
  BY <1>3 DEF Rec!Leave
<1> DEFINE p == Rec!Pop(r)
           c == Rec!Record(p, CaseTurn)
<1>5. p \in Recorder /\ p = [r EXCEPT !.open = Rec!Front(r.open)] /\ Len(Rec!Front(r.open)) = 0
      /\ Rec!Front(r.open) \in Seq(Nat)
  <2>1. /\ Rec!Pop(r) \in Recorder /\ Rec!Pop(r) = [r EXCEPT !.open = Rec!Front(r.open)]
        /\ Rec!Front(r.open) \in Seq(Nat) /\ Len(Rec!Front(r.open)) = Len(r.open) - 1
    BY <1>1, PopFacts
  <2>. QED  BY <2>1
<1>6. Rec!Front(r.open) = <<>>
  BY <1>5
<1>7. /\ p.open = <<>> /\ p.spans = r.spans /\ p.live = r.live /\ p.state = r.state
      /\ p.tokens = r.tokens /\ p.llm_calls = r.llm_calls /\ p.tool_calls = r.tool_calls
  BY <1>5, <1>6, RecorderFields
<1> HIDE DEF p
<1>8. /\ c \in Recorder
      /\ c.spans = Append(p.spans, CaseTurn) /\ c.live = Append(p.live, CaseTurn)
      /\ c.llm_calls = p.llm_calls /\ c.tokens = p.tokens /\ c.tool_calls = p.tool_calls
      /\ c.state = p.state /\ c.open = p.open
  <2>1. c \in Recorder
    BY <1>2, <1>5, RecordAdds
  <2>. QED  BY <1>2, <1>5, <2>1, RecordFields
<1>9. Rec!LeaveAgentTurn(r, CaseTurn) = c
  BY DEF Rec!LeaveAgentTurn, p
<1> HIDE DEF c
<1>10. One(CaseTurn.kind = "llm_call") = 0 /\ One(CaseTurn.kind = "tool_call") = 0
  BY <1>3 DEF One
<1>11. r.llm_calls \in Nat /\ r.tokens \in Nat /\ r.tool_calls \in Nat
  BY RecorderFields
<1>12. Adds(c, r, CaseTurn)
  BY <1>7, <1>8, <1>10, <1>11 DEF Adds
<1>. QED  BY <1>2, <1>7, <1>8, <1>9, <1>12
\* The ambient facts of the end: the recorder after the error fact, if there is one.
AtEnd(broken) ==
    IF broken THEN Rec!SetState(Rec!AddFact(rec, Rec!NextId, "error"), "errored") ELSE rec

LEMMA AtEndFacts ==
    ASSUME RecordingType, WhileOpen, Rec!Idle, NEW broken \in BOOLEAN
    PROVE  /\ AtEnd(broken) \in Recorder /\ AtEnd(broken).open = rec.open
           /\ Len(rec.open) = 1 /\ rec.open[1] = Rec!Turn
           /\ CountsSpans(AtEnd(broken)) /\ Streams(AtEnd(broken))
           /\ ~broken => AtEnd(broken).spans = rec.spans
           /\ broken => \E s \in SpanRecord :
                 /\ s.id = Len(within) + 1 /\ s.parent = Rec!Turn
                 /\ AtEnd(broken).spans = Append(rec.spans, s)
<1>1. /\ rec \in Recorder /\ Len(within) \in Nat /\ Rec!NextId = Len(within) + 1
      /\ CountsSpans(rec) /\ Streams(rec)
  BY HeldFacts DEF RecordingType, WhileOpen, Rec!NextId
<1>2. Len(rec.open) = 1 /\ rec.open[1] = Rec!Turn /\ rec.open \in Seq(Nat) /\ rec.open # <<>>
  <2>1. HeldIds = {}
    BY DEF HeldIds, Rec!Idle
  <2>2. Cardinality(HeldIds) = 0
    BY <2>1, FS_EmptySet
  <2>. QED  BY <2>2, HeldFacts DEF WhileOpen, HeldOrRecorded
<1>3. CASE ~broken
  BY <1>1, <1>2, <1>3 DEF AtEnd
<1>4. CASE broken
  <2> DEFINE s == Rec!Fact(rec, Rec!NextId, "error")
             a == Rec!AddFact(rec, Rec!NextId, "error")
  <2>1. /\ s \in SpanRecord /\ s.id = Rec!NextId /\ s.parent = Rec!CurrentParent(rec)
        /\ Adds(a, rec, s) /\ a.open = rec.open
    <3>1. Rec!NextId \in Nat
      BY <1>1
    <3>. QED  BY <1>1, <3>1, FactAdds
  <2>2. Rec!CurrentParent(rec) = Rec!Turn
    BY <1>2 DEF Rec!CurrentParent, Rec!Last
  <2> HIDE DEF s, a
  <2>3. a \in Recorder /\ CountsSpans(a) /\ Streams(a) /\ a.spans = Append(rec.spans, s)
    <3>1. CountsSpans(a) /\ Streams(a)
      BY <1>1, <2>1, AddsKeeps
    <3>. QED  BY <2>1, <3>1 DEF Adds
  <2>4. AtEnd(broken) = Rec!SetState(a, "errored")
    BY <1>4 DEF AtEnd, a
  <2>5. CountsSpans(AtEnd(broken)) /\ Streams(AtEnd(broken))
    BY <2>3, <2>4, StateFacts, ZenonT(30) DEF CountsSpans, Streams
  <2>6. /\ AtEnd(broken) \in Recorder /\ AtEnd(broken).open = rec.open
        /\ AtEnd(broken).spans = Append(rec.spans, s)
    BY <2>1, <2>3, <2>4, StateFacts
  <2>. QED  BY <1>1, <1>2, <1>4, <2>1, <2>2, <2>5, <2>6
<1>. QED  BY <1>3, <1>4

LEMMA EndTurnStep ==
    ASSUME RecordingInv, NEW broken \in BOOLEAN, Rec!EndTurn(broken)
    PROVE  /\ RecordingInv'
           /\ phase' = "built" /\ RecordingType /\ WhileOpen /\ Rec!Idle
           /\ (rec').spans = Append(AtEnd(broken).spans, CaseTurn)
           /\ within' = IF broken THEN Append(within, Rec!Turn) ELSE within
<1> DEFINE a == AtEnd(broken)
           c == Rec!LeaveAgentTurn(a, CaseTurn)
           e == Rec!End(c, FALSE)
           n == Len(within)
           w == Len(within')
<1>1. /\ RecordingType /\ WhileOpen /\ Rec!Idle /\ phase' = "built" /\ held' = held /\ used' = used
      /\ rec' = e /\ built' = Rec!Build(e)
      /\ within' = IF broken THEN Append(within, Rec!Turn) ELSE within
  BY DEF RecordingInv, Rec!EndTurn, AtEnd, CaseTurn
<1>2. /\ a \in Recorder /\ Len(a.open) = 1 /\ CountsSpans(a) /\ Streams(a)
      /\ Len(rec.open) = 1
  BY <1>1, AtEndFacts
<1> HIDE DEF a
<1>3. CaseTurn \in SpanRecord /\ Adds(c, a, CaseTurn) /\ c.open = <<>>
  BY <1>2, TurnAdds
<1>4. c \in Recorder /\ c.spans = Append(a.spans, CaseTurn)
  BY <1>3 DEF Adds
<1>5. /\ CountsSpans(c) /\ Streams(c)
      /\ Len(c.spans) = Len(a.spans) + 1
      /\ IdsOf(c.spans) = IdsOf(a.spans) \cup {Rec!Turn}
  <2>1. CaseTurn.id = Rec!Turn
    BY DEF CaseTurn
  <2>. QED  BY <1>2, <1>3, <2>1, AddsKeeps
<1> HIDE DEF c
<1>6. /\ e \in Recorder /\ e.spans = c.spans /\ e.open = <<>>
      /\ e.live = Append(c.live, Rec!Event("finished"))
      /\ e.tokens = c.tokens /\ e.llm_calls = c.llm_calls /\ e.tool_calls = c.tool_calls
  BY <1>3, <1>4, EndFacts
<1> HIDE DEF e
<1>7. /\ (built').spans = e.spans /\ (built').tokens = e.tokens
      /\ (built').llm_calls = e.llm_calls /\ (built').tool_calls = e.tool_calls
  BY <1>1 DEF Rec!Build
<1>8. /\ n \in Nat \ {0} /\ within \in Seq(Nat) /\ within' \in Seq(Nat)
      /\ w = IF broken THEN n + 1 ELSE n
  <2>1. n \in Nat \ {0} /\ within \in Seq(Nat) /\ Rec!Turn \in Nat
    BY <1>1, HeldFacts DEF RecordingType, Rec!Turn
  <2>. QED  BY <1>1, <2>1
\* The spans before the case turn are those the agent recorded and the error.
<1>9. /\ IdsOf(a.spans) = 2..w /\ Len(a.spans) + 1 = w
  <2>1. DoneIds = 2..n
    <3>1. HeldIds = {}
      BY <1>1 DEF HeldIds, Rec!Idle
    <3>. QED  BY <1>1, <3>1 DEF WhileOpen, HeldOrRecorded
  <2>2. Len(rec.spans) + 1 = n /\ rec.spans \in Seq(SpanRecord)
    BY <1>1, <1>2, HeldFacts DEF WhileOpen, HeldOrRecorded
  <2>3. CASE ~broken
    BY <1>1, <1>8, <2>1, <2>2, <2>3, AtEndFacts DEF DoneIds, a
  <2>4. CASE broken
    <3>1. PICK s \in SpanRecord : s.id = n + 1 /\ a.spans = Append(rec.spans, s)
      BY <1>1, <2>4, AtEndFacts DEF a
    <3>2. IdsOf(a.spans) = DoneIds \cup {n + 1}
      <4>1. rec.spans \in Seq(SpanRecord) /\ a.spans = Append(rec.spans, s) /\ s.id = n + 1
        BY <2>2, <3>1
      <4>. QED  BY <4>1 DEF DoneIds, IdsOf
    <3>3. Len(a.spans) = Len(rec.spans) + 1 /\ w = n + 1
      BY <1>8, <2>2, <2>4, <3>1
    <3>4. 2..(n + 1) = (2..n) \cup {n + 1}
      BY <1>8
    <3>. QED  BY <1>8, <2>1, <2>2, <3>2, <3>3, <3>4
  <2>. QED  BY <2>3, <2>4
<1>10. /\ IdsOf((built').spans) = 1..w
       /\ Len((built').spans) = w
  <2>1. w \in Nat \ {0} /\ 1..w = (2..w) \cup {1} /\ Rec!Turn = 1
    BY <1>8 DEF Rec!Turn
  <2>2. (built').spans = c.spans
    BY <1>6, <1>7
  <2>3. IdsOf((built').spans) = (2..w) \cup {Rec!Turn} /\ Len((built').spans) = w
    BY <1>5, <1>9, <2>2
  <2>. QED  BY <2>1, <2>3
<1>11. Rec!NoSpanIsLost'
  <2>1. DOMAIN (within') = 1..Len(within')
    BY <1>8
  <2>2. (rec').open = <<>>
    BY <1>1, <1>6
  <2>. QED  BY <1>10, <2>1, <2>2 DEF Rec!NoSpanIsLost, IdsOf
<1>12. Rec!MetricsMatchSpans'
  <2>1. \A kind : Rec!Recorded(kind)' = OfKind(c.spans, kind)
    BY <1>1, <1>6 DEF Rec!Recorded, OfKind
  <2>2. (built').spans = (rec').spans
    BY <1>1, <1>7
  <2>. QED  BY <1>5, <1>6, <1>7, <2>1, <2>2 DEF Rec!MetricsMatchSpans, CountsSpans
<1>13. Rec!LiveIsPersisted'
  <2>1. (rec').live = Append(<<Rec!Event("started")>> \o c.spans, Rec!Event("finished"))
    BY <1>1, <1>5, <1>6 DEF Streams
  <2>2. c.spans \in Seq(LiveEvents) /\ Rec!Event("started") \in LiveEvents /\ Rec!Event("finished") \in LiveEvents
    <3>1. c.spans \in Seq(SpanRecord) /\ SpanRecord \subseteq LiveEvents
      BY <1>4, RecorderFields DEF LiveEvents
    <3>. QED  BY <3>1 DEF LiveEvents
  <2> DEFINE x == Rec!Event("started")
             y == Rec!Event("finished")
  <2>3. (built').spans = c.spans
    BY <1>6, <1>7
  <2> HIDE DEF x, y
  <2>4. Append(<<x>> \o c.spans, y) = <<x>> \o c.spans \o <<y>>
    <3>1. x \in LiveEvents /\ y \in LiveEvents
      BY <2>2 DEF x, y
    <3>2. <<x>> \o c.spans \in Seq(LiveEvents)
      BY <2>2, <3>1
    <3> DEFINE z == <<x>> \o c.spans
    <3> HIDE DEF z
    <3>3. Append(z, y) = z \o <<y>>
      BY <3>1, <3>2 DEF z
    <3>. QED  BY <3>3 DEF z
  <2>. QED  BY <2>1, <2>3, <2>4 DEF Rec!LiveIsPersisted, x, y
<1>14. RecordingType'
  BY <1>1, <1>6, <1>8 DEF RecordingType
<1>15. RecordingInv'
  BY <1>1, <1>11, <1>12, <1>13, <1>14 DEF RecordingInv
<1>. QED  BY <1>1, <1>4, <1>6, <1>15 DEF a
-----------------------------------------------------------------------------
(* One task: what it leaves is the top of the stack.                         *)
Nested(spans, w) == \A i \in DOMAIN spans : spans[i].parent = w[spans[i].id]

Ordered(spans) == \A i, j \in DOMAIN spans : spans[i].parent = spans[j].id => i < j

LEMMA AppendNests ==
    ASSUME NEW spans \in Seq(SpanRecord), NEW span \in SpanRecord, NEW w,
           Nested(spans, w), Ordered(spans), span.parent = w[span.id],
           span.parent \notin IdsOf(spans), span.parent # span.id
    PROVE  Nested(Append(spans, span), w) /\ Ordered(Append(spans, span))
<1> DEFINE q == Append(spans, span)
           n == Len(spans)
<1>1. /\ n \in Nat /\ DOMAIN spans = 1..n /\ DOMAIN q = 1..(n + 1) /\ q[n + 1] = span
      /\ \A i \in 1..n : q[i] = spans[i]
  OBVIOUS
<1> HIDE DEF q, n
<1>2. Nested(q, w)
  BY <1>1 DEF Nested
<1>3. Ordered(q)
  <2> SUFFICES ASSUME NEW i \in 1..(n + 1), NEW j \in 1..(n + 1), q[i].parent = q[j].id
               PROVE  i < j
    BY <1>1 DEF Ordered
  <2>1. CASE i = n + 1
    <3>1. q[j].id = span.parent /\ j # n + 1
      BY <1>1, <2>1
    <3>2. j \in DOMAIN spans /\ spans[j].id = span.parent
      BY <1>1, <3>1
    <3>. QED  BY <3>2 DEF IdsOf
  <2>2. CASE i \in 1..n /\ j = n + 1
    BY <1>1, <2>2
  <2>3. CASE i \in 1..n /\ j \in 1..n
    BY <1>1, <2>3 DEF Ordered
  <2>. QED  BY <1>1, <2>1, <2>2, <2>3
<1>. QED  BY <1>2, <1>3 DEF q

LEMMA KeepsNested ==
    ASSUME NEW spans \in Seq(SpanRecord), NEW w \in Seq(Nat), NEW x \in Nat, Nested(spans, w),
           \A id \in IdsOf(spans) : id \in 1..Len(w)
    PROVE  Nested(spans, Append(w, x))
<1>1. \A id \in 1..Len(w) : Append(w, x)[id] = w[id]
  OBVIOUS
<1>2. \A i \in DOMAIN spans : spans[i].id \in 1..Len(w)
  BY DEF IdsOf
<1>. QED  BY <1>1, <1>2 DEF Nested

LEMMA TopOfStack ==
    ASSUME RecordingInv, phase = "agent", StackIsTheTasks, NEW t \in Tasks
    PROVE  /\ Rec!CurrentParent(rec) = rec.open[Len(held[t]) + 1]
           /\ Rec!Innermost(t) = Rec!CurrentParent(rec)
           /\ \A i \in 1..(Len(held[t]) + 1) :
                 /\ rec.open[i] \in 1..Len(within)
                 /\ rec.open[i] \notin DoneIds
                 /\ i > 1 => rec.open[i] # rec.open[1]
                 /\ \A j \in 1..(Len(held[t]) + 1) : rec.open[i] = rec.open[j] => i = j
           /\ \A id \in DoneIds : id \in 1..Len(within)
<1> DEFINE m == Len(held[t])
<1>1. /\ RecordingType /\ WhileOpen /\ Len(within) \in Nat \ {0} /\ m \in Nat
      /\ held[t] \in Seq(SpanRecord) /\ DOMAIN held[t] = 1..m
  BY HeldFacts DEF RecordingInv
<1>2. /\ Len(rec.open) = m + 1 /\ rec.open # <<>> /\ rec.open[1] = Rec!Turn
      /\ \A i \in 1..m : held[t][i].id = rec.open[i + 1]
  BY <1>1, HeldFacts DEF StackIsTheTasks, WhileOpen, HeldOrRecorded
<1>3. Rec!CurrentParent(rec) = rec.open[m + 1]
  BY <1>2 DEF Rec!CurrentParent, Rec!Last
<1>4. Rec!Innermost(t) = rec.open[m + 1]
  <2>1. CASE held[t] = <<>>
    <3>1. m = 0
      BY <2>1
    <3>. QED  BY <1>2, <2>1, <3>1 DEF Rec!Innermost
  <2>2. CASE held[t] # <<>>
    <3>1. m \in 1..m
      BY <1>1, <2>2
    <3>2. Rec!Innermost(t) = held[t][m].id
      BY <2>2 DEF Rec!Innermost, Rec!Last
    <3>. QED  BY <1>2, <3>1, <3>2
  <2>. QED  BY <2>1, <2>2
<1>5. \A i \in 1..m : held[t][i].id \in HeldIds /\ held[t][i].id \in 2..Len(within)
  BY <1>1 DEF WhileOpen, HeldOrRecorded, HeldIds
<1>6. \A i, j \in 1..m : held[t][i].id = held[t][j].id => i = j
  BY <1>1 DEF WhileOpen, HeldOrRecorded
<1>7. \A id \in DoneIds : id \in 2..Len(within) /\ id \notin HeldIds
  BY <1>1 DEF WhileOpen, HeldOrRecorded
<1>8. \A i \in 1..(m + 1) : i # 1 => \E k \in 1..m : i = k + 1
  <2> SUFFICES ASSUME NEW i \in 1..(m + 1), i # 1 PROVE \E k \in 1..m : i = k + 1
    OBVIOUS
  <2>1. i - 1 \in 1..m /\ i = (i - 1) + 1
    BY <1>1
  <2>. QED  BY <2>1
<1> HIDE DEF m
<1>9. ASSUME NEW i \in 1..(m + 1)
      PROVE  /\ rec.open[i] \in 1..Len(within) /\ rec.open[i] \notin DoneIds
             /\ i > 1 => rec.open[i] # Rec!Turn
  <2>1. CASE i = 1
    BY <1>1, <1>2, <1>7, <2>1 DEF Rec!Turn
  <2>2. CASE i # 1
    <3>1. PICK k \in 1..m : i = k + 1
      BY <1>8, <2>2
    <3>2. rec.open[i] = held[t][k].id
      BY <1>2, <3>1
    <3>. QED  BY <1>1, <1>5, <1>7, <3>2 DEF Rec!Turn
  <2>. QED  BY <2>1, <2>2
<1>10. ASSUME NEW i \in 1..(m + 1), NEW j \in 1..(m + 1), rec.open[i] = rec.open[j]
       PROVE  i = j
  <2>1. CASE i = 1
    <3>1. ~ j > 1
      BY <1>2, <1>9, <1>10, <2>1
    <3>. QED  BY <1>1, <2>1, <3>1
  <2>2. CASE j = 1
    <3>1. ~ i > 1
      BY <1>2, <1>9, <1>10, <2>2
    <3>. QED  BY <1>1, <2>2, <3>1
  <2>3. CASE i # 1 /\ j # 1
    <3>1. PICK k \in 1..m : i = k + 1
      BY <1>8, <2>3
    <3>2. PICK l \in 1..m : j = l + 1
      BY <1>8, <2>3
    <3>3. held[t][k].id = held[t][l].id
      BY <1>2, <1>10, <3>1, <3>2
    <3>4. k = l
      BY <1>6, <3>3
    <3>. QED  BY <3>1, <3>2, <3>4
  <2>. QED  BY <2>1, <2>2, <2>3
<1>11. \A id \in DoneIds : id \in 1..Len(within)
  BY <1>1, <1>7
<1>. QED  BY <1>2, <1>3, <1>4, <1>9, <1>10, <1>11 DEF m
LEMMA NestedFacts ==
    ASSUME NestingInv, phase = "agent", OneTask
    PROVE  /\ RecordingInv /\ RecordingType /\ WhileOpen /\ StackIsTheTasks
           /\ rec.spans \in Seq(SpanRecord) /\ within \in Seq(Nat) /\ rec \in Recorder
           /\ Nested(rec.spans, within) /\ Ordered(rec.spans)
           /\ \A id \in IdsOf(rec.spans) : id \in 2..Len(within)
           /\ Len(within) \in Nat \ {0}
<1>1. RecordingInv /\ RecordingType /\ WhileOpen /\ StackIsTheTasks
  BY DEF NestingInv, RecordingInv
<1>2. Nested(rec.spans, within) /\ Ordered(rec.spans)
  BY DEF NestingInv, Rec!NestsCorrectly, Rec!InnermostFirst, Nested, Ordered
<1>3. \A id \in IdsOf(rec.spans) : id \in 2..Len(within)
  BY <1>1 DEF WhileOpen, HeldOrRecorded, DoneIds
<1>4. rec \in Recorder /\ within \in Seq(Nat)
  BY <1>1 DEF RecordingType
<1>. QED  BY <1>1, <1>2, <1>3, <1>4, HeldFacts

LEMMA NestedOpen ==
    ASSUME NestingInv, OneTask, NEW t \in Tasks, Rec!HandleOpen(t, "agent_turn") \/
           Rec!HandleOpen(t, "llm_call") \/ Rec!HandleOpen(t, "tool_call")
    PROVE  NestingInv'
<1>1. PICK kind \in {"agent_turn", "llm_call", "tool_call"} : Rec!HandleOpen(t, kind)
  OBVIOUS
<1> DEFINE n == Len(within)
           m == Len(held[t])
           s == Rec!OpenSpan(rec, Rec!NextId, kind)
<1>2. /\ phase = "agent" /\ phase' = "agent"
      /\ held' = [held EXCEPT ![t] = Append(@, s)]
      /\ within' = Append(within, Rec!Innermost(t)) /\ rec' = Rec!Push(rec, Rec!NextId)
      /\ RecordingInv /\ Rec!NextId = n + 1
  BY <1>1 DEF Rec!HandleOpen, NestingInv, Rec!NextId
<1>3. RecordingInv' /\ RecordingType'
  <2>1. RecordingInv'
    BY <1>1, <1>2, OpenStep
  <2>. QED  BY <2>1 DEF RecordingInv
<1>4. /\ RecordingType /\ WhileOpen /\ StackIsTheTasks
      /\ rec.spans \in Seq(SpanRecord) /\ within \in Seq(Nat) /\ rec \in Recorder
      /\ Nested(rec.spans, within) /\ Ordered(rec.spans)
      /\ \A id \in IdsOf(rec.spans) : id \in 2..n
      /\ n \in Nat \ {0}
  BY <1>2, NestedFacts
<1>5. /\ s \in SpanRecord /\ s.id = n + 1 /\ s.parent = Rec!CurrentParent(rec)
      /\ Rec!CurrentParent(rec) \in Nat
  <2>1. kind \in SpanKinds /\ n + 1 \in Nat
    BY <1>4 DEF SpanKinds
  <2>. QED  BY <1>2, <1>4, <2>1, OpenSpanFacts
<1>6. /\ Rec!CurrentParent(rec) = rec.open[m + 1] /\ Rec!Innermost(t) = Rec!CurrentParent(rec)
  BY <1>2, <1>4, TopOfStack
<1> HIDE DEF s
<1>7. /\ (rec').spans = rec.spans /\ (rec').open = Append(rec.open, n + 1)
      /\ Len(rec.open) \in Nat /\ rec.open \in Seq(Nat)
  <2>1. n + 1 \in Nat
    BY <1>4
  <2>. QED  BY <1>2, <1>4, <2>1, PushFacts, RecorderFields
<1>8. /\ m \in Nat /\ held[t] \in Seq(SpanRecord) /\ held \in [Tasks -> Seq(SpanRecord)]
      /\ \A i \in 1..m : held[t][i].id \in 2..n
  BY <1>4, HeldFacts DEF RecordingType, WhileOpen, HeldOrRecorded
<1>9. /\ Len((held')[t]) = m + 1 /\ (held')[t][m + 1] = s
      /\ \A i \in 1..m : (held')[t][i] = held[t][i]
  BY <1>2, <1>5, <1>8
<1>10. /\ (within')[n + 1] = rec.open[m + 1]
       /\ \A i \in 1..n : (within')[i] = within[i]
  BY <1>2, <1>4, <1>5, <1>6
<1>11. (Rec!NestsCorrectly /\ Rec!InnermostFirst)'
  <2>1. Nested(rec.spans, within')
    <3>1. \A id \in IdsOf(rec.spans) : id \in 1..n
      BY <1>4
    <3>. QED  BY <1>2, <1>4, <1>5, <1>6, <3>1, KeepsNested
  <2>. QED  BY <1>4, <1>7, <2>1 DEF Rec!NestsCorrectly, Rec!InnermostFirst, Nested, Ordered
<1>12. StackIsTheTasks'
  <2>1. /\ Len(rec.open) = m + 1
        /\ \A i \in 1..m : /\ held[t][i].id = rec.open[i + 1]
                           /\ held[t][i].parent = rec.open[i]
                           /\ within[held[t][i].id] = rec.open[i]
        /\ within[Rec!Turn] = Rec!NoSpan
    BY <1>4 DEF StackIsTheTasks
  <2>2. /\ Len((rec').open) = m + 2 /\ (rec').open[m + 2] = n + 1
        /\ \A i \in 1..(m + 1) : (rec').open[i] = rec.open[i]
    <3> DEFINE o == rec.open
               p == (rec').open
               k == n + 1
    <3>1. o \in Seq(Nat) /\ Len(o) = m + 1 /\ m \in Nat /\ p = Append(o, k)
      BY <1>7, <1>8, <2>1
    <3> HIDE DEF o, p, k, m
    <3>2. Len(p) = m + 2 /\ p[m + 2] = k /\ \A i \in 1..(m + 1) : p[i] = o[i]
      BY <3>1
    <3>. QED  BY <3>2 DEF o, p, k
  <2>3. ASSUME NEW i \in 1..(m + 1)
        PROVE  /\ (held')[t][i].id = (rec').open[i + 1]
               /\ (held')[t][i].parent = (rec').open[i]
               /\ (within')[(held')[t][i].id] = (rec').open[i]
    <3>1. CASE i = m + 1
      <4>1. i \in 1..(m + 1) /\ i + 1 = m + 2
        BY <1>8, <3>1
      <4>. QED  BY <1>5, <1>6, <1>9, <1>10, <2>2, <3>1, <4>1
    <3>2. CASE i # m + 1
      <4>1. i \in 1..m /\ i + 1 \in 1..(m + 1) /\ i \in 1..(m + 1)
        BY <1>8, <3>2
      <4>2. held[t][i].id \in 1..n /\ (held')[t][i] = held[t][i]
        BY <1>8, <1>9, <4>1
      <4>3. held[t][i].id = rec.open[i + 1] /\ (rec').open[i + 1] = rec.open[i + 1]
        BY <2>1, <2>2, <4>1
      <4>4. held[t][i].parent = rec.open[i] /\ (rec').open[i] = rec.open[i]
        BY <2>1, <2>2, <4>1
      <4>5. (within')[held[t][i].id] = rec.open[i]
        BY <1>10, <2>1, <4>1, <4>2
      <4>. QED  BY <4>2, <4>3, <4>4, <4>5
    <3>. QED  BY <3>1, <3>2
  <2>4. (within')[Rec!Turn] = Rec!NoSpan
    <3>1. Rec!Turn \in 1..n
      BY <1>4 DEF Rec!Turn
    <3>. QED  BY <1>10, <2>1, <3>1
  <2>5. Len((rec').open) = Len((held')[t]) + 1
    BY <1>8, <1>9, <2>2
  <2>6. \A u \in Tasks : u = t
    BY DEF OneTask
  <2>. QED  BY <1>9, <2>3, <2>4, <2>5, <2>6 DEF StackIsTheTasks
<1>. QED  BY <1>3, <1>11, <1>12 DEF NestingInv

LEMMA NestedClose ==
    ASSUME NestingInv, OneTask, NEW t \in Tasks, NEW raised \in BOOLEAN, Rec!HandleClose(t, raised)
    PROVE  NestingInv'
<1> DEFINE n == Len(within)
           m == Len(held[t])
           s == held[t][m]
           c == Rec!Leave(rec, s, raised)
<1>1. /\ phase = "agent" /\ phase' = "agent" /\ held[t] # <<>> /\ rec' = c
      /\ held' = [held EXCEPT ![t] = Rec!Front(@)] /\ within' = within
      /\ RecordingInv
  BY DEF NestingInv, Rec!HandleClose, Rec!Last
<1>2. RecordingInv'
  BY <1>1, LeaveBlockStep
<1>3. /\ RecordingType /\ WhileOpen /\ StackIsTheTasks
      /\ rec.spans \in Seq(SpanRecord) /\ within \in Seq(Nat) /\ rec \in Recorder
      /\ Nested(rec.spans, within) /\ Ordered(rec.spans)
      /\ n \in Nat \ {0}
  BY <1>1, NestedFacts
<1>4. /\ held[t] \in Seq(SpanRecord) /\ m \in Nat \ {0} /\ s \in SpanRecord
      /\ held \in [Tasks -> Seq(SpanRecord)]
  <2>1. held[t] \in Seq(SpanRecord) /\ m \in Nat
    BY <1>3, HeldFacts
  <2>2. m # 0
    BY <1>1, <2>1
  <2>3. s \in SpanRecord
    BY <2>1, <2>2
  <2>. QED  BY <1>3, <2>1, <2>2, <2>3 DEF RecordingType
<1>5. /\ Len(rec.open) = m + 1 /\ rec.open # <<>> /\ rec.open \in Seq(Nat)
      /\ \A i \in 1..m : /\ held[t][i].id = rec.open[i + 1]
                         /\ held[t][i].parent = rec.open[i]
                         /\ within[held[t][i].id] = rec.open[i]
      /\ within[Rec!Turn] = Rec!NoSpan
  BY <1>3, HeldFacts DEF StackIsTheTasks
<1>6. s.id = rec.open[m + 1] /\ s.parent = rec.open[m] /\ within[s.id] = rec.open[m]
  <2>1. m \in 1..m
    BY <1>4
  <2>. QED  BY <1>5, <2>1
<1> HIDE DEF s, c
<1>7. PICK e \in SpanRecord :
          /\ e.id = s.id /\ e.kind = s.kind /\ e.parent = s.parent
          /\ Adds(c, rec, e) /\ c.open = Rec!Front(rec.open)
  BY <1>3, <1>4, <1>5, LeaveAdds DEF c
<1>8. c.spans = Append(rec.spans, e)
  BY <1>7 DEF Adds
<1>9. e.parent \notin IdsOf(rec.spans) /\ e.parent # e.id
  <2>1. /\ m \in 1..(m + 1) /\ m + 1 \in 1..(m + 1) /\ m # m + 1
    BY <1>4
  <2>2. rec.open[m] \notin DoneIds /\ rec.open[m] # rec.open[m + 1]
    BY <1>1, <1>3, <2>1, TopOfStack
  <2>. QED  BY <1>6, <1>7, <2>2 DEF DoneIds
<1>10. Nested(c.spans, within) /\ Ordered(c.spans)
  BY <1>3, <1>6, <1>7, <1>8, <1>9, AppendNests
<1>11. (Rec!NestsCorrectly /\ Rec!InnermostFirst)'
  BY <1>1, <1>10 DEF Rec!NestsCorrectly, Rec!InnermostFirst, Nested, Ordered
<1>12. StackIsTheTasks'
  <2>1. /\ Len((rec').open) = m
        /\ \A i \in 1..m : (rec').open[i] = rec.open[i]
    <3>1. /\ Len(Rec!Front(rec.open)) = Len(rec.open) - 1
          /\ \A i \in 1..(Len(rec.open) - 1) : Rec!Front(rec.open)[i] = rec.open[i]
      BY <1>3, <1>5, PopFacts
    <3>2. Len(rec.open) - 1 = m
      BY <1>4, <1>5
    <3>. QED  BY <1>1, <1>7, <3>1, <3>2
  <2>2. /\ Len((held')[t]) = m - 1
        /\ \A i \in 1..(m - 1) : (held')[t][i] = held[t][i]
    <3>1. Rec!Front(held[t]) = SubSeq(held[t], 1, m - 1)
      BY DEF Rec!Front
    <3>2. /\ Len(Rec!Front(held[t])) = m - 1
          /\ \A i \in 1..(m - 1) : Rec!Front(held[t])[i] = held[t][i]
      <4>1. held[t] \in Seq(SpanRecord) /\ m \in Nat \ {0}
        BY <1>4
      <4>. QED  BY <3>1, <4>1
    <3>. QED  BY <1>1, <1>4, <3>2
  <2>3. ASSUME NEW i \in 1..(m - 1)
        PROVE  /\ (held')[t][i].id = (rec').open[i + 1]
               /\ (held')[t][i].parent = (rec').open[i]
               /\ (within')[(held')[t][i].id] = (rec').open[i]
    <3>1. i \in 1..m /\ i + 1 \in 1..m
      BY <1>4
    <3>. QED  BY <1>1, <1>5, <2>1, <2>2, <3>1
  <2>4. Len((rec').open) = Len((held')[t]) + 1
    BY <1>4, <2>1, <2>2
  <2>5. \A u \in Tasks : u = t
    BY DEF OneTask
  <2>6. (within')[Rec!Turn] = Rec!NoSpan
    BY <1>1, <1>5
  <2> DEFINE k == Len((held')[t])
  <2>7. k = m - 1
    BY <2>2
  <2>8. \A i \in 1..k : /\ (held')[t][i].id = (rec').open[i + 1]
                        /\ (held')[t][i].parent = (rec').open[i]
                        /\ (within')[(held')[t][i].id] = (rec').open[i]
    BY <2>3, <2>7
  <2>. QED  BY <2>4, <2>5, <2>6, <2>8 DEF StackIsTheTasks
<1>. QED  BY <1>2, <1>11, <1>12 DEF NestingInv
LEMMA NestedFact ==
    ASSUME NestingInv, OneTask, NEW t \in Tasks, Rec!HandleFact(t, "decision")
    PROVE  NestingInv'
<1> DEFINE n == Len(within)
           m == Len(held[t])
           s == Rec!Fact(rec, n + 1, "decision")
           c == Rec!AddFact(rec, n + 1, "decision")
<1>1. /\ phase = "agent" /\ phase' = "agent" /\ held' = held /\ rec' = c
      /\ within' = Append(within, Rec!Innermost(t)) /\ RecordingInv
  BY DEF NestingInv, Rec!HandleFact, Rec!NextId
<1>2. RecordingInv'
  BY <1>1, FactStep
<1>3. /\ RecordingType /\ WhileOpen /\ StackIsTheTasks
      /\ rec.spans \in Seq(SpanRecord) /\ within \in Seq(Nat) /\ rec \in Recorder
      /\ Nested(rec.spans, within) /\ Ordered(rec.spans)
      /\ \A id \in IdsOf(rec.spans) : id \in 2..n
      /\ n \in Nat \ {0}
  BY <1>1, NestedFacts
<1>4. /\ s \in SpanRecord /\ s.id = n + 1 /\ s.parent = Rec!CurrentParent(rec)
      /\ Adds(c, rec, s) /\ c.open = rec.open /\ Rec!CurrentParent(rec) \in Nat
  <2>1. n + 1 \in Nat
    BY <1>3
  <2>. QED  BY <1>3, <2>1, FactAdds
<1> HIDE DEF s, c
<1>5. /\ Rec!Innermost(t) = Rec!CurrentParent(rec)
      /\ Rec!CurrentParent(rec) \in 1..n /\ Rec!CurrentParent(rec) \notin IdsOf(rec.spans)
  <2>1. m + 1 \in 1..(m + 1)
    BY <1>3, HeldFacts
  <2>2. Rec!CurrentParent(rec) = rec.open[m + 1] /\ Rec!Innermost(t) = Rec!CurrentParent(rec)
    BY <1>1, <1>3, TopOfStack
  <2>3. rec.open[m + 1] \in 1..n /\ rec.open[m + 1] \notin DoneIds
    BY <1>1, <1>3, <2>1, TopOfStack
  <2>. QED  BY <2>2, <2>3 DEF DoneIds
<1>6. /\ (within')[n + 1] = Rec!CurrentParent(rec)
      /\ \A i \in 1..n : (within')[i] = within[i]
  BY <1>1, <1>3, <1>4, <1>5
<1>7. Nested(rec.spans, within')
  <2>1. \A id \in IdsOf(rec.spans) : id \in 1..n
    BY <1>3
  <2>. QED  BY <1>1, <1>3, <1>4, <1>5, <2>1, KeepsNested
<1>8. c.spans = Append(rec.spans, s)
  BY <1>4 DEF Adds
<1>9. s.parent = (within')[s.id] /\ s.parent \notin IdsOf(rec.spans) /\ s.parent # s.id
  BY <1>3, <1>4, <1>5, <1>6
<1>10. Nested(c.spans, within') /\ Ordered(c.spans)
  BY <1>3, <1>4, <1>7, <1>8, <1>9, AppendNests
<1>11. (Rec!NestsCorrectly /\ Rec!InnermostFirst)'
  BY <1>1, <1>10 DEF Rec!NestsCorrectly, Rec!InnermostFirst, Nested, Ordered
<1>12. StackIsTheTasks'
  <2>1. \A u \in Tasks : \A i \in 1..Len(held[u]) : held[u][i].id \in 1..n
    <3>1. \A u \in Tasks : \A i \in 1..Len(held[u]) : held[u][i].id \in 2..n
      BY <1>3 DEF WhileOpen, HeldOrRecorded
    <3>. QED  BY <1>3, <3>1
  <2>2. Rec!Turn \in 1..n
    BY <1>3 DEF Rec!Turn
  <2>3. (rec').open = rec.open
    BY <1>1, <1>4
  <2>. QED  BY <1>1, <1>3, <1>6, <2>1, <2>2, <2>3 DEF StackIsTheTasks
<1>. QED  BY <1>2, <1>11, <1>12, <1>1 DEF NestingInv

LEMMA NestedEnd ==
    ASSUME NestingInv, OneTask, NEW broken \in BOOLEAN, Rec!EndTurn(broken)
    PROVE  NestingInv'
<1> DEFINE n == Len(within)
           a == AtEnd(broken)
<1>1. phase = "agent" /\ RecordingInv
  BY DEF NestingInv, Rec!EndTurn
<1>2. /\ RecordingInv' /\ phase' = "built" /\ Rec!Idle
      /\ (rec').spans = Append(a.spans, CaseTurn)
      /\ within' = IF broken THEN Append(within, Rec!Turn) ELSE within
  BY <1>1, EndTurnStep
<1>3. /\ RecordingType /\ WhileOpen /\ StackIsTheTasks
      /\ rec.spans \in Seq(SpanRecord) /\ within \in Seq(Nat) /\ rec \in Recorder
      /\ Nested(rec.spans, within) /\ Ordered(rec.spans)
      /\ \A id \in IdsOf(rec.spans) : id \in 2..n
      /\ n \in Nat \ {0}
  BY <1>1, NestedFacts
<1>4. /\ a \in Recorder
      /\ ~broken => a.spans = rec.spans
      /\ broken => \E s \in SpanRecord :
            s.id = n + 1 /\ s.parent = Rec!Turn /\ a.spans = Append(rec.spans, s)
  BY <1>2, <1>3, AtEndFacts
<1> HIDE DEF a
<1>5. within[Rec!Turn] = Rec!NoSpan
  BY <1>3 DEF StackIsTheTasks
<1>6. /\ a.spans \in Seq(SpanRecord) /\ Nested(a.spans, within') /\ Ordered(a.spans)
      /\ (within')[Rec!Turn] = Rec!NoSpan
      /\ \A id \in IdsOf(a.spans) : id # Rec!NoSpan
  <2>1. CASE ~broken
    BY <1>2, <1>3, <1>4, <1>5, <2>1 DEF Rec!NoSpan
  <2>2. CASE broken
    <3>1. PICK s \in SpanRecord : s.id = n + 1 /\ s.parent = Rec!Turn /\ a.spans = Append(rec.spans, s)
      BY <1>4, <2>2
    <3>2. within' = Append(within, Rec!Turn) /\ Rec!Turn \in Nat /\ Rec!Turn \in 1..n /\ Rec!NoSpan = 0
      BY <1>2, <1>3, <2>2 DEF Rec!Turn, Rec!NoSpan
    <3>3. /\ (within')[n + 1] = Rec!Turn /\ (within')[Rec!Turn] = Rec!NoSpan
      BY <1>3, <1>5, <3>2
    <3>4. Nested(rec.spans, within')
      <4>1. \A id \in IdsOf(rec.spans) : id \in 1..n
        BY <1>3
      <4>. QED  BY <1>3, <3>2, <4>1, KeepsNested
    <3>5. s.parent = (within')[s.id] /\ s.parent \notin IdsOf(rec.spans) /\ s.parent # s.id
      BY <1>3, <3>1, <3>3 DEF Rec!Turn
    <3>6. Nested(a.spans, within') /\ Ordered(a.spans)
      BY <1>3, <3>1, <3>4, <3>5, AppendNests
    <3>7. a.spans \in Seq(SpanRecord)
      BY <1>4, RecorderFields
    <3>8. IdsOf(a.spans) = IdsOf(rec.spans) \cup {n + 1}
      <4>1. rec.spans \in Seq(SpanRecord)
        BY <1>3
      <4>2. a.spans = Append(rec.spans, s) /\ s.id = n + 1
        BY <3>1
      <4>. QED  BY <4>1, <4>2 DEF IdsOf
    <3>. QED  BY <1>3, <3>2, <3>3, <3>6, <3>7, <3>8
  <2>. QED  BY <2>1, <2>2
<1>7. /\ CaseTurn \in SpanRecord /\ CaseTurn.parent = Rec!NoSpan /\ CaseTurn.id = Rec!Turn /\ Rec!Turn # Rec!NoSpan
  BY DEF CaseTurn, SpanRecord, SpanKinds, Rec!Turn, Rec!NoSpan
<1> HIDE DEF CaseTurn
<1>8. Nested((rec').spans, within') /\ Ordered((rec').spans)
  <2>1. /\ CaseTurn.parent = (within')[CaseTurn.id]
        /\ CaseTurn.parent \notin IdsOf(a.spans) /\ CaseTurn.parent # CaseTurn.id
    BY <1>6, <1>7
  <2>2. Nested(Append(a.spans, CaseTurn), within') /\ Ordered(Append(a.spans, CaseTurn))
    BY <1>6, <1>7, <2>1, AppendNests
  <2>. QED  BY <1>2, <2>2
<1>9. (Rec!NestsCorrectly /\ Rec!InnermostFirst)'
  BY <1>8 DEF Rec!NestsCorrectly, Rec!InnermostFirst, Nested, Ordered
<1>. QED  BY <1>2, <1>9 DEF NestingInv

LEMMA RecordingNext == RecordingInv /\ [Rec!Next]_Rec!vars => RecordingInv'
<1> SUFFICES ASSUME RecordingInv, [Rec!Next]_Rec!vars PROVE RecordingInv'
  OBVIOUS
<1>1. CASE UNCHANGED Rec!vars
  <2>1. /\ rec' = rec /\ held' = held /\ within' = within /\ phase' = phase /\ used' = used
        /\ built' = built
    BY <1>1 DEF Rec!vars
  <2>2. RecordingType'
    BY <2>1 DEF RecordingInv, RecordingType
  <2>3. (phase = "new" => rec = Rec!NewRecorder /\ within = <<>> /\ Rec!Idle)'
    BY <2>1 DEF RecordingInv, Rec!Idle
  <2>4. HeldIds' = HeldIds /\ DoneIds' = DoneIds
    BY <2>1 DEF HeldIds, DoneIds
  <2>5. HeldOrRecorded => HeldOrRecorded'
    BY <2>1, <2>4 DEF HeldOrRecorded
  <2>6. WhileOpen => WhileOpen'
    BY <2>1, <2>5 DEF WhileOpen
  <2>7. \A kind : Rec!Recorded(kind)' = Rec!Recorded(kind)
    BY <2>1 DEF Rec!Recorded
  <2>8. (Rec!MetricsMatchSpans /\ Rec!LiveIsPersisted /\ Rec!NoSpanIsLost)'
    BY <2>1, <2>7 DEF RecordingInv, Rec!MetricsMatchSpans, Rec!LiveIsPersisted, Rec!NoSpanIsLost
  <2>. QED  BY <2>1, <2>2, <2>3, <2>6, <2>8 DEF RecordingInv
<1>2. CASE Rec!BeginTurn
  BY <1>2, BeginTurnStep
<1>3. CASE \E t \in Tasks, k \in {"agent_turn", "llm_call", "tool_call"} : Rec!HandleOpen(t, k)
  BY <1>3, OpenStep
<1>4. CASE \E t \in Tasks, raised \in BOOLEAN : Rec!HandleClose(t, raised)
  BY <1>4, LeaveBlockStep
<1>5. CASE \E t \in Tasks : Rec!HandleFact(t, "decision")
  BY <1>5, FactStep
<1>6. CASE \E broken \in BOOLEAN : Rec!EndTurn(broken)
  BY <1>6, EndTurnStep
<1>. QED  BY <1>1, <1>2, <1>3, <1>4, <1>5, <1>6 DEF Rec!Next

LEMMA NestingNext == OneTask /\ NestingInv /\ [Rec!Next]_Rec!vars => NestingInv'
<1> SUFFICES ASSUME OneTask, NestingInv, [Rec!Next]_Rec!vars PROVE NestingInv'
  OBVIOUS
<1>1. CASE UNCHANGED Rec!vars
  <2>1. RecordingInv'
    BY <1>1, RecordingNext DEF NestingInv
  <2>. QED  BY <1>1, <2>1 DEF NestingInv, Rec!vars, Rec!NestsCorrectly, Rec!InnermostFirst, StackIsTheTasks
<1>2. CASE Rec!BeginTurn
  <2>1. RecordingInv
    BY DEF NestingInv
  <2>. QED  BY <1>2, <2>1, BeginTurnStep DEF NestingInv
<1>3. CASE \E t \in Tasks, k \in {"agent_turn", "llm_call", "tool_call"} : Rec!HandleOpen(t, k)
  BY <1>3, NestedOpen
<1>4. CASE \E t \in Tasks, raised \in BOOLEAN : Rec!HandleClose(t, raised)
  BY <1>4, NestedClose
<1>5. CASE \E t \in Tasks : Rec!HandleFact(t, "decision")
  BY <1>5, NestedFact
<1>6. CASE \E broken \in BOOLEAN : Rec!EndTurn(broken)
  BY <1>6, NestedEnd
<1>. QED  BY <1>1, <1>2, <1>3, <1>4, <1>5, <1>6 DEF Rec!Next

(* However the blocks of concurrent tasks interleave on the one stack, no span is lost, the      *)
(* counters are those of the spans, and the live viewer was sent what is stored (TraceRecorder). *)
THEOREM TracesAreWhole == Rec!Spec => [](Rec!MetricsMatchSpans /\ Rec!LiveIsPersisted /\ Rec!NoSpanIsLost)
<1>1. Rec!Init => RecordingInv
  BY RecordingInit DEF NestingInv
<1>2. RecordingInv => Rec!MetricsMatchSpans /\ Rec!LiveIsPersisted /\ Rec!NoSpanIsLost
  BY DEF RecordingInv
<1>. QED  BY <1>1, <1>2, RecordingNext, PTL DEF Rec!Spec

(* The spans of an agent with one task nest like its with blocks, and are recorded innermost     *)
(* first (TraceRecorder._push, _pop).                                                            *)
THEOREM OneTaskNests == ASSUME OneTask PROVE Rec!Spec => [](Rec!NestsCorrectly /\ Rec!InnermostFirst)
<1>1. NestingInv => Rec!NestsCorrectly /\ Rec!InnermostFirst
  BY DEF NestingInv
<1>2. NestingInv /\ [Rec!Next]_Rec!vars => NestingInv'
  BY NestingNext
<1>. QED  BY <1>1, <1>2, RecordingInit, PTL DEF Rec!Spec
=============================================================================
