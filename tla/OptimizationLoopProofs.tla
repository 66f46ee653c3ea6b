----------------------- MODULE OptimizationLoopProofs -----------------------
(***************************************************************************)
(* For every experiment, any set of values and hypotheses and any number   *)
(* of launches, in turn or not: what is kept beats all that came before,   *)
(* hypotheses are taken in turn, and the store is written in order.  Then, *)
(* for the rounds of experiments that an arena launches, that they are     *)
(* sound; and for the baseline of a dataset, which a run registers at its  *)
(* end, that the gate is.                                                  *)
(***************************************************************************)
EXTENDS OptimizationLoop, FiniteSetTheorems, WellFoundedInduction, TLAPS

Measured == {"put_iteration", "put_decision", "conclude"}
Busy     == {"consume", "run"} \cup Measured

(* From the evaluation on, the decision is that of the aggregate.           *)
MeasuredOK(r) ==
    /\ phase[r] \in Busy => index(r) < exp.max_iterations
    /\ phase[r] \in Measured =>
          /\ measured[r] \in Aggregate
          /\ outcome[r] = EvaluateIteration(exp, measured[r], baseline[r])

(* The baseline is the best primary value of the run so far.                *)
BestSoFar(t, best) ==
    /\ t = <<>> => best = None
    /\ t # <<>> => /\ best \in Values
                   /\ \E i \in 1..Len(t) : t[i].primary = best
                   /\ \A i \in 1..Len(t) : t[i].primary <= best

(* Where a run stands in storing the records of its iteration.              *)
WrittenOK(r) ==
    /\ phase[r] = "put_decision" => index(r) \in records
    /\ phase[r] = "conclude" => index(r) \in decisions

(* A chosen hypothesis is one the run has not executed; without other runs, *)
(* nobody has.                                                              *)
TakenOK(r) ==
    phase[r] = "consume" /\ exp.strategy = "llm_proposer" =>
        /\ proposal[r][2] \in seeded
        /\ ~ExecutedBy(r, proposal[r][2])
        /\ exp.launched = "in_turn" => ~Executed(proposal[r][2])

RunOK(r) ==
    /\ MeasuredOK(r)
    /\ BestSoFar(trail[r], baseline[r])
    /\ KeptBeats(trail[r])
    /\ WrittenOK(r)
    /\ TakenOK(r)

(* The stamps are on the executed hypotheses. *)
StampsOK == \A h \in Hypotheses : stamp[h] # None <=> Executed(h)

(* Launches in turn have at most one run at work. *)
TurnsOK ==
    exp.launched = "in_turn" =>
        \A q, r \in Runs : phase[q] \notin AtRest /\ phase[r] \notin AtRest => q = r

(* The inductive invariant. *)
IInv ==
    /\ TypeOK
    /\ StoredInOrder
    /\ StampsOK
    /\ TurnsOK
    /\ \A r \in Runs : RunOK(r)

-----------------------------------------------------------------------------
LEMMA ExperimentFacts ==
    ASSUME TypeOK
    PROVE  /\ exp \in Experiment
           /\ exp.max_iterations \in Nat /\ exp.agents \in Nat /\ exp.params \in Nat
           /\ \A r \in Runs : trail[r] \in Seq(IterationOutcome) /\ index(r) \in Nat
BY ConstantsAssumption DEF TypeOK, Experiment, index

LEMMA EvaluateIsOutcome ==
    ASSUME NEW e \in Experiment, NEW a \in Aggregate, NEW best \in Values \cup {None}
    PROVE  EvaluateIteration(e, a, best) \in Outcomes
BY DEF EvaluateIteration, Outcomes, Experiment, Aggregate

(* Against a baseline, a candidate is kept if and only if it beats it.      *)
LEMMA KeepsImprovements ==
    ASSUME NEW e \in Experiment, NEW a \in Aggregate, NEW best \in Values
    PROVE  EvaluateIteration(e, a, best) = "keep_candidate" <=> a.guarded /\ a.primary > best
BY ConstantsAssumption DEF EvaluateIteration, Experiment, Aggregate

(* The oldest of some pending hypotheses is one of them.                    *)
LEMMA NextIsOldest ==
    ASSUME TypeOK, Pending # {}
    PROVE  /\ NextPendingHypothesis \in Pending
           /\ \A g \in Pending : NextPendingHypothesis <= g
<1>1. Pending \subseteq Nat
  BY ConstantsAssumption DEF Pending, TypeOK
<1>2. \E h \in Pending : \A g \in Pending : h <= g
  <2>1. PICK h \in Pending : \A g \in Pending : ~(<<g, h>> \in OpToRel(<, Nat))
    <3>1. IsWellFoundedOn(OpToRel(<, Nat), Nat)
      BY NatLessThanWellFounded
    <3> HIDE DEF OpToRel
    <3>. QED  BY <1>1, <3>1, WFMin
  <2>2. \A g \in Pending : ~(g < h)
    BY <1>1, <2>1 DEF OpToRel
  <2>. QED  BY <1>1, <2>2
<1>. QED  BY <1>2 DEF NextPendingHypothesis

(* An execution adds its run and hypothesis to the history.                 *)
LEMMA ExecutesAdds ==
    ASSUME TypeOK, NEW r \in Runs, NEW h \in Hypotheses, Executes(r, h)
    PROVE  /\ applied' \in Seq([run : Runs, hypothesis : Hypotheses])
           /\ \A g : Executed(g)' <=> Executed(g) \/ g = h
           /\ \A q, g : ExecutedBy(q, g)' <=> ExecutedBy(q, g) \/ (q = r /\ g = h)
<1> DEFINE new == [run |-> r, hypothesis |-> h]
           n   == Len(applied)
<1>1. /\ applied \in Seq([run : Runs, hypothesis : Hypotheses]) /\ n \in Nat
      /\ new \in [run : Runs, hypothesis : Hypotheses] /\ applied' = Append(applied, new)
  BY DEF TypeOK, Executes
<1>2. new.hypothesis = h /\ \A q, g : new = [run |-> q, hypothesis |-> g] <=> q = r /\ g = h
  <2>1. ASSUME NEW q, NEW g, new = [run |-> q, hypothesis |-> g] PROVE q = r /\ g = h
    <3>1. new.run = r /\ new.hypothesis = h
      OBVIOUS
    <3>2. [run |-> q, hypothesis |-> g].run = q /\ [run |-> q, hypothesis |-> g].hypothesis = g
      OBVIOUS
    <3>. QED  BY <2>1, <3>1, <3>2
  <2>. QED  BY <2>1
<1> HIDE DEF new
<1>3. /\ applied' \in Seq([run : Runs, hypothesis : Hypotheses])
      /\ Len(applied') = n + 1 /\ applied'[n + 1] = new
      /\ \A i \in 1..n : applied'[i] = applied[i]
  BY <1>1
<1>4. \A g : Executed(g)' <=> Executed(g) \/ g = h
  <2>. QED  BY <1>1, <1>2, <1>3 DEF Executed
<1>5. \A q, g : ExecutedBy(q, g)' <=> ExecutedBy(q, g) \/ (q = r /\ g = h)
  BY <1>1, <1>2, <1>3 DEF ExecutedBy
<1>. QED  BY <1>3, <1>4, <1>5

-----------------------------------------------------------------------------
(* What a run has in memory is its own: a step of another run, or of error   *)
(* analysis, leaves it alone.                                                *)
Same(q) ==
    /\ phase'[q] = phase[q] /\ proposal'[q] = proposal[q] /\ measured'[q] = measured[q]
    /\ outcome'[q] = outcome[q] /\ trail'[q] = trail[q] /\ baseline'[q] = baseline[q]

StoreGrows == /\ exp' = exp /\ seeded \subseteq seeded'
         /\ records \subseteq records' /\ decisions \subseteq decisions'

(* The rest of a step of run r on what is stored for all runs.              *)
LEMMA OthersStayOK ==
    ASSUME IInv, NEW q \in Runs, Same(q), StoreGrows,
           \/ applied' = applied
           \/ \E r \in Runs, h \in Hypotheses : r # q /\ phase[r] \notin AtRest /\ Executes(r, h)
    PROVE  RunOK(q)'
<1>0. RunOK(q) /\ TypeOK
  BY DEF IInv
<1>1. MeasuredOK(q)'
  BY <1>0 DEF RunOK, MeasuredOK, Same, StoreGrows, index
<1>2. BestSoFar(trail[q], baseline[q])' /\ KeptBeats(trail[q])'
  BY <1>0 DEF RunOK, BestSoFar, KeptBeats, Same
<1>3. WrittenOK(q)'
  BY <1>0 DEF RunOK, WrittenOK, Same, StoreGrows, index
<1>4. TakenOK(q)'
  <2>1. CASE applied' = applied
    BY <1>0, <2>1 DEF RunOK, TakenOK, Same, StoreGrows, Executed, ExecutedBy
  <2>2. ASSUME NEW r \in Runs, NEW h \in Hypotheses, r # q, phase[r] \notin AtRest, Executes(r, h)
        PROVE  TakenOK(q)'
    <3>1. \A g : ExecutedBy(q, g)' <=> ExecutedBy(q, g)
      BY <1>0, <2>2, ExecutesAdds
    <3>2. phase[q] = "consume" => exp.launched # "in_turn"
      BY <2>2 DEF IInv, TurnsOK, AtRest
    <3>. QED  BY <1>0, <3>1, <3>2 DEF RunOK, TakenOK, Same, StoreGrows
  <2>. QED  BY <2>1, <2>2
<1>. QED  BY <1>1, <1>2, <1>3, <1>4 DEF RunOK

(* So a step of one run is sound if it is for that run and for the store.   *)
LEMMA OneRunsStep ==
    ASSUME IInv, NEW r \in Runs, \A q \in Runs \ {r} : Same(q), StoreGrows,
           phase'[r] \notin AtRest => phase[r] \notin AtRest,
           \/ applied' = applied
           \/ phase[r] \notin AtRest /\ \E h \in Hypotheses : Executes(r, h),
           TypeOK', StoredInOrder', StampsOK', RunOK(r)'
    PROVE  IInv'
<1>1. \A q \in Runs : RunOK(q)'
  BY OthersStayOK
<1>2. TurnsOK'
  BY DEF IInv, TurnsOK, Same, StoreGrows
<1>. QED  BY <1>1, <1>2 DEF IInv

-----------------------------------------------------------------------------
LEMMA InitIInv == Init => IInv
<1> SUFFICES ASSUME Init PROVE IInv
  OBVIOUS
<1> USE DEF Init
<1>1. TypeOK
  BY ConstantsAssumption DEF TypeOK, Phases, Proposal, NoProposal, Experiment
<1>2. ASSUME NEW r \in Runs PROVE RunOK(r)
  BY <1>2 DEF RunOK, MeasuredOK, Busy, Measured, BestSoFar, KeptBeats, WrittenOK, TakenOK
<1>3. StoredInOrder /\ StampsOK /\ TurnsOK
  BY DEF StoredInOrder, StampsOK, Executed, TurnsOK, AtRest
<1>. QED  BY <1>1, <1>2, <1>3 DEF IInv

(* A run that is given up keeps nothing in memory.                          *)
LEMMA ForgettingSteps ==
    ASSUME IInv, NEW r \in Runs, RunFails(r) \/ RecordRefused(r)
    PROVE  IInv'
<1>0. TypeOK
  BY DEF IInv
<1>1. /\ ForgetAll(r) /\ phase' = [phase EXCEPT ![r] = "failed"] /\ phase[r] \notin AtRest
      /\ UNCHANGED <<exp, seeded, applied, state, stamp, records, decisions, staged>>
  BY DEF RunFails, RecordRefused, Step, AtRest, store
<1> USE DEF ForgetAll, Forget
<1>2. TypeOK'
  <2>1. phase' \in [Runs -> Phases] /\ proposal' \in [Runs -> Proposal]
    BY <1>0, <1>1 DEF TypeOK, Phases, Proposal, NoProposal
  <2>2. /\ measured' \in [Runs -> Aggregate \cup {None}]
        /\ outcome' \in [Runs -> Outcomes \cup {None}]
        /\ baseline' \in [Runs -> Values \cup {None}]
        /\ reason' \in [Runs -> {None, "search_space_exhausted", "converged", "max_iterations"}]
    BY <1>0, <1>1 DEF TypeOK
  <2>3. trail' \in [Runs -> Seq(IterationOutcome)] /\ \A q \in Runs : Len(trail'[q]) <= exp'.max_iterations
    BY <1>0, <1>1, ExperimentFacts DEF TypeOK
  <2>. QED  BY <1>0, <1>1, <2>1, <2>2, <2>3 DEF TypeOK
<1>3. /\ phase'[r] = "failed" /\ trail'[r] = <<>> /\ baseline'[r] = None
      /\ \A q \in Runs \ {r} : Same(q)
  BY <1>0, <1>1 DEF TypeOK, Same
<1>4. RunOK(r)'
  BY <1>3 DEF RunOK, MeasuredOK, Busy, Measured, BestSoFar, KeptBeats, WrittenOK, TakenOK
<1>5. StoredInOrder' /\ StampsOK'
  BY <1>1 DEF IInv, StoredInOrder, StampsOK, Executed
<1>. QED  BY <1>1, <1>2, <1>3, <1>4, <1>5, OneRunsStep DEF StoreGrows, AtRest

(* Steps that only move the loop on, to where no candidate is worked on.    *)
LEMMA MovingSteps ==
    ASSUME IInv, NEW r \in Runs,
           Begin(r) \/ MaxIterationsReached(r) \/ SearchSpaceExhausted(r) \/ Finish(r) \/ LaunchRun(r)
    PROVE  IInv'
<1>0. TypeOK
  BY DEF IInv
<1>1. PICK to \in {"new", "failed", "propose", "finish", "completed"} :
      /\ phase' = [phase EXCEPT ![r] = to]
      /\ phase[r] \in AtRest => LaunchRun(r)
      /\ state' \in {state, "draft", "running", "completed"}
      /\ UNCHANGED <<exp, proposal, measured, outcome, trail, baseline, seeded, applied,
                     stamp, records, decisions, staged>>
  BY DEF Begin, MaxIterationsReached, SearchSpaceExhausted, Finish, LaunchRun, Step, AtRest,
         working, result, store
<1>2. \E why \in {"max_iterations", "search_space_exhausted"} :
          reason' \in {reason, [reason EXCEPT ![r] = why]}
  BY DEF Begin, MaxIterationsReached, SearchSpaceExhausted, Finish, LaunchRun, Terminate, result
<1>3. TypeOK'
  BY <1>0, <1>1, <1>2 DEF TypeOK, Phases
<1>4. phase'[r] = to /\ \A q \in Runs \ {r} : Same(q)
  BY <1>0, <1>1 DEF TypeOK, Same
<1>5. RunOK(r)'
  BY <1>1, <1>4 DEF IInv, RunOK, MeasuredOK, Busy, Measured, BestSoFar, KeptBeats, WrittenOK, TakenOK
<1>6. StoredInOrder' /\ StampsOK'
  BY <1>1 DEF IInv, StoredInOrder, StampsOK, Executed
<1>7. CASE phase[r] \notin AtRest
  BY <1>1, <1>3, <1>4, <1>5, <1>6, <1>7, OneRunsStep DEF StoreGrows
<1>8. CASE LaunchRun(r)
  <2>1. \A q \in Runs : RunOK(q)'
    BY <1>1, <1>4, <1>5, OthersStayOK DEF StoreGrows
  <2>2. TurnsOK'
    BY <1>1, <1>4, <1>8 DEF TurnsOK, LaunchRun, Same, AtRest
  <2>. QED  BY <1>3, <1>6, <2>1, <2>2 DEF IInv
<1>. QED  BY <1>1, <1>7, <1>8

LEMMA ProposeStep ==
    ASSUME IInv, NEW r \in Runs, Propose(r)
    PROVE  IInv'
<1>0. TypeOK
  BY DEF IInv
<1> USE DEF Propose, Step, result, store
<1>1. exp.strategy = "llm_proposer" =>
        /\ NextProposal(r) = <<0, NextPendingHypothesis>>
        /\ NextPendingHypothesis \in Pending
  BY <1>0, NextIsOldest DEF Exhausted, NextProposal
<1>2. NextProposal(r) \in Proposal
  <2>1. CASE exp.strategy = "llm_proposer"
    <3>1. NextPendingHypothesis \in Nat
      BY <1>0, <1>1, <2>1, ConstantsAssumption DEF TypeOK, Pending
    <3>. QED  BY <1>1, <2>1, <3>1 DEF Proposal
  <2>2. CASE exp.strategy = "grid"
    <3>1. GridCombo(exp, index(r)) \in Proposal
      <4>1. PICK i \in Nat, a \in Nat, p \in Nat : i = index(r) /\ a = exp.agents /\ p = exp.params
        BY <1>0, ExperimentFacts
      <4>2. p # 0 => i \div p \in Nat /\ i % p \in Nat
        OBVIOUS
      <4>3. GridCombo(exp, index(r)) =
              IF a = 0 THEN <<0, i + 1>>
              ELSE IF p = 0 THEN <<i + 1, 0>> ELSE <<(i \div p) + 1, (i % p) + 1>>
        BY <4>1 DEF GridCombo
      <4>. QED  BY <4>2, <4>3 DEF Proposal
    <3>. QED  BY <2>2, <3>1 DEF NextProposal
  <2>3. CASE exp.strategy \notin {"llm_proposer", "grid"}
    <3>1. <<0, index(r) + 1>> \in Proposal
      BY <1>0, ExperimentFacts DEF Proposal
    <3>. QED  BY <2>3, <3>1 DEF NextProposal
  <2>. QED  BY <2>1, <2>2, <2>3
<1>3. TypeOK'
  BY <1>0, <1>2 DEF TypeOK, Phases
<1>4. /\ phase'[r] = "consume" /\ proposal'[r] = NextProposal(r) /\ trail'[r] = trail[r]
      /\ baseline'[r] = baseline[r] /\ \A q \in Runs \ {r} : Same(q)
  BY <1>0 DEF TypeOK, Same
<1>5. MeasuredOK(r)'
  BY <1>4 DEF MeasuredOK, Measured, IterationsLeft, index
<1>6. BestSoFar(trail[r], baseline[r])' /\ KeptBeats(trail[r])' /\ WrittenOK(r)'
  BY <1>4 DEF IInv, RunOK, BestSoFar, KeptBeats, WrittenOK
<1>7. StoredInOrder' /\ StampsOK'
  BY DEF IInv, StoredInOrder, StampsOK, Executed
<1>8. TakenOK(r)'
  <2> SUFFICES ASSUME exp.strategy = "llm_proposer"
               PROVE  LET h == proposal'[r][2]
                      IN h \in seeded /\ ~Executed(h) /\ ~ExecutedBy(r, h)
    BY DEF TakenOK, Executed, ExecutedBy
  <2>1. proposal'[r][2] = NextPendingHypothesis
    BY <1>1, <1>4
  <2>2. NextPendingHypothesis \in seeded /\ stamp[NextPendingHypothesis] = None
    BY <1>1 DEF Pending
  <2>3. ~Executed(NextPendingHypothesis)
    BY <1>0, <2>2 DEF IInv, StampsOK, TypeOK
  <2>4. ~ExecutedBy(r, NextPendingHypothesis)
    BY <2>3 DEF Executed, ExecutedBy
  <2>. QED  BY <2>1, <2>2, <2>3, <2>4
<1>9. RunOK(r)'
  BY <1>5, <1>6, <1>8 DEF RunOK
<1>. QED  BY <1>3, <1>4, <1>7, <1>9, OneRunsStep DEF StoreGrows, AtRest

LEMMA ConsumeStep ==
    ASSUME IInv, NEW r \in Runs, Consume(r)
    PROVE  IInv'
<1>0. TypeOK
  BY DEF IInv
<1> USE DEF Consume, Step, working, result
<1>1. /\ phase'[r] = "run" /\ trail'[r] = trail[r] /\ baseline'[r] = baseline[r]
      /\ phase[r] = "consume" /\ \A q \in Runs \ {r} : Same(q)
  BY <1>0 DEF TypeOK, Same
<1>2. RunOK(r)'
  <2>1. MeasuredOK(r)'
    BY <1>1 DEF IInv, RunOK, MeasuredOK, Busy, Measured, index
  <2>. QED  BY <1>1, <2>1 DEF IInv, RunOK, BestSoFar, KeptBeats, WrittenOK, TakenOK
<1>3. StoredInOrder' /\ StoreGrows
  BY DEF IInv, StoredInOrder, StoreGrows
<1>4. CASE exp.strategy # "llm_proposer"
  <2>1. TypeOK'
    BY <1>0, <1>4 DEF TypeOK, Phases
  <2>2. StampsOK' /\ applied' = applied
    BY <1>4 DEF IInv, StampsOK, Executed
  <2>. QED  BY <1>1, <1>2, <1>3, <2>1, <2>2, OneRunsStep DEF AtRest
<1>5. CASE exp.strategy = "llm_proposer"
  <2> DEFINE h == proposal[r][2]
  <2>1. h \in Hypotheses /\ index(r) \in Nat /\ index(r) # None
    <3>1. h \in Hypotheses
      BY <1>0, <1>5 DEF IInv, RunOK, TakenOK, TypeOK
    <3>. QED  BY <1>0, <3>1, ExperimentFacts, ConstantsAssumption
  <2>2. stamp' = [stamp EXCEPT ![h] = index(r)] /\ Executes(r, h)
    BY <1>5
  <2> HIDE DEF h
  <2>3. /\ applied' \in Seq([run : Runs, hypothesis : Hypotheses])
        /\ \A g : Executed(g)' <=> Executed(g) \/ g = h
    BY <1>0, <2>1, <2>2, ExecutesAdds
  <2>4. TypeOK'
    BY <1>0, <2>1, <2>2, <2>3 DEF TypeOK, Phases
  <2>5. StampsOK'
    <3>1. \A g \in Hypotheses : stamp'[g] # None <=> stamp[g] # None \/ g = h
      BY <1>0, <2>1, <2>2 DEF TypeOK
    <3>. QED  BY <2>3, <3>1 DEF IInv, StampsOK
  <2>. QED  BY <1>1, <1>2, <1>3, <2>1, <2>2, <2>4, <2>5, OneRunsStep DEF AtRest
<1>. QED  BY <1>4, <1>5

LEMMA RunIterationStep ==
    ASSUME IInv, NEW r \in Runs, RunIteration(r)
    PROVE  IInv'
<1>0. TypeOK
  BY DEF IInv
<1> USE DEF RunIteration, Step, result, store
<1>1. PICK a \in Aggregate :
          /\ measured' = [measured EXCEPT ![r] = a]
          /\ outcome' = [outcome EXCEPT ![r] = EvaluateIteration(exp, a, baseline[r])]
  OBVIOUS
<1>2. TypeOK'
  <2>1. EvaluateIteration(exp, a, baseline[r]) \in Outcomes
    <3>1. exp \in Experiment /\ baseline[r] \in Values \cup {None}
      BY <1>0, ExperimentFacts DEF TypeOK
    <3>. QED  BY <3>1, EvaluateIsOutcome
  <2>2. phase' \in [Runs -> Phases]
    BY <1>0 DEF TypeOK, Phases
  <2>3. measured' \in [Runs -> Aggregate \cup {None}]
    BY <1>0, <1>1 DEF TypeOK
  <2>4. outcome' \in [Runs -> Outcomes \cup {None}]
    BY <1>0, <1>1, <2>1 DEF TypeOK
  <2>. QED  BY <1>0, <2>2, <2>3, <2>4 DEF TypeOK
<1>3. /\ phase'[r] = "put_iteration" /\ measured'[r] = a /\ trail'[r] = trail[r]
      /\ outcome'[r] = EvaluateIteration(exp, a, baseline[r]) /\ baseline'[r] = baseline[r]
      /\ \A q \in Runs \ {r} : Same(q)
  BY <1>0, <1>1 DEF TypeOK, Same
<1>4. MeasuredOK(r)'
  <2>1. index(r) < exp.max_iterations
    BY DEF IInv, RunOK, MeasuredOK, Busy
  <2>. QED  BY <1>3, <2>1 DEF MeasuredOK, index
<1>5. RunOK(r)'
  BY <1>3, <1>4 DEF IInv, RunOK, BestSoFar, KeptBeats, WrittenOK, TakenOK
<1>6. StoredInOrder' /\ StampsOK'
  BY DEF IInv, StoredInOrder, StampsOK, Executed
<1>. QED  BY <1>2, <1>3, <1>5, <1>6, OneRunsStep DEF StoreGrows, AtRest

LEMMA PuttingSteps ==
    ASSUME IInv, NEW r \in Runs, PutIterationRecord(r) \/ PutDecisionRecord(r)
    PROVE  IInv'
<1>0. TypeOK
  BY DEF IInv
<1>1. PICK to \in {"put_decision", "conclude"} :
          /\ phase[r] \in Measured /\ phase' = [phase EXCEPT ![r] = to]
          /\ records \subseteq records' /\ decisions \subseteq decisions'
          /\ records' \subseteq records \cup {index(r)}
          /\ decisions' \subseteq decisions \cup {index(r)}
          /\ to = "put_decision" => index(r) \in records' /\ decisions' = decisions
          /\ to = "conclude" => phase[r] = "put_decision" /\ index(r) \in decisions' /\ records' = records
          /\ UNCHANGED <<exp, proposal, measured, outcome, trail, baseline, reason, seeded,
                         applied, state, stamp, staged>>
  BY DEF PutIterationRecord, PutDecisionRecord, Step, Measured, working, result
<1>2. TypeOK'
  BY <1>0, <1>1, ExperimentFacts DEF TypeOK, Phases
<1>3. phase'[r] = to /\ \A q \in Runs \ {r} : Same(q)
  BY <1>0, <1>1 DEF TypeOK, Same
<1>4. RunOK(r)'
  <2>1. MeasuredOK(r)'
    BY <1>1, <1>3 DEF IInv, RunOK, MeasuredOK, Busy, Measured, index
  <2>. QED  BY <1>1, <1>3, <2>1 DEF IInv, RunOK, BestSoFar, KeptBeats, WrittenOK, TakenOK, index
<1>5. StoredInOrder'
  BY <1>1 DEF IInv, RunOK, WrittenOK, StoredInOrder
<1>6. StampsOK'
  BY <1>1 DEF IInv, StampsOK, Executed
<1>. QED  BY <1>1, <1>2, <1>3, <1>4, <1>5, <1>6, OneRunsStep DEF StoreGrows, AtRest, Measured

(* An iteration is added to the trail of its run.                           *)
LEMMA TrailGrows ==
    ASSUME NEW e \in Experiment, NEW t \in Seq(IterationOutcome), NEW best, BestSoFar(t, best),
           KeptBeats(t), NEW new \in IterationOutcome, NEW a \in Aggregate,
           new.primary = a.primary, new.guarded = a.guarded,
           new.outcome = EvaluateIteration(e, a, best)
    PROVE  /\ BestSoFar(Append(t, new), BestOf(best, a.primary))
           /\ KeptBeats(Append(t, new))
           /\ BestOf(best, a.primary) \in Values
<1> DEFINE n  == Len(t)
           t2 == Append(t, new)
           b2 == BestOf(best, a.primary)
<1>1. a.primary \in Values /\ a.primary \in Int
  BY ConstantsAssumption DEF Aggregate
<1>2. /\ n \in Nat /\ Len(t2) = n + 1 /\ t2[n + 1] = new /\ (t = <<>> <=> n = 0)
      /\ \A i \in 1..n : t2[i] = t[i]
  OBVIOUS
<1>3. \A i \in 1..n : t[i].primary \in Int
  <2>1. \A i \in 1..n : t[i] \in IterationOutcome
    OBVIOUS
  <2>. QED  BY <2>1, ConstantsAssumption DEF IterationOutcome
<1>4. t2 # <<>>
  BY <1>2
<1> HIDE DEF t2, b2
<1>5. n # 0 => /\ best \in Int /\ best # None /\ best \in Values
               /\ \E i \in 1..n : t[i].primary = best
               /\ \A i \in 1..n : t[i].primary <= best
  BY <1>2, ConstantsAssumption DEF BestSoFar
<1>6. b2 \in Values
  BY <1>1, <1>2, <1>5 DEF BestOf, BestSoFar, b2
<1>7. BestSoFar(t2, b2)
  <2>1. CASE n = 0
    <3>1. b2 = a.primary
      BY <1>2, <2>1 DEF BestSoFar, BestOf, b2
    <3>2. Len(t2) = 1 /\ t2[1].primary = b2 /\ b2 \in Int
      BY <1>1, <1>2, <2>1, <3>1
    <3>3. \A i \in 1..Len(t2) : i = 1
      BY <3>2
    <3>. QED  BY <1>4, <1>6, <3>2, <3>3 DEF BestSoFar
  <2>2. CASE n # 0
    <3>1. b2 \in {best, a.primary} /\ b2 >= best /\ b2 >= a.primary
      BY <1>1, <1>5, <2>2 DEF BestOf, b2
    <3>2. \A i \in 1..(n + 1) : t2[i].primary <= b2
      BY <1>1, <1>2, <1>3, <1>5, <2>2, <3>1, SMTT(30)
    <3>3. \E i \in 1..(n + 1) : t2[i].primary = b2
      BY <1>1, <1>2, <1>5, <2>2, <3>1
    <3>. QED  BY <1>2, <1>4, <1>6, <3>2, <3>3 DEF BestSoFar
  <2>. QED  BY <2>1, <2>2
<1>8. KeptBeats(t2)
  <2>1. ASSUME NEW i \in 2..(n + 1)
        PROVE  t2[i].outcome = "keep_candidate" <=>
                 /\ t2[i].guarded
                 /\ \A j \in 1..(i - 1) : t2[j].primary < t2[i].primary
    <3>1. CASE i <= n
      BY <1>2, <3>1, SMTT(30) DEF KeptBeats
    <3>2. CASE i = n + 1
      <4>1. n # 0
        BY <1>2, <3>2
      <4>2. new.outcome = "keep_candidate" <=> a.guarded /\ a.primary > best
        BY <1>5, <4>1, KeepsImprovements
      <4>3. a.primary > best <=> \A j \in 1..n : t[j].primary < a.primary
        BY <1>1, <1>3, <1>5, <4>1
      <4>. QED  BY <1>2, <3>2, <4>2, <4>3, SMTT(30)
    <3>. QED  BY <1>2, <3>1, <3>2
  <2>. QED  BY <1>2, <2>1 DEF KeptBeats
<1>. QED  BY <1>6, <1>7, <1>8 DEF t2, b2

LEMMA ConcludeStep ==
    ASSUME IInv, NEW r \in Runs, Conclude(r)
    PROVE  IInv'
<1> DEFINE new == [proposal |-> proposal[r], primary |-> measured[r].primary,
                   guarded |-> measured[r].guarded, outcome |-> outcome[r]]
           t == Append(trail[r], new)
<1>0. TypeOK
  BY DEF IInv
<1>1. PICK to \in {"propose", "finish"} :
          /\ phase' = [phase EXCEPT ![r] = to] /\ phase[r] = "conclude"
          /\ trail' = [trail EXCEPT ![r] = t]
          /\ baseline' = [baseline EXCEPT ![r] = BestOf(baseline[r], measured[r].primary)]
          /\ reason' \in {reason, [reason EXCEPT ![r] = "converged"]}
          /\ staged' \subseteq staged \cup {index(r)} /\ Forget(r)
          /\ UNCHANGED <<exp, seeded, applied, state, stamp, records, decisions>>
  BY DEF Conclude, Step, Terminate
<1>2. /\ measured[r] \in Aggregate /\ outcome[r] = EvaluateIteration(exp, measured[r], baseline[r])
      /\ index(r) < exp.max_iterations /\ exp \in Experiment
  BY <1>0, <1>1, ExperimentFacts DEF IInv, RunOK, MeasuredOK, Busy, Measured
<1>3. new \in IterationOutcome
  <2>1. outcome[r] \in Outcomes
    BY <1>0, <1>2, EvaluateIsOutcome DEF TypeOK
  <2>. QED  BY <1>0, <1>2, <2>1 DEF TypeOK, IterationOutcome, Aggregate
<1>4. new.primary = measured[r].primary /\ new.guarded = measured[r].guarded /\ new.outcome = outcome[r]
  OBVIOUS
<1>5. trail[r] \in Seq(IterationOutcome) /\ BestSoFar(trail[r], baseline[r]) /\ KeptBeats(trail[r])
  BY <1>0 DEF IInv, RunOK, TypeOK
<1> HIDE DEF new
<1>6. /\ BestSoFar(t, BestOf(baseline[r], measured[r].primary)) /\ KeptBeats(t)
      /\ BestOf(baseline[r], measured[r].primary) \in Values
  BY <1>2, <1>3, <1>4, <1>5, TrailGrows
<1>7. t \in Seq(IterationOutcome) /\ Len(t) = index(r) + 1
  BY <1>3, <1>5 DEF index
<1> HIDE DEF t
<1>8. TypeOK'
  <2>1. trail' \in [Runs -> Seq(IterationOutcome)]
    BY <1>0, <1>1, <1>7 DEF TypeOK
  <2>2. \A q \in Runs : Len(trail'[q]) <= exp'.max_iterations
    <3>1. trail \in [Runs -> Seq(IterationOutcome)] /\ exp' = exp
          /\ exp.max_iterations \in Nat /\ Len(t) <= exp.max_iterations
      BY <1>0, <1>1, <1>2, <1>5, <1>7, ExperimentFacts DEF TypeOK, index
    <3>2. \A q \in Runs : trail'[q] = IF q = r THEN t ELSE trail[q]
      BY <1>1, <3>1
    <3>3. \A q \in Runs : Len(trail[q]) <= exp.max_iterations
      BY <1>0 DEF TypeOK
    <3>. QED  BY <3>1, <3>2, <3>3
  <2>3. phase' \in [Runs -> Phases] /\ proposal' \in [Runs -> Proposal]
    BY <1>0, <1>1 DEF TypeOK, Phases, Forget, NoProposal, Proposal
  <2>4. /\ measured' \in [Runs -> Aggregate \cup {None}]
        /\ outcome' \in [Runs -> Outcomes \cup {None}]
        /\ reason' \in [Runs -> {None, "search_space_exhausted", "converged", "max_iterations"}]
    BY <1>0, <1>1 DEF TypeOK, Forget
  <2>5. baseline' \in [Runs -> Values \cup {None}]
    BY <1>0, <1>1, <1>6 DEF TypeOK
  <2>6. staged' \subseteq Nat
    BY <1>0, <1>1, ExperimentFacts DEF TypeOK
  <2>. QED  BY <1>0, <1>1, <2>1, <2>2, <2>3, <2>4, <2>5, <2>6 DEF TypeOK
<1>9. /\ phase'[r] = to /\ trail'[r] = t /\ baseline'[r] = BestOf(baseline[r], measured[r].primary)
      /\ \A q \in Runs \ {r} : Same(q)
  BY <1>0, <1>1 DEF TypeOK, Same, Forget
<1>10. RunOK(r)'
  BY <1>6, <1>9 DEF RunOK, MeasuredOK, Busy, Measured, WrittenOK, TakenOK
<1>11. StoredInOrder' /\ StampsOK'
  BY <1>1 DEF IInv, RunOK, WrittenOK, StoredInOrder, StampsOK, Executed
<1>. QED  BY <1>1, <1>8, <1>9, <1>10, <1>11, OneRunsStep DEF StoreGrows, AtRest

(* Error analysis, or nothing.                                              *)
LEMMA OtherSteps ==
    ASSUME IInv, (\E h \in Hypotheses : RecordHypothesis(h)) \/ UNCHANGED vars
    PROVE  IInv'
<1>1. /\ seeded \subseteq seeded' /\ seeded' \subseteq Hypotheses
      /\ UNCHANGED <<exp, state, stamp, records, decisions, staged, applied, phase, proposal,
                     measured, outcome, trail, baseline, reason>>
  BY DEF IInv, TypeOK, RecordHypothesis, vars, store, working, result
<1>2. TypeOK'
  BY <1>1 DEF IInv, TypeOK
<1>3. StoredInOrder' /\ StampsOK' /\ TurnsOK'
  BY <1>1 DEF IInv, StoredInOrder, StampsOK, Executed, TurnsOK
<1>4. \A r \in Runs : RunOK(r)'
  BY <1>1, OthersStayOK DEF Same, StoreGrows
<1>. QED  BY <1>2, <1>3, <1>4 DEF IInv

LEMMA NextIInv == IInv /\ [Next]_vars => IInv'
BY ForgettingSteps, MovingSteps, ProposeStep, ConsumeStep, RunIterationStep, PuttingSteps,
   ConcludeStep, OtherSteps DEF Next, Loop

(* The inductive invariant holds whatever the proposer is, however          *)
(* iterations turn out, wherever runs fail and however launches overlap.    *)
THEOREM Inductive == Spec => []IInv
BY InitIInv, NextIInv, PTL DEF Spec

(* Every variable keeps its type; no run exceeds max_iterations.            *)
THEOREM TypeCorrect == Spec => []TypeOK
<1>1. IInv => TypeOK
  BY DEF IInv
<1>. QED  BY <1>1, Inductive, PTL

(* After the first iteration, kept means within the guardrails and better   *)
(* than everything the run tried before.                                    *)
THEOREM KeptIsBest == Spec => []KeptBeatsAll
<1>1. IInv => KeptBeatsAll
  BY DEF IInv, RunOK, KeptBeatsAll
<1>. QED  BY <1>1, Inductive, PTL

(* Decisions and staged analyses belong to recorded iterations.             *)
THEOREM StoreIsInOrder == Spec => []StoredInOrder
<1>1. IInv => StoredInOrder
  BY DEF IInv
<1>. QED  BY <1>1, Inductive, PTL

-----------------------------------------------------------------------------
(* A run only enters "consume" by taking a hypothesis ...                   *)
LEMMA TakingIsProposing ==
    ASSUME IInv, [Next]_vars, NEW r \in Runs, Takes(r)
    PROVE  Propose(r)
<1>1. phase \in [Runs -> Phases] /\ phase[r] = "propose" /\ phase'[r] = "consume"
  BY DEF IInv, TypeOK, Takes
<1>2. ~(\E h \in Hypotheses : RecordHypothesis(h)) /\ ~UNCHANGED vars
  BY <1>1 DEF RecordHypothesis, vars
<1>3. PICK q \in Runs : Loop(q) \/ RunFails(q) \/ LaunchRun(q)
  BY <1>2 DEF Next
<1>4. PICK to \in Phases : /\ phase' = [phase EXCEPT ![q] = to]
                           /\ to = "consume" => Propose(q)
  BY <1>1, <1>3 DEF Loop, Begin, MaxIterationsReached, SearchSpaceExhausted, Propose, Consume,
     RunIteration, PutIterationRecord, RecordRefused, PutDecisionRecord, Conclude, Finish,
     RunFails, LaunchRun, Step, Phases
<1>5. q = r /\ to = "consume"
  BY <1>1, <1>4
<1>. QED  BY <1>4, <1>5

(* ... and only executes one by consuming what it took.                     *)
LEMMA ExecutingIsConsuming ==
    ASSUME IInv, [Next]_vars, NEW r \in Runs, NEW h \in Hypotheses, Executes(r, h)
    PROVE  Consume(r) /\ exp.strategy = "llm_proposer" /\ proposal[r][2] = h
<1>1. applied \in Seq([run : Runs, hypothesis : Hypotheses]) /\ Len(applied) \in Nat
  BY DEF IInv, TypeOK
<1>2. /\ Len(applied') = Len(applied) + 1
      /\ applied'[Len(applied) + 1] = [run |-> r, hypothesis |-> h]
  BY <1>1 DEF Executes
<1>3. applied' # applied
  BY <1>1, <1>2
<1>4. PICK q \in Runs : Consume(q) /\ exp.strategy = "llm_proposer"
  BY <1>3 DEF Next, Loop, vars, Begin, MaxIterationsReached, SearchSpaceExhausted,
     Propose, Consume, RunIteration, PutIterationRecord, RecordRefused, PutDecisionRecord,
     Conclude, Finish, RunFails, LaunchRun, RecordHypothesis
<1>5. proposal[q][2] \in Hypotheses /\ Executes(q, proposal[q][2])
  BY <1>4 DEF Consume, Step, IInv, RunOK, TakenOK, TypeOK
<1>6. applied'[Len(applied) + 1] = [run |-> q, hypothesis |-> proposal[q][2]]
  BY <1>1, <1>5 DEF Executes
<1>7. q = r /\ proposal[q][2] = h
  <2>1. [run |-> r, hypothesis |-> h] = [run |-> q, hypothesis |-> proposal[q][2]]
    BY <1>2, <1>6
  <2>2. /\ [run |-> r, hypothesis |-> h].run = r
        /\ [run |-> r, hypothesis |-> h].hypothesis = h
        /\ [run |-> q, hypothesis |-> proposal[q][2]].run = q
        /\ [run |-> q, hypothesis |-> proposal[q][2]].hypothesis = proposal[q][2]
    OBVIOUS
  <2>. QED  BY <2>1, <2>2
<1>. QED  BY <1>4, <1>7

(* A run takes the oldest hypothesis, which nobody has executed, and        *)
(* executes none twice; runs in turn never execute one twice between them.  *)
THEOREM HypothesesOnceInTurn == Spec => HypothesesInTurn
<1> DEFINE A == \A r \in Runs :
                  /\ Takes(r) => /\ ~Executed(proposal'[r][2])
                                 /\ \A g \in seeded : g < proposal'[r][2] => Executed(g)
                  /\ \A h \in Hypotheses : Executes(r, h) =>
                        /\ ~ExecutedBy(r, h)
                        /\ exp.launched = "in_turn" => ~Executed(h)
<1>1. ASSUME IInv, [Next]_vars PROVE [A]_vars
  <2>1. ASSUME NEW r \in Runs, NEW h \in Hypotheses, Executes(r, h)
        PROVE  ~ExecutedBy(r, h) /\ (exp.launched = "in_turn" => ~Executed(h))
    <3>1. Consume(r) /\ exp.strategy = "llm_proposer" /\ proposal[r][2] = h
      BY <1>1, <2>1, ExecutingIsConsuming
    <3>. QED  BY <1>1, <3>1 DEF Consume, Step, IInv, RunOK, TakenOK
  <2>2. ASSUME NEW r \in Runs, Takes(r)
        PROVE  /\ ~Executed(proposal'[r][2])
               /\ \A g \in seeded : g < proposal'[r][2] => Executed(g)
    <3>0. Propose(r) /\ exp.strategy = "llm_proposer" /\ TypeOK
      BY <1>1, <2>2, TakingIsProposing DEF Takes, IInv
    <3>1. proposal'[r] = <<0, NextPendingHypothesis>> /\ Pending # {}
      BY <3>0 DEF Propose, NextProposal, Exhausted, TypeOK
    <3>2. NextPendingHypothesis \in Pending /\ \A p \in Pending : NextPendingHypothesis <= p
      BY <3>0, <3>1, NextIsOldest
    <3>3. seeded \subseteq Nat /\ seeded \subseteq Hypotheses
      BY <3>0, ConstantsAssumption DEF TypeOK
    <3>4. ~Executed(NextPendingHypothesis)
      BY <1>1, <3>2, <3>3 DEF Pending, IInv, StampsOK
    <3>5. ASSUME NEW g \in seeded, g < NextPendingHypothesis PROVE Executed(g)
      <4>1. NextPendingHypothesis \in Nat /\ g \in Nat
        BY <3>2, <3>3 DEF Pending
      <4>2. g \notin Pending
        BY <3>2, <3>5, <4>1
      <4>. QED  BY <1>1, <3>3, <4>2 DEF Pending, IInv, StampsOK
    <3>. QED  BY <3>1, <3>4, <3>5
  <2>. QED  BY <2>1, <2>2
<1>. QED  BY <1>1, Inductive, PTL DEF Spec, HypothesesInTurn

-----------------------------------------------------------------------------
(* The grid: its combinations are the numbers below its size, written with   *)
(* an agent and a parameter digit.                                           *)

LEMMA Division ==
    ASSUME NEW m \in Int, m > 0, NEW i \in Int,
           NEW d \in Int, d = i \div m, NEW r \in Int, r = i % m
    PROVE  i = m * d + r
BY SMTT(30)

LEMMA Digits ==
    ASSUME NEW m \in Nat \ {0}, NEW i \in Nat
    PROVE  \E d \in Nat, r \in 0..(m - 1) : i \div m = d /\ i % m = r /\ i = m * d + r
<1>1. i \div m \in Nat /\ i % m \in 0..(m - 1)
  OBVIOUS
<1>2. PICK d \in Nat, r \in 0..(m - 1) : d = i \div m /\ r = i % m
  BY <1>1
<1>3. i = m * d + r
  BY <1>2, Division
<1>. QED  BY <1>2, <1>3

LEMMA TimesMonotone ==
    ASSUME NEW m \in Nat \ {0}, NEW q \in Nat, NEW d \in Nat, q < d
    PROVE  m * d >= m * q + m
<1>1. m * d = m * q + m * (d - q)
  OBVIOUS
<1>2. d - q \in Nat /\ d - q >= 1
  OBVIOUS
<1>3. m * (d - q) >= m /\ m * q \in Nat /\ m * (d - q) \in Nat
  BY <1>2
<1>. QED  BY <1>1, <1>3

LEMMA DigitsUnique ==
    ASSUME NEW m \in Nat \ {0}, NEW q \in Nat, NEW r \in 0..(m - 1),
           NEW d \in Nat, NEW s \in 0..(m - 1), m * q + r = m * d + s
    PROVE  q = d /\ r = s
<1>1. m * q \in Nat /\ m * d \in Nat
  OBVIOUS
<1>2. ~(q < d)
  <2>1. q < d => m * d >= m * q + m
    BY TimesMonotone
  <2>. QED  BY <1>1, <2>1
<1>3. ~(d < q)
  <2>1. d < q => m * q >= m * d + m
    BY TimesMonotone
  <2>. QED  BY <1>1, <2>1
<1>4. q = d
  BY <1>2, <1>3
<1>. QED  BY <1>1, <1>4

(* GridCombo enumerates the grid: every combination once, below GridSize.   *)
LEMMA EnumeratesGrid ==
    ASSUME NEW e \in Experiment, GridSize(e) # 0, NEW c \in Grid(e)
    PROVE  \E i \in 0..(GridSize(e) - 1) :
              /\ GridCombo(e, i) = c
              /\ \A j \in Nat : GridCombo(e, j) = c => j = i
<1> DEFINE A == e.agents
           P == e.params
<1>1. A \in Nat /\ P \in Nat
  BY DEF Experiment
<1>2. PICK a \in Axis(A), p \in Axis(P) : c = <<a, p>>
  BY DEF Grid
<1>3. CASE A = 0
  <2>1. GridSize(e) = P /\ P # 0 /\ a = 0 /\ p \in 1..P
    BY <1>3 DEF GridSize, Axis
  <2>2. p - 1 \in 0..(P - 1) /\ p - 1 + 1 = p
    BY <1>1, <2>1
  <2>3. \A j \in Nat : GridCombo(e, j) = <<0, j + 1>>
    BY <1>3 DEF GridCombo
  <2>4. GridCombo(e, p - 1) = c
    BY <1>1, <1>2, <2>1, <2>2, <2>3
  <2>5. \A j \in Nat : GridCombo(e, j) = c => j = p - 1
    BY <1>1, <1>2, <2>1, <2>3
  <2>. QED  BY <2>1, <2>2, <2>4, <2>5
<1>4. CASE A # 0 /\ P = 0
  <2>1. GridSize(e) = A /\ p = 0 /\ a \in 1..A
    BY <1>4 DEF GridSize, Axis
  <2>2. a - 1 \in 0..(A - 1) /\ a - 1 + 1 = a
    BY <1>1, <2>1
  <2>3. \A j \in Nat : GridCombo(e, j) = <<j + 1, 0>>
    BY <1>4 DEF GridCombo
  <2>4. GridCombo(e, a - 1) = c
    BY <1>1, <1>2, <2>1, <2>2, <2>3
  <2>5. \A j \in Nat : GridCombo(e, j) = c => j = a - 1
    BY <1>1, <1>2, <2>1, <2>3
  <2>. QED  BY <2>1, <2>2, <2>4, <2>5
<1>5. CASE A # 0 /\ P # 0
  <2>1. GridSize(e) = A * P /\ a \in 1..A /\ p \in 1..P
    BY <1>5 DEF GridSize, Axis
  <2>2. P \in Nat \ {0} /\ a - 1 \in Nat /\ p - 1 \in 0..(P - 1)
    BY <1>1, <1>5, <2>1
  <2> DEFINE i == P * (a - 1) + (p - 1)
  <2>3. i \in Nat /\ i < A * P
    <3>1. P * (a - 1) \in Nat /\ P * A = A * P /\ A * P \in Nat
      BY <1>1, <2>2
    <3>2. P * A >= P * (a - 1) + P
      <4>1. a - 1 < A
        BY <1>1, <2>1
      <4>. QED  BY <1>1, <2>2, <4>1, TimesMonotone
    <3>. QED  BY <2>2, <3>1, <3>2
  <2>4. \A j \in Nat : GridCombo(e, j) = <<(j \div P) + 1, (j % P) + 1>>
    BY <1>5 DEF GridCombo
  <2>5. ASSUME NEW j \in Nat
        PROVE  GridCombo(e, j) = c <=> j = i
    <3>1. PICK d \in Nat, r \in 0..(P - 1) : j \div P = d /\ j % P = r /\ j = P * d + r
      BY <2>2, Digits
    <3>2. GridCombo(e, j) = c <=> d + 1 = a /\ r + 1 = p
      BY <1>2, <2>4, <3>1
    <3>3. d + 1 = a /\ r + 1 = p <=> d = a - 1 /\ r = p - 1
      BY <1>1, <2>1, <3>1
    <3>4. j = i <=> d = a - 1 /\ r = p - 1
      <4>1. j = P * d + r
        BY <3>1
      <4>2. i = P * (a - 1) + (p - 1)
        OBVIOUS
      <4> HIDE DEF i, P
      <4>3. ASSUME j = i PROVE d = a - 1 /\ r = p - 1
        <5>1. P * d + r = P * (a - 1) + (p - 1)
          BY <4>1, <4>2, <4>3
        <5>. QED  BY <2>2, <5>1, DigitsUnique
      <4>. QED  BY <4>1, <4>2, <4>3
    <3>. QED  BY <3>2, <3>3, <3>4
  <2>6. i \in 0..(GridSize(e) - 1)
    <3>1. A * P \in Nat
      BY <1>1
    <3>. QED  BY <2>1, <2>3, <3>1
  <2>. HIDE DEF i
  <2>. QED  BY <2>3, <2>5, <2>6
<1>. QED  BY <1>3, <1>4, <1>5

(* A grid search follows the enumeration and only stops where it ends or at  *)
(* max_iterations, unless early_stop was asked for.                          *)
GridOK(r) ==
    exp.strategy = "grid" =>
        /\ phase[r] \notin {"none", "new", "failed"} => GridSize(exp) # 0
        /\ \A i \in 1..Len(trail[r]) : trail[r][i].proposal = GridCombo(exp, i - 1)
        /\ phase[r] \in Busy => proposal[r] = GridCombo(exp, index(r))
        /\ phase[r] \in {"finish", "completed"} /\ exp.early_stop # "true" =>
              Len(trail[r]) >= GridSize(exp) \/ Len(trail[r]) >= exp.max_iterations

(* The steps of the run itself ... *)
LEMMA OwnGridOK ==
    ASSUME IInv, NEW r \in Runs, GridOK(r), Loop(r) \/ RunFails(r) \/ LaunchRun(r), exp' = exp,
           exp.strategy = "grid"
    PROVE  GridOK(r)'
<1>0. TypeOK /\ phase \in [Runs -> Phases]
  BY DEF IInv, TypeOK
<1> USE DEF Step
<1>1. CASE RunFails(r) \/ RecordRefused(r)
  <2>1. phase'[r] = "failed" /\ trail'[r] = <<>>
    BY <1>0, <1>1 DEF RunFails, RecordRefused, ForgetAll, TypeOK
  <2>. QED  BY <2>1 DEF GridOK, Busy, Measured
<1>2. CASE Begin(r) \/ LaunchRun(r)
  <2>1. /\ phase'[r] \in {"new", "failed", "propose"} /\ trail'[r] = trail[r]
        /\ phase'[r] = "propose" => GridSize(exp) # 0
    BY <1>0, <1>2 DEF Begin, LaunchRun, result
  <2>. QED  BY <2>1 DEF GridOK, Busy, Measured
<1>3. CASE MaxIterationsReached(r) \/ SearchSpaceExhausted(r)
  <2>1. index(r) >= GridSize(exp) \/ index(r) >= exp.max_iterations
    BY <1>0, <1>3, ExperimentFacts DEF MaxIterationsReached, SearchSpaceExhausted, IterationsLeft,
       Exhausted
  <2>2. phase'[r] = "finish" /\ phase[r] = "propose" /\ trail'[r] = trail[r]
    BY <1>0, <1>3 DEF MaxIterationsReached, SearchSpaceExhausted
  <2>. QED  BY <2>1, <2>2 DEF GridOK, Busy, Measured, index
<1>4. CASE Propose(r)
  <2>1. /\ phase[r] = "propose" /\ phase'[r] = "consume" /\ trail'[r] = trail[r]
        /\ proposal'[r] = GridCombo(exp, index(r))
    BY <1>0, <1>4 DEF Propose, NextProposal, result, TypeOK
  <2>. QED  BY <2>1 DEF GridOK, index
<1>5. CASE Consume(r) \/ RunIteration(r) \/ PutIterationRecord(r) \/ PutDecisionRecord(r)
  <2>1. /\ phase[r] \in Busy /\ phase'[r] \in Busy /\ trail'[r] = trail[r] /\ proposal'[r] = proposal[r]
    BY <1>0, <1>5 DEF Consume, RunIteration, PutIterationRecord, PutDecisionRecord, working,
       result, Busy, Measured
  <2>. QED  BY <2>1 DEF GridOK, Busy, Measured, index
<1>6. CASE Conclude(r)
  <2> DEFINE n   == Len(trail[r])
             new == [proposal |-> proposal[r], primary |-> measured[r].primary,
                     guarded |-> measured[r].guarded, outcome |-> outcome[r]]
  <2>1. trail[r] \in Seq(IterationOutcome) /\ n \in Nat
    BY <1>0 DEF TypeOK
  <2>2. trail' = [trail EXCEPT ![r] = Append(trail[r], new)] /\ new.proposal = proposal[r]
    BY <1>6 DEF Conclude
  <2> HIDE DEF new
  <2>3. /\ Len(trail'[r]) = n + 1 /\ trail'[r][n + 1] = new
        /\ \A i \in 1..n : trail'[r][i] = trail[r][i]
    BY <1>0, <2>1, <2>2 DEF TypeOK
  <2>4. proposal[r] = GridCombo(exp, n) /\ GridSize(exp) # 0
    BY <1>6 DEF Conclude, GridOK, Busy, Measured, index
  <2>5. \A i \in 1..Len(trail'[r]) : trail'[r][i].proposal = GridCombo(exp, i - 1)
    BY <2>1, <2>2, <2>3, <2>4 DEF GridOK
  <2>6. /\ phase'[r] \in {"propose", "finish"}
        /\ phase'[r] = "finish" => exp.early_stop = "true"
    BY <1>0, <1>6 DEF Conclude, Converged, EarlyStopEnabled
  <2>. QED  BY <2>4, <2>5, <2>6 DEF GridOK, Busy, Measured
<1>7. CASE Finish(r)
  <2>1. phase[r] = "finish" /\ phase'[r] = "completed" /\ trail'[r] = trail[r]
    BY <1>0, <1>7 DEF Finish, result
  <2>. QED  BY <2>1 DEF GridOK, Busy, Measured
<1>. QED  BY <1>1, <1>2, <1>3, <1>4, <1>5, <1>6, <1>7 DEF Loop

(* ... and the others, which leave it alone. *)
LEMMA NextGridOK ==
    ASSUME IInv, [Next]_vars, NEW r \in Runs, GridOK(r)
    PROVE  GridOK(r)'
<1>1. exp' = exp
  BY DEF Next, Loop, vars, Begin, MaxIterationsReached, SearchSpaceExhausted, Propose, Consume,
     RunIteration, PutIterationRecord, RecordRefused, PutDecisionRecord, Conclude, Finish,
     RunFails, LaunchRun, RecordHypothesis
<1>2. CASE exp.strategy # "grid"
  BY <1>1, <1>2 DEF GridOK
<1>3. CASE phase'[r] = phase[r] /\ proposal'[r] = proposal[r] /\ trail'[r] = trail[r]
  BY <1>1, <1>3 DEF GridOK, index
<1>4. ASSUME NEW q \in Runs, q # r, Loop(q) \/ RunFails(q) \/ LaunchRun(q)
      PROVE  phase'[r] = phase[r] /\ proposal'[r] = proposal[r] /\ trail'[r] = trail[r]
  <2>1. TypeOK
    BY DEF IInv
  <2>2. /\ \E x : phase' = [phase EXCEPT ![q] = x]
        /\ proposal' = proposal \/ \E x : proposal' = [proposal EXCEPT ![q] = x]
        /\ trail' = trail \/ \E x : trail' = [trail EXCEPT ![q] = x]
    BY <1>4 DEF Loop, Begin, MaxIterationsReached, SearchSpaceExhausted, Propose, Consume,
       RunIteration, PutIterationRecord, RecordRefused, PutDecisionRecord, Conclude, Finish,
       RunFails, LaunchRun, Step, Forget, ForgetAll, working, result
  <2>. QED  BY <1>4, <2>1, <2>2 DEF TypeOK
<1>5. CASE UNCHANGED vars \/ \E h \in Hypotheses : RecordHypothesis(h)
  BY <1>3, <1>5 DEF vars, RecordHypothesis, working, result
<1>. QED  BY <1>1, <1>2, <1>3, <1>4, <1>5, OwnGridOK DEF Next

(* Nothing but max_iterations and an explicit early_stop keeps a completed   *)
(* grid search from trying each combination of agents and parameters once.   *)
THEOREM GridIsCovered == Spec => []GridCovered
<1> DEFINE G == \A r \in Runs : GridOK(r)
<1>1. Init => G
  BY DEF Init, GridOK, Busy, Measured
<1>2. IInv /\ G /\ [Next]_vars => G'
  BY NextGridOK
<1>3. IInv /\ G => GridCovered
  <2> SUFFICES ASSUME IInv, NEW r \in Runs, GridOK(r), phase[r] = "completed",
                      exp.strategy = "grid", exp.early_stop # "true",
                      exp.max_iterations >= GridSize(exp), NEW c \in Grid(exp)
               PROVE  \E i \in 1..Len(trail[r]) :
                         /\ trail[r][i].proposal = c
                         /\ \A j \in 1..Len(trail[r]) : trail[r][j].proposal = c => j = i
    BY DEF GridCovered
  <2>1. /\ exp \in Experiment /\ Len(trail[r]) \in Nat /\ GridSize(exp) \in Nat
        /\ exp.max_iterations \in Nat
    BY ExperimentFacts DEF IInv, GridSize, index
  <2>2. GridSize(exp) # 0 /\ Len(trail[r]) >= GridSize(exp)
    BY <2>1 DEF GridOK
  <2>3. PICK i \in 0..(GridSize(exp) - 1) :
          /\ GridCombo(exp, i) = c
          /\ \A j \in Nat : GridCombo(exp, j) = c => j = i
    BY <2>1, <2>2, EnumeratesGrid
  <2>4. i + 1 \in 1..Len(trail[r]) /\ i + 1 - 1 = i
    BY <2>1, <2>2
  <2>5. trail[r][i + 1].proposal = c
    BY <2>3, <2>4 DEF GridOK
  <2>6. \A j \in 1..Len(trail[r]) : trail[r][j].proposal = c => j = i + 1
    BY <2>1, <2>3 DEF GridOK
  <2>. QED  BY <2>4, <2>5, <2>6
<1>. QED  BY <1>1, <1>2, <1>3, Inductive, PTL DEF Spec

-----------------------------------------------------------------------------
(***************************************************************************)
(* The arena, which races variants of an agent in rounds of experiments of *)
(* their own (Arena): for any variants, callers, operations and budgets.   *)
(* Three invariants go with its types.  RoundsFit is for any callers: a    *)
(* round that is or is about to be written as closed is over, and one      *)
(* whose launch has not recorded its experiments still has an entry with   *)
(* none.  ReadyFit follows a variant and what its preparation and a        *)
(* cleanup know of it.  RecordFit and BudgetFit are for callers that wait  *)
(* for each other.                                                         *)
(***************************************************************************)
CONSTANTS Variants, Clients, CommandLine, Uses, MaxRounds, MaxVariants, RoundBound, MoveBound
VARIABLES head, arena, variant, tree, thread, rounds, exps, req

Race == INSTANCE Arena

(* The variants an arena may get are finitely many, the budget is a pair of counts. *)
ArenaConstants ==
    IsFiniteSet(Variants) /\ MaxRounds \in Nat /\ MaxVariants \in Nat /\ RoundBound \in Nat

VariantRow == [state : {"preparing", "ready", "failed", "retired"}, sha : Nat, path : BOOLEAN,
               setup : BOOLEAN]
ArenaRow == [round : Int, state : {"draft", "active", "completed", "archived"},
             winner : SUBSET Variants]
Child == [variant : Variants, state : {"running", "completed", "aborted"}]
Entry == [variant : Variants, exp : Nat, status : {"pending", "running", "completed", "aborted"}]
Round == [index : Int, state : {"running", "completed"}, entries : Seq(Entry)]

Launch == [op : {"launch"}, round : Nat, index : Int, entries : Seq(Entry), todo : Seq(Variants)]
Cleanup == [op : {"cleanup"}, arena : ArenaRow, rows : [Variants -> VariantRow \cup {Race!NoVariant}],
            todo : Seq(Variants)]

Request(q) ==
    /\ q.op = "exit" => q.of \in Variants
    /\ q.op = "launch" => q \in Launch
    /\ q.op = "count" => q.index \in Int
    /\ q.op = "refresh" => q.round \in Nat /\ q.row \in Round
    /\ q.op = "cleanup" => q \in Cleanup

(* What a cleanup has still to retire was registered when it began, and is still. *)
ToRetire(q) ==
    /\ \A i \in 1..Len(q.todo) : q.rows[q.todo[i]] \in VariantRow
    /\ \A v \in Variants : q.rows[v] \in VariantRow => variant[v] \in VariantRow

ArenaType ==
    /\ head \in Nat /\ arena \in ArenaRow
    /\ variant \in [Variants -> VariantRow \cup {Race!NoVariant}]
    /\ tree \in [Variants -> [sha : Int, setup : BOOLEAN]]
    /\ thread \in [Variants -> {"none", "checkout", "setup", "marking", "finish", "failing"}]
    /\ rounds \in Seq(Round) /\ exps \in Seq(Child)
    /\ DOMAIN req = Clients
    /\ \A c \in Clients : Request(req[c])
    /\ \A c \in Clients : req[c].op = "cleanup" => ToRetire(req[c])
    /\ \A v \in Variants : thread[v] # "none" => variant[v] \in VariantRow

-----------------------------------------------------------------------------
(* Any number of callers: closed rounds.                                     *)

(* An entry that has an experiment, of those launched so far, has one of its variant. *)
EntryFits(x, e) == e.exp # 0 => e.exp \in 1..Len(x) /\ x[e.exp].variant = e.variant

(* A closed round, or one that is about to be written as closed, is over. *)
RowFits(x, row) ==
    /\ \A i \in 1..Len(row.entries) : EntryFits(x, row.entries[i])
    /\ row.state = "completed" => \A i \in 1..Len(row.entries) :
          /\ row.entries[i].exp # 0
          /\ row.entries[i].status = x[row.entries[i].exp].state
          /\ row.entries[i].status \in Race!Terminal

(* A round whose launch has not recorded its experiments cannot be closed. *)
Unrecorded(row) ==
    row.state = "running" /\ \E i \in 1..Len(row.entries) : row.entries[i].exp = 0

(* A launch has experiments of its own variants, its round waits for them. *)
Launched(x, entries) == \A i \in 1..Len(entries) : entries[i].exp # 0 /\ EntryFits(x, entries[i])

RoundsFit ==
    /\ \A r \in 1..Len(rounds) : RowFits(exps, rounds[r])
    /\ \A c \in Clients : req[c].op = "refresh" =>
          req[c].round \in 1..Len(rounds) /\ RowFits(exps, req[c].row)
    /\ \A c \in Clients : req[c].op = "launch" =>
          /\ req[c].round \in 1..Len(rounds) /\ Unrecorded(rounds[req[c].round])
          /\ Launched(exps, req[c].entries)
          /\ \A d \in Clients : req[d].op = "refresh" /\ req[d].round = req[c].round
                                    => Unrecorded(req[d].row)
          /\ \A d \in Clients : req[d].op = "launch" /\ req[d].round = req[c].round => d = c

RoundsInv == ArenaType /\ RoundsFit

-----------------------------------------------------------------------------
(* One caller at a time: every experiment in its round.                      *)

InRow(row, e) == \E i \in 1..Len(row.entries) : row.entries[i].exp = e
Launches(q, e) == q.op = "launch" /\ \E i \in 1..Len(q.entries) : q.entries[i].exp = e

RecordFit ==
    /\ \A e \in 1..Len(exps), r, s \in 1..Len(rounds) :
          InRow(rounds[r], e) /\ InRow(rounds[s], e) => r = s
    /\ \A e \in 1..Len(exps) :
          (\E c \in Clients : Launches(req[c], e)) \/ (\E r \in 1..Len(rounds) : InRow(rounds[r], e))
    /\ \A c \in Clients, e \in 1..Len(exps), r \in 1..Len(rounds) :
          Launches(req[c], e) => ~InRow(rounds[r], e)
    /\ \A c \in Clients, e \in 1..Len(exps) : req[c].op = "launch" => ~InRow(rounds[req[c].round], e)
    /\ \A c \in Clients, e \in 1..Len(exps) :
          req[c].op = "refresh" => (InRow(req[c].row, e) <=> InRow(rounds[req[c].round], e))

(* ... and the budget: a request that counts a round follows the last count, a *)
(* copy of a row has the numbers of the row, a registration has room.        *)
Books(q, a, n, k) ==
    /\ q.op \in {"launch", "count"} => q.index = a.round /\ a.round = n - 1
    /\ q.op \notin {"launch", "count"} => a.round = n
    /\ q.op = "cleanup" => q.arena.round = a.round
    /\ q.op = "refresh" => q.row.index = q.round - 1
    /\ q.op = "register" => k < MaxVariants

BudgetFit ==
    /\ \A r \in 1..Len(rounds) : rounds[r].index = r - 1
    /\ Len(rounds) <= MaxRounds
    /\ Cardinality(Race!Registered) <= MaxVariants
    /\ \A c \in Clients : Books(req[c], arena, Len(rounds), Cardinality(Race!Registered))

-----------------------------------------------------------------------------
(* Without the garbage collection: what is ready can be used.                *)

Usable(v) == tree[v].sha = variant[v].sha /\ (variant[v].setup => tree[v].setup)

ReadyFit ==
    /\ \A c \in Clients : req[c].op # "gc"
    /\ \A v \in Variants : variant[v] \in VariantRow =>
          /\ thread[v] # "none" => ~variant[v].path /\ variant[v].state # "ready"
          /\ thread[v] \in {"setup", "marking", "finish"} => tree[v].sha = variant[v].sha
          /\ thread[v] = "finish" \/ variant[v].state = "ready" => Usable(v)
    /\ \A c \in Clients, v \in Variants :
          req[c].op = "cleanup" /\ req[c].rows[v] \in VariantRow =>
             /\ req[c].rows[v].sha = variant[v].sha /\ req[c].rows[v].setup = variant[v].setup
             /\ thread[v] # "none" => ~req[c].rows[v].path

-----------------------------------------------------------------------------
(* The arena counts as everyone does. *)
LEMMA Counting == ASSUME NEW S PROVE Race!Cardinality(S) = Cardinality(S)
BY DEF Race!Cardinality, Cardinality

(* A selection is listed in some order. *)
LEMMA Listing ==
    ASSUME ArenaConstants, NEW S, S \subseteq Variants
    PROVE  /\ Race!SetToSeq(S) \in Seq(S) /\ Race!SetToSeq(S) \in Seq(Variants)
           /\ Cardinality(S) \in Nat /\ (S # {} => Cardinality(S) >= 1)
           /\ \A i \in 1..Cardinality(S) : Race!SetToSeq(S)[i] \in S
<1>1. IsFiniteSet(S)
  BY FS_Subset DEF ArenaConstants
<1>2. Cardinality(S) \in Nat /\ ExistsBijection(1..Cardinality(S), S)
  BY <1>1, FS_CardinalityType
<1>3. PICK f \in [1..Cardinality(S) -> S] : Race!IsInjective(f)
  BY <1>2 DEF ExistsBijection, Bijection, Injection, IsInjective, Race!IsInjective
<1>4. Race!SetToSeq(S) \in [1..Cardinality(S) -> S]
  BY <1>3, Counting DEF Race!SetToSeq
<1>5. Race!SetToSeq(S) \in Seq(S) /\ \A i \in 1..Cardinality(S) : Race!SetToSeq(S)[i] \in S
  BY <1>2, <1>4
<1>6. Race!SetToSeq(S) \in [1..Cardinality(S) -> Variants]
  BY <1>4
<1>7. S # {} => Cardinality(S) >= 1
  BY <1>1, <1>2, FS_EmptySet
<1>. QED  BY <1>2, <1>5, <1>6, <1>7

LEMMA Replacing ==
    ASSUME NEW T, NEW s \in Seq(T), NEW i, NEW t, i \in 1..Len(s) => t \in T
    PROVE  /\ [s EXCEPT ![i] = t] \in Seq(T) /\ Len([s EXCEPT ![i] = t]) = Len(s)
           /\ \A j \in 1..Len(s) : [s EXCEPT ![i] = t][j] = IF j = i THEN t ELSE s[j]
<1>. DEFINE u == [s EXCEPT ![i] = t]
<1>1. DOMAIN u = 1..Len(s) /\ Len(s) \in Nat /\ \A j \in 1..Len(s) : u[j] = IF j = i THEN t ELSE s[j]
  OBVIOUS
<1>2. \A j \in 1..Len(s) : s[j] \in T
  OBVIOUS
<1>3. \A j \in 1..Len(s) : u[j] \in T
  BY <1>1, <1>2
<1>4. u = [j \in 1..Len(s) |-> u[j]]
  OBVIOUS
<1>. HIDE DEF u
<1>5. u \in [1..Len(s) -> T]
  BY <1>3, <1>4
<1>6. u \in Seq(T) /\ Len(u) = Len(s)
  BY <1>1, <1>5
<1>. QED  BY <1>1, <1>6 DEF u

(* A step of a request changes that request. *)
LEMMA OneRequest ==
    ASSUME ArenaType, NEW c \in Clients, NEW q, Request(q), req' = [req EXCEPT ![c] = q]
    PROVE  /\ DOMAIN req' = Clients /\ req'[c] = q
           /\ \A d \in Clients : Request(req'[d])
           /\ \A d \in Clients : d # c => req'[d] = req[d]
<1>1. DOMAIN req = Clients /\ \A d \in Clients : Request(req[d])
  BY DEF ArenaType
<1>2. DOMAIN req' = Clients /\ \A d \in Clients : req'[d] = IF d = c THEN q ELSE req[d]
  BY <1>1
<1>. QED  BY <1>1, <1>2

LEMMA IdleIsRequest == Request(Race!Idle) /\ Race!Idle.op = "idle"
BY DEF Request, Race!Idle

(* Retired variants stay registered. *)
LEMMA StillToRetire ==
    ASSUME NEW q, ToRetire(q), \A v \in Variants : variant[v] \in VariantRow => variant'[v] \in VariantRow
    PROVE  ToRetire(q)'
BY DEF ToRetire

(* What the threads do; no request changes. *)
LEMMA PrepareType ==
    ASSUME ArenaConstants, ArenaType, NEW v \in Variants, Race!Prepare(v)
    PROVE  ArenaType' /\ UNCHANGED <<arena, rounds, exps, req>>
<1>1. /\ variant \in [Variants -> VariantRow \cup {Race!NoVariant}] /\ head \in Nat
      /\ tree \in [Variants -> [sha : Int, setup : BOOLEAN]]
      /\ thread \in [Variants -> {"none", "checkout", "setup", "marking", "finish", "failing"}]
      /\ \A u \in Variants : thread[u] # "none" => variant[u] \in VariantRow
  BY DEF ArenaType
<1>. SUFFICES /\ UNCHANGED <<head, arena, rounds, exps, req>>
              /\ variant' \in [Variants -> VariantRow \cup {Race!NoVariant}]
              /\ \A u \in Variants : variant[u] \in VariantRow => variant'[u] \in VariantRow
              /\ tree' \in [Variants -> [sha : Int, setup : BOOLEAN]]
              /\ thread' \in [Variants -> {"none", "checkout", "setup", "marking", "finish", "failing"}]
              /\ \A u \in Variants : thread'[u] # "none" => thread[u] # "none"
  BY <1>1, StillToRetire DEF ArenaType
<1>2. CASE Race!EnsureWorktree(v)
  <2>1. variant[v] \in VariantRow /\ variant[v].sha \in Int
    BY <1>1, <1>2 DEF Race!EnsureWorktree, VariantRow
  <2>. DEFINE made == [sha |-> variant[v].sha, setup |-> FALSE]
  <2>2. made \in [sha : Int, setup : BOOLEAN]
    BY <2>1
  <2>3. /\ UNCHANGED <<head, arena, rounds, exps, req, variant>>
        /\ \/ tree' = [tree EXCEPT ![v] = tree[v]]
           \/ tree' = [tree EXCEPT ![v] = made]
           \/ tree' = tree
        /\ \E t \in {"setup", "failing"} : thread' = [thread EXCEPT ![v] = t]
        /\ thread[v] # "none"
    BY <1>2 DEF Race!EnsureWorktree
  <2>. HIDE DEF made
  <2>. QED  BY <1>1, <2>2, <2>3, SMTT(30)
<1>3. CASE Race!RunSetup(v)
  BY <1>1, <1>3 DEF Race!RunSetup
<1>4. CASE Race!MarkSetup(v)
  BY <1>1, <1>4, ZenonT(30) DEF Race!MarkSetup
<1>5. CASE Race!FinishPreparing(v)
  <2>1. variant[v] \in VariantRow
    BY <1>1, <1>5 DEF Race!FinishPreparing
  <2>2. /\ [variant[v] EXCEPT !.state = "ready", !.path = TRUE] \in VariantRow
        /\ [variant[v] EXCEPT !.state = "failed"] \in VariantRow
    BY <2>1 DEF VariantRow
  <2>3. variant' = [variant EXCEPT ![v] = [variant[v] EXCEPT !.state = "ready", !.path = TRUE]]
        \/ variant' = [variant EXCEPT ![v] = [variant[v] EXCEPT !.state = "failed"]]
    BY <1>5 DEF Race!FinishPreparing
  <2>. QED  BY <1>1, <1>5, <2>2, <2>3 DEF Race!FinishPreparing
<1>. QED  BY <1>2, <1>3, <1>4, <1>5 DEF Race!Prepare

(* A step of a request that does nothing to the variants. *)
Elsewhere == UNCHANGED <<head, variant, tree, thread>>

LEMMA RequestType ==
    ASSUME ArenaConstants, ArenaType, Elsewhere, NEW c \in Clients, NEW q, Request(q),
           q.op = "cleanup" => ToRetire(q), req' = [req EXCEPT ![c] = q],
           arena' \in ArenaRow, rounds' \in Seq(Round), exps' \in Seq(Child)
    PROVE  ArenaType'
<1>1. /\ DOMAIN req' = Clients /\ req'[c] = q /\ \A d \in Clients : Request(req'[d])
      /\ \A d \in Clients : d # c => req'[d] = req[d]
  BY OneRequest
<1>2. \A p : ToRetire(p) => ToRetire(p)'
  BY DEF ToRetire, Elsewhere
<1>3. \A d \in Clients : req'[d].op = "cleanup" => ToRetire(req'[d])
  BY <1>1 DEF ArenaType
<1>4. \A d \in Clients : req'[d].op = "cleanup" => ToRetire(req[d])' \/ req'[d] = q
  BY <1>1, <1>2 DEF ArenaType
<1>5. \A d \in Clients : (req[d].op = "cleanup" => ToRetire(req[d]))'
  BY <1>1, <1>3 DEF ToRetire, Elsewhere
<1>. QED  BY <1>1, <1>5 DEF ArenaType, Elsewhere

LEMMA LookType ==
    ASSUME ArenaConstants, ArenaType, NEW c \in Clients,
           \/ Race!RegisterVariant(c) \/ Race!CountRound(c) \/ Race!PromoteWinner(c) \/ Race!ReadArena(c)
           \/ Race!ArchiveArena(c) \/ Race!GatherLivePaths(c) \/ Race!Die(c)
    PROVE  ArenaType'
<1>1. arena \in ArenaRow /\ rounds \in Seq(Round) /\ exps \in Seq(Child) /\ Request(req[c])
  BY DEF ArenaType
<1>2. CASE Race!RegisterVariant(c)
  <2>. DEFINE q == [op |-> "register"]
  <2>1. Request(q) /\ q.op # "cleanup"
    BY DEF Request
  <2>. QED  BY <1>1, <1>2, <2>1, RequestType DEF Race!RegisterVariant, Elsewhere
<1>3. CASE Race!CountRound(c)
  <2>1. arena' \in ArenaRow
    <3>1. req[c].index + 1 \in Int /\ arena' = [arena EXCEPT !.round = req[c].index + 1, !.state = "active"]
      BY <1>1, <1>3 DEF Race!CountRound, Request
    <3>. QED  BY <1>1, <3>1 DEF ArenaRow
  <2>. QED  BY <1>1, <1>3, <2>1, RequestType, IdleIsRequest DEF Race!CountRound, Elsewhere
<1>4. CASE Race!PromoteWinner(c)
  <2>1. arena' \in ArenaRow
    <3>1. PICK v \in Variants : arena' = [arena EXCEPT !.winner = {v}, !.state = "completed"]
      BY <1>4 DEF Race!PromoteWinner, Race!Registered
    <3>. QED  BY <1>1, <3>1 DEF ArenaRow
  <2>. QED  BY <1>4, <2>1 DEF Race!PromoteWinner, ArenaType, ToRetire
<1>5. CASE Race!ReadArena(c)
  <2>. DEFINE q == [op |-> "cleanup", arena |-> arena, rows |-> variant,
                    todo |-> Race!SetToSeq(Race!Registered)]
  <2>1. Race!Registered = {v \in Variants : variant[v] \in VariantRow}
    <3>1. Race!NoVariant \notin VariantRow
      BY DEF Race!NoVariant, VariantRow
    <3>. QED  BY <3>1 DEF Race!Registered, ArenaType
  <2>2. Race!SetToSeq(Race!Registered) \in Seq(Race!Registered) /\ Race!SetToSeq(Race!Registered) \in Seq(Variants)
    BY Listing DEF Race!Registered
  <2>3. q \in Cleanup /\ q.op = "cleanup"
    BY <1>1, <2>2 DEF Cleanup, ArenaType
  <2>4. Request(q)
    BY <2>3 DEF Request
  <2>5. ToRetire(q)
    <3>1. q.rows = variant /\ q.todo = Race!SetToSeq(Race!Registered)
      OBVIOUS
    <3>2. \A i \in 1..Len(q.todo) : q.todo[i] \in Race!Registered
      BY <2>2, <3>1
    <3>. QED  BY <2>1, <3>1, <3>2 DEF ToRetire
  <2>. HIDE DEF q
  <2>6. req' = [req EXCEPT ![c] = q]
    BY <1>5 DEF Race!ReadArena, q
  <2>. QED  BY <1>1, <1>5, <2>4, <2>5, <2>6, RequestType DEF Race!ReadArena, Elsewhere
<1>6. CASE Race!ArchiveArena(c)
  <2>1. arena' \in ArenaRow
    BY <1>1, <1>6 DEF Race!ArchiveArena, ArenaRow, Request, Cleanup
  <2>. QED  BY <1>1, <1>6, <2>1, RequestType, IdleIsRequest DEF Race!ArchiveArena, Elsewhere
<1>7. CASE Race!GatherLivePaths(c)
  <2>. DEFINE q == [op |-> "gc", live |-> {v \in Race!Registered : variant[v].path}]
  <2>1. Request(q) /\ q.op # "cleanup"
    BY DEF Request
  <2>. HIDE DEF q
  <2>2. req' = [req EXCEPT ![c] = q]
    BY <1>7 DEF Race!GatherLivePaths, q
  <2>. QED  BY <1>1, <1>7, <2>1, <2>2, RequestType DEF Race!GatherLivePaths, Elsewhere
<1>8. CASE Race!Die(c)
  BY <1>1, <1>8, RequestType, IdleIsRequest DEF Race!Die, Elsewhere
<1>. QED  BY <1>2, <1>3, <1>4, <1>5, <1>6, <1>7, <1>8

(* A look changes the status of the entries that have experiments, and nothing else. *)
LEMMA RefreshedFacts ==
    ASSUME ArenaType, NEW entries \in Seq(Entry),
           \A i \in 1..Len(entries) : EntryFits(exps, entries[i])
    PROVE  /\ Race!Refreshed(entries) \in Seq(Entry) /\ Len(Race!Refreshed(entries)) = Len(entries)
           /\ \A i \in 1..Len(entries) :
                 /\ Race!Refreshed(entries)[i].exp = entries[i].exp
                 /\ Race!Refreshed(entries)[i].variant = entries[i].variant
                 /\ entries[i].exp # 0 =>
                       Race!Refreshed(entries)[i].status = exps[entries[i].exp].state
<1>1. DOMAIN entries = 1..Len(entries) /\ Len(entries) \in Nat /\ exps \in Seq(Child)
      /\ \A i \in 1..Len(entries) : entries[i] \in Entry
  BY DEF ArenaType
<1>. DEFINE e(i) == IF entries[i].exp = 0 THEN entries[i]
                    ELSE [entries[i] EXCEPT !.status = exps[entries[i].exp].state]
<1>2. ASSUME NEW i \in 1..Len(entries)
      PROVE  /\ e(i) \in Entry /\ e(i).exp = entries[i].exp /\ e(i).variant = entries[i].variant
             /\ entries[i].exp # 0 => e(i).status = exps[entries[i].exp].state
  <2>1. entries[i] \in Entry
    BY <1>1
  <2>2. entries[i].exp # 0 => exps[entries[i].exp].state \in {"running", "completed", "aborted"}
    <3>1. entries[i].exp # 0 => exps[entries[i].exp] \in Child
      BY <1>1 DEF EntryFits
    <3>. QED  BY <3>1 DEF Child
  <2>. QED  BY <2>1, <2>2 DEF Entry
<1>3. Race!Refreshed(entries) = [i \in 1..Len(entries) |-> e(i)]
  BY <1>1 DEF Race!Refreshed
<1>. HIDE DEF e
<1>. QED  BY <1>1, <1>2, <1>3

LEMMA RoundType ==
    ASSUME ArenaConstants, ArenaType, NEW c \in Clients,
           \/ Race!LaunchRound(c) \/ Race!LaunchVariant(c) \/ Race!RecordEntries(c) \/ Race!WriteRound(c)
           \/ \E r \in DOMAIN rounds : Race!ReadRound(c, r),
           \A r \in 1..Len(rounds) : \A i \in 1..Len(rounds[r].entries) : EntryFits(exps, rounds[r].entries[i])
    PROVE  ArenaType'
<1>1. arena \in ArenaRow /\ rounds \in Seq(Round) /\ exps \in Seq(Child) /\ Request(req[c])
      /\ Len(rounds) \in Nat /\ Len(exps) \in Nat
  BY DEF ArenaType
<1>2. CASE Race!LaunchRound(c)
  <2>1. PICK selected \in SUBSET {v \in Race!Registered : variant[v].state = "ready"} :
          /\ rounds' = Append(rounds, [index |-> arena.round, state |-> "running",
                                       entries |-> [i \in 1..Cardinality(selected) |->
                                                      Race!Pending(Race!SetToSeq(selected)[i])]])
          /\ req' = [req EXCEPT ![c] = [op |-> "launch", round |-> Len(rounds) + 1,
                                        index |-> arena.round, entries |-> <<>>,
                                        todo |-> Race!SetToSeq(selected)]]
    BY <1>2, Counting DEF Race!LaunchRound
  <2>. DEFINE entries == [i \in 1..Cardinality(selected) |-> Race!Pending(Race!SetToSeq(selected)[i])]
              q == [op |-> "launch", round |-> Len(rounds) + 1, index |-> arena.round,
                    entries |-> <<>>, todo |-> Race!SetToSeq(selected)]
  <2>2. /\ Race!SetToSeq(selected) \in Seq(Variants) /\ Cardinality(selected) \in Nat
        /\ \A i \in 1..Cardinality(selected) : Race!SetToSeq(selected)[i] \in Variants
    <3>1. selected \subseteq Variants
      BY DEF Race!Registered
    <3>. QED  BY <3>1, Listing
  <2>3. entries \in Seq(Entry)
    <3>1. \A i \in 1..Cardinality(selected) : Race!Pending(Race!SetToSeq(selected)[i]) \in Entry
      BY <2>2 DEF Entry, Race!Pending
    <3>. QED  BY <2>2, <3>1
  <2>4. <<>> \in Seq(Entry)
    OBVIOUS
  <2>5. q \in Launch /\ q.op = "launch" /\ arena.round \in Int
    BY <1>1, <2>2, <2>4 DEF Launch, ArenaRow
  <2>6. Request(q)
    BY <2>5 DEF Request
  <2>7. rounds' \in Seq(Round)
    <3>. HIDE DEF entries
    <3>. QED  BY <1>1, <2>1, <2>3, <2>5 DEF Round, entries
  <2>. HIDE DEF q
  <2>8. req' = [req EXCEPT ![c] = q]
    BY <2>1 DEF q
  <2>. QED  BY <1>1, <1>2, <2>5, <2>6, <2>7, <2>8, RequestType DEF Race!LaunchRound, Elsewhere
<1>3. CASE Race!LaunchVariant(c)
  <2>. DEFINE v == Head(req[c].todo)
              e == [variant |-> v, exp |-> Len(exps) + 1, status |-> "running"]
              q == [req[c] EXCEPT !.todo = Tail(req[c].todo), !.entries = Append(req[c].entries, e)]
  <2>1. req[c] \in Launch /\ req[c].todo \in Seq(Variants) /\ req[c].todo # <<>>
        /\ req[c].entries \in Seq(Entry)
    BY <1>1, <1>3 DEF Race!LaunchVariant, Request, Launch
  <2>2. v \in Variants /\ Tail(req[c].todo) \in Seq(Variants)
    BY <2>1
  <2>3. e \in Entry
    BY <1>1, <2>2 DEF Entry
  <2>. HIDE DEF e
  <2>4. Append(req[c].entries, e) \in Seq(Entry)
    BY <2>1, <2>3
  <2>5. q \in Launch /\ q.op = "launch"
    BY <2>1, <2>2, <2>4 DEF Launch
  <2>6. Request(q)
    BY <2>5 DEF Request
  <2>7. exps' \in Seq(Child)
    BY <1>1, <1>3, <2>2 DEF Race!LaunchVariant, Child
  <2>8. req' = [req EXCEPT ![c] = q]
    BY <1>3 DEF Race!LaunchVariant, e
  <2>. HIDE DEF q
  <2>. QED  BY <1>1, <1>3, <2>5, <2>6, <2>7, <2>8, RequestType DEF Race!LaunchVariant, Elsewhere
<1>4. CASE Race!RecordEntries(c)
  <2>. DEFINE q == [op |-> "count", index |-> req[c].index]
  <2>1. req[c].entries \in Seq(Entry) /\ req[c].index \in Int /\ req[c].round \in Nat
    BY <1>1, <1>4 DEF Race!RecordEntries, Request, Launch
  <2>2. Request(q) /\ q.op # "cleanup"
    BY <2>1 DEF Request
  <2>3. rounds' \in Seq(Round)
    <3>. DEFINE row == [rounds[req[c].round] EXCEPT !.entries = req[c].entries]
    <3>1. req[c].round \in 1..Len(rounds) => row \in Round
      <4>1. req[c].round \in 1..Len(rounds) => rounds[req[c].round] \in Round
        BY <1>1
      <4>. QED  BY <2>1, <4>1 DEF Round
    <3>2. rounds' = [rounds EXCEPT ![req[c].round] = row]
      BY <1>4 DEF Race!RecordEntries
    <3>. HIDE DEF row
    <3>3. [rounds EXCEPT ![req[c].round] = row] \in Seq(Round)
      BY <1>1, <3>1, Replacing
    <3>. QED  BY <3>2, <3>3
  <2>. HIDE DEF q
  <2>4. req' = [req EXCEPT ![c] = q]
    BY <1>4 DEF Race!RecordEntries, q
  <2>. QED  BY <1>1, <1>4, <2>2, <2>3, <2>4, RequestType DEF Race!RecordEntries, Elsewhere
<1>5. CASE Race!WriteRound(c)
  <2>1. req[c].row \in Round
    BY <1>1, <1>5 DEF Race!WriteRound, Request
  <2>2. rounds' \in Seq(Round)
    <3>1. rounds' = [rounds EXCEPT ![req[c].round] = req[c].row]
      BY <1>5 DEF Race!WriteRound
    <3>. DEFINE k == req[c].round
                row == req[c].row
    <3>2. row \in Round /\ rounds' = [rounds EXCEPT ![k] = row]
      BY <2>1, <3>1
    <3>. HIDE DEF k, row
    <3>3. [rounds EXCEPT ![k] = row] \in Seq(Round)
      BY <1>1, <3>2, Replacing
    <3>. QED  BY <3>2, <3>3
  <2>. QED  BY <1>1, <1>5, <2>2, RequestType, IdleIsRequest DEF Race!WriteRound, Elsewhere
<1>6. ASSUME NEW r \in DOMAIN rounds, Race!ReadRound(c, r) PROVE ArenaType'
  <2>. DEFINE row == [rounds[r] EXCEPT
                        !.entries = Race!Refreshed(rounds[r].entries),
                        !.state = IF rounds[r].state = "running" /\ Race!AllTerminal(rounds[r].entries)
                                  THEN "completed" ELSE rounds[r].state]
              q == [op |-> "refresh", round |-> r, row |-> row]
  <2>1. rounds[r] \in Round /\ rounds[r].entries \in Seq(Entry) /\ r \in Nat
    <3>1. DOMAIN rounds = 1..Len(rounds) /\ r \in 1..Len(rounds)
      BY <1>1, <1>6
    <3>2. rounds[r] \in Round
      BY <1>1, <3>1
    <3>. QED  BY <1>1, <3>1, <3>2 DEF Round
  <2>2. Race!Refreshed(rounds[r].entries) \in Seq(Entry)
    BY <2>1, RefreshedFacts
  <2>3. row \in Round
    BY <2>1, <2>2 DEF Round
  <2>. HIDE DEF row
  <2>4. Request(q) /\ q.op # "cleanup"
    BY <2>1, <2>3 DEF Request
  <2>. HIDE DEF q
  <2>5. req' = [req EXCEPT ![c] = q]
    BY <1>6 DEF Race!ReadRound, q, row
  <2>. QED  BY <1>1, <1>6, <2>4, <2>5, RequestType DEF Race!ReadRound, Elsewhere
<1>. QED  BY <1>2, <1>3, <1>4, <1>5, <1>6

LEMMA VariantType ==
    ASSUME ArenaConstants, ArenaType, NEW c \in Clients,
           Race!PutVariant(c) \/ Race!ExitCommand(c) \/ Race!RetireVariant(c) \/ Race!SweepWorktrees(c)
    PROVE  ArenaType'
<1>1. /\ variant \in [Variants -> VariantRow \cup {Race!NoVariant}] /\ head \in Nat /\ arena \in ArenaRow
      /\ tree \in [Variants -> [sha : Int, setup : BOOLEAN]]
      /\ thread \in [Variants -> {"none", "checkout", "setup", "marking", "finish", "failing"}]
      /\ \A u \in Variants : thread[u] # "none" => variant[u] \in VariantRow
      /\ rounds \in Seq(Round) /\ exps \in Seq(Child) /\ Request(req[c])
      /\ \A d \in Clients : req[d].op = "cleanup" => ToRetire(req[d])
  BY DEF ArenaType
<1>2. ASSUME NEW q, Request(q), q.op = "cleanup" => ToRetire(q), req' = [req EXCEPT ![c] = q],
             UNCHANGED <<head, arena, rounds, exps>>,
             variant' \in [Variants -> VariantRow \cup {Race!NoVariant}],
             \A u \in Variants : variant[u] \in VariantRow => variant'[u] \in VariantRow,
             tree' \in [Variants -> [sha : Int, setup : BOOLEAN]],
             thread' \in [Variants -> {"none", "checkout", "setup", "marking", "finish", "failing"}],
             \A u \in Variants : thread'[u] # "none" => variant'[u] \in VariantRow
      PROVE  ArenaType'
  <2>1. /\ DOMAIN req' = Clients /\ req'[c] = q /\ \A d \in Clients : Request(req'[d])
        /\ \A d \in Clients : d # c => req'[d] = req[d]
    BY <1>2, OneRequest
  <2>2. \A d \in Clients : req'[d].op = "cleanup" => ToRetire(req'[d])
    BY <1>1, <1>2, <2>1
  <2>3. \A d \in Clients : (req[d].op = "cleanup" => ToRetire(req[d]))'
    BY <1>2, <2>2 DEF ToRetire
  <2>. QED  BY <1>1, <1>2, <2>1, <2>3 DEF ArenaType
<1>3. CASE Race!PutVariant(c)
  <2>1. PICK v \in Variants \ Race!Registered, setup \in {FALSE, "setup" \in Uses} :
          /\ variant' = [variant EXCEPT ![v] = [state |-> "preparing", sha |-> head, path |-> FALSE,
                                                setup |-> setup]]
          /\ thread' = [thread EXCEPT ![v] = "checkout"]
          /\ req' = [req EXCEPT ![c] = IF c \in CommandLine THEN [op |-> "exit", of |-> v] ELSE Race!Idle]
    BY <1>3 DEF Race!PutVariant
  <2>5. setup \in BOOLEAN
    <3>1. setup = FALSE \/ setup = ("setup" \in Uses)
      OBVIOUS
    <3>2. CASE "setup" \in Uses
      <4>1. ("setup" \in Uses) = TRUE
        BY <3>2
      <4>. QED  BY <3>1, <4>1
    <3>3. CASE ~("setup" \in Uses)
      <4>1. ("setup" \in Uses) = FALSE
        BY <3>3
      <4>. QED  BY <3>1, <4>1
    <3>. QED  BY <3>2, <3>3
  <2>2. [state |-> "preparing", sha |-> head, path |-> FALSE, setup |-> setup] \in VariantRow
    BY <1>1, <2>5 DEF VariantRow
  <2>. DEFINE q == IF c \in CommandLine THEN [op |-> "exit", of |-> v] ELSE Race!Idle
  <2>3. Request(q) /\ q.op # "cleanup"
    BY IdleIsRequest DEF Request
  <2>. HIDE DEF q
  <2>4. req' = [req EXCEPT ![c] = q]
    BY <2>1 DEF q
  <2>. QED  BY <1>1, <1>2, <1>3, <2>1, <2>2, <2>3, <2>4 DEF Race!PutVariant
<1>4. CASE Race!ExitCommand(c)
  BY <1>1, <1>2, <1>4, IdleIsRequest DEF Race!ExitCommand
<1>5. CASE Race!SweepWorktrees(c)
  <2>1. Race!NoTree \in [sha : Int, setup : BOOLEAN]
    BY DEF Race!NoTree
  <2>2. tree' \in [Variants -> [sha : Int, setup : BOOLEAN]]
    BY <1>1, <1>5, <2>1 DEF Race!SweepWorktrees
  <2>. QED  BY <1>1, <1>2, <1>5, <2>2, IdleIsRequest DEF Race!SweepWorktrees
<1>6. CASE Race!RetireVariant(c)
  <2>. DEFINE v == Head(req[c].todo)
              row == [req[c].rows[v] EXCEPT !.state = "retired"]
              q == [req[c] EXCEPT !.todo = Tail(req[c].todo)]
  <2>1. /\ req[c] \in Cleanup /\ req[c].todo \in Seq(Variants) /\ req[c].todo # <<>>
        /\ req[c].op = "cleanup" /\ ToRetire(req[c]) /\ req[c].rows \in [Variants -> VariantRow \cup {Race!NoVariant}]
    BY <1>1, <1>6 DEF Race!RetireVariant, Request, Cleanup
  <2>2. /\ v \in Variants /\ Tail(req[c].todo) \in Seq(Variants) /\ req[c].rows[v] \in VariantRow
        /\ \A i \in 1..Len(Tail(req[c].todo)) : req[c].rows[Tail(req[c].todo)[i]] \in VariantRow
    <3>1. /\ Len(req[c].todo) \in Nat /\ Len(req[c].todo) >= 1
          /\ v = req[c].todo[1] /\ v \in Variants /\ Tail(req[c].todo) \in Seq(Variants)
          /\ Len(Tail(req[c].todo)) = Len(req[c].todo) - 1
          /\ \A i \in 1..Len(Tail(req[c].todo)) : Tail(req[c].todo)[i] = req[c].todo[i + 1]
      BY <2>1
    <3>2. \A i \in 1..Len(req[c].todo) : req[c].rows[req[c].todo[i]] \in VariantRow
      BY <2>1 DEF ToRetire
    <3>3. \A i \in 1..Len(Tail(req[c].todo)) : i + 1 \in 1..Len(req[c].todo)
      BY <3>1
    <3>. HIDE DEF v
    <3>. QED  BY <3>1, <3>2, <3>3
  <2>3. row \in VariantRow
    BY <2>2 DEF VariantRow
  <2>4. q \in Cleanup /\ q.op = "cleanup" /\ q.rows = req[c].rows /\ q.todo = Tail(req[c].todo)
    BY <2>1, <2>2 DEF Cleanup
  <2>5. Request(q)
    BY <2>4 DEF Request
  <2>6. ToRetire(q)
    BY <2>1, <2>2, <2>4 DEF ToRetire
  <2>7. /\ req' = [req EXCEPT ![c] = q] /\ variant' = [variant EXCEPT ![v] = row]
        /\ UNCHANGED <<head, arena, thread, rounds, exps>>
        /\ \/ tree' = [tree EXCEPT ![v] = Race!NoTree]
           \/ tree' = [tree EXCEPT ![v] = tree[v]]
    BY <1>6 DEF Race!RetireVariant
  <2>8. Race!NoTree \in [sha : Int, setup : BOOLEAN]
    BY DEF Race!NoTree
  <2>. HIDE DEF q, row, v
  <2>9. tree' \in [Variants -> [sha : Int, setup : BOOLEAN]]
    BY <1>1, <2>2, <2>7, <2>8
  <2>. QED  BY <1>1, <1>2, <2>2, <2>3, <2>4, <2>5, <2>6, <2>7, <2>9
<1>. QED  BY <1>3, <1>4, <1>5, <1>6

LEMMA TypeNext ==
    ASSUME ArenaConstants, ArenaType, [Race!Next]_Race!vars,
           \A r \in 1..Len(rounds) : \A i \in 1..Len(rounds[r].entries) : EntryFits(exps, rounds[r].entries[i])
    PROVE  ArenaType'
<1>1. CASE UNCHANGED Race!vars
  BY <1>1 DEF Race!vars, ArenaType, ToRetire
<1>2. CASE Race!MoveRef
  BY <1>2 DEF Race!MoveRef, ArenaType, ToRetire
<1>3. ASSUME NEW e \in DOMAIN exps, Race!EndExperiment(e) PROVE ArenaType'
  <2>1. PICK s \in {"completed", "aborted"} : exps' = [exps EXCEPT ![e].state = s]
    BY <1>3 DEF Race!EndExperiment
  <2>2. exps \in Seq(Child) /\ exps[e] \in Child
    BY DEF ArenaType
  <2>. DEFINE x == [exps[e] EXCEPT !.state = s]
  <2>3. x \in Child /\ exps' = [exps EXCEPT ![e] = x]
    BY <2>1, <2>2 DEF Child
  <2>. HIDE DEF x
  <2>4. exps' \in Seq(Child)
    BY <2>2, <2>3, Replacing
  <2>. QED  BY <1>3, <2>4 DEF Race!EndExperiment, ArenaType, ToRetire
<1>. QED  BY <1>1, <1>2, <1>3, PrepareType, LookType, RoundType, VariantType DEF Race!Next, Race!Proceed

-----------------------------------------------------------------------------
(* Experiments are launched, and end once. *)
Grows(x, y) ==
    /\ Len(y) >= Len(x)
    /\ \A i \in 1..Len(x) : y[i].variant = x[i].variant /\ (x[i].state \in Race!Terminal => y[i] = x[i])

LEMMA FitsGrow ==
    ASSUME NEW x \in Seq(Child), NEW y \in Seq(Child), Grows(x, y)
    PROVE  /\ \A e : EntryFits(x, e) => EntryFits(y, e)
           /\ \A row : RowFits(x, row) => RowFits(y, row)
           /\ \A entries : Launched(x, entries) => Launched(y, entries)
<1>1. Len(x) \in Nat /\ Len(y) \in Nat
  OBVIOUS
<1>2. \A e : EntryFits(x, e) => EntryFits(y, e)
  BY <1>1 DEF EntryFits, Grows
<1>3. ASSUME NEW row, RowFits(x, row) PROVE RowFits(y, row)
  <2>1. \A i \in 1..Len(row.entries) : EntryFits(x, row.entries[i]) /\ EntryFits(y, row.entries[i])
    BY <1>2, <1>3 DEF RowFits
  <2>2. ASSUME row.state = "completed", NEW i \in 1..Len(row.entries)
        PROVE  /\ row.entries[i].exp # 0 /\ row.entries[i].status \in Race!Terminal
               /\ row.entries[i].status = y[row.entries[i].exp].state
    <3>1. /\ row.entries[i].exp # 0 /\ row.entries[i].status \in Race!Terminal
          /\ row.entries[i].status = x[row.entries[i].exp].state
      BY <1>3, <2>2 DEF RowFits
    <3>2. row.entries[i].exp \in 1..Len(x)
      BY <2>1, <3>1 DEF EntryFits
    <3>. QED  BY <3>1, <3>2 DEF Grows
  <2>. QED  BY <2>1, <2>2 DEF RowFits
<1>4. \A entries : Launched(x, entries) => Launched(y, entries)
  BY <1>2 DEF Launched
<1>. QED  BY <1>2, <1>3, <1>4

LEMMA ExpsGrow == ASSUME ArenaType, [Race!Next]_Race!vars PROVE Grows(exps, exps')
<1>1. exps \in Seq(Child) /\ Len(exps) \in Nat
  BY DEF ArenaType
<1>2. CASE exps' = exps
  BY <1>1, <1>2 DEF Grows
<1>3. ASSUME NEW e \in DOMAIN exps, Race!EndExperiment(e) PROVE Grows(exps, exps')
  <2>1. PICK s \in {"completed", "aborted"} : exps' = [exps EXCEPT ![e].state = s]
    BY <1>3 DEF Race!EndExperiment
  <2>2. e \in 1..Len(exps) /\ exps[e] \in Child /\ exps[e].state \notin Race!Terminal
    BY <1>1, <1>3 DEF Race!EndExperiment, Race!Terminal
  <2>. DEFINE x == [exps[e] EXCEPT !.state = s]
  <2>3. x \in Child /\ exps' = [exps EXCEPT ![e] = x] /\ x.variant = exps[e].variant
    BY <2>1, <2>2 DEF Child
  <2>. HIDE DEF x
  <2>. QED  BY <1>1, <2>2, <2>3, Replacing DEF Grows
<1>4. ASSUME NEW c \in Clients, Race!LaunchVariant(c) PROVE Grows(exps, exps')
  BY <1>1, <1>4 DEF Race!LaunchVariant, Grows
<1>5. CASE UNCHANGED Race!vars
  BY <1>2, <1>5 DEF Race!vars
<1>6. CASE Race!MoveRef \/ \E v \in Variants : Race!Prepare(v)
  BY <1>2, <1>6 DEF Race!MoveRef, Race!Prepare, Race!EnsureWorktree, Race!RunSetup, Race!MarkSetup, Race!FinishPreparing
<1>7. ASSUME NEW c \in Clients,
             \/ Race!PutVariant(c) \/ Race!ExitCommand(c) \/ Race!RecordEntries(c) \/ Race!CountRound(c)
             \/ Race!WriteRound(c) \/ Race!RetireVariant(c) \/ Race!ArchiveArena(c) \/ Race!SweepWorktrees(c)
             \/ Race!RegisterVariant(c) \/ Race!LaunchRound(c) \/ Race!PromoteWinner(c)
             \/ \E r \in DOMAIN rounds : Race!ReadRound(c, r)
             \/ Race!ReadArena(c) \/ Race!GatherLivePaths(c) \/ Race!Die(c)
      PROVE  exps' = exps
  BY <1>7 DEF Race!PutVariant, Race!ExitCommand, Race!RecordEntries, Race!CountRound, Race!WriteRound, Race!RetireVariant,
     Race!ArchiveArena, Race!SweepWorktrees, Race!RegisterVariant, Race!LaunchRound, Race!PromoteWinner, Race!ReadRound,
     Race!ReadArena, Race!GatherLivePaths, Race!Die
<1>. QED  BY <1>2, <1>3, <1>4, <1>5, <1>6, <1>7 DEF Race!Next, Race!Proceed

(* Steps that write no round, and no request that has to do with one. *)
LEMMA RoundsFrame ==
    ASSUME RoundsInv, ArenaType', Grows(exps, exps'), rounds' = rounds,
           \A d \in Clients : req'[d] = req[d] \/ req'[d].op \notin {"launch", "refresh"}
    PROVE  RoundsFit'
<1>1. exps \in Seq(Child) /\ exps' \in Seq(Child)
  BY DEF RoundsInv, ArenaType
<1>2. \A d \in Clients : req'[d].op \in {"launch", "refresh"} => req'[d] = req[d]
  OBVIOUS
<1>. QED  BY <1>1, <1>2, FitsGrow, SMTT(30) DEF RoundsInv, RoundsFit

LEMMA QuietSteps ==
    ASSUME ArenaType, [Race!Next]_Race!vars,
           ~ \E c \in Clients : \/ Race!LaunchRound(c) \/ Race!LaunchVariant(c) \/ Race!RecordEntries(c) \/ Race!WriteRound(c)
                                \/ \E r \in DOMAIN rounds : Race!ReadRound(c, r)
    PROVE  /\ rounds' = rounds
           /\ \A d \in Clients : req'[d] = req[d] \/ req'[d].op \notin {"launch", "refresh"}
<1>1. DOMAIN req = Clients
  BY DEF ArenaType
<1>2. CASE UNCHANGED Race!vars
  BY <1>2 DEF Race!vars
<1>3. CASE Race!MoveRef \/ (\E v \in Variants : Race!Prepare(v)) \/ \E e \in DOMAIN exps : Race!EndExperiment(e)
  BY <1>3 DEF Race!MoveRef, Race!Prepare, Race!EnsureWorktree, Race!RunSetup, Race!MarkSetup, Race!FinishPreparing, Race!EndExperiment
<1>4. ASSUME NEW c \in Clients,
             \/ Race!RegisterVariant(c) \/ Race!ExitCommand(c) \/ Race!CountRound(c) \/ Race!ArchiveArena(c)
             \/ Race!SweepWorktrees(c) \/ Race!ReadArena(c) \/ Race!GatherLivePaths(c) \/ Race!Die(c)
      PROVE  /\ rounds' = rounds
             /\ \E q : req' = [req EXCEPT ![c] = q] /\ q.op \notin {"launch", "refresh"}
  <2>1. Race!Idle.op \notin {"launch", "refresh"}
    BY DEF Race!Idle
  <2>2. CASE Race!RegisterVariant(c)
    <3>. DEFINE q == [op |-> "register"]
    <3>1. q.op \notin {"launch", "refresh"}
      OBVIOUS
    <3>. HIDE DEF q
    <3>2. rounds' = rounds /\ req' = [req EXCEPT ![c] = q]
      BY <2>2 DEF Race!RegisterVariant, q
    <3>. QED  BY <3>1, <3>2
  <2>3. CASE Race!ReadArena(c)
    <3>. DEFINE q == [op |-> "cleanup", arena |-> arena, rows |-> variant, todo |-> Race!SetToSeq(Race!Registered)]
    <3>1. q.op \notin {"launch", "refresh"}
      OBVIOUS
    <3>. HIDE DEF q
    <3>2. rounds' = rounds /\ req' = [req EXCEPT ![c] = q]
      BY <2>3 DEF Race!ReadArena, q
    <3>. QED  BY <3>1, <3>2
  <2>4. CASE Race!GatherLivePaths(c)
    <3>. DEFINE q == [op |-> "gc", live |-> {v \in Race!Registered : variant[v].path}]
    <3>1. q.op \notin {"launch", "refresh"}
      OBVIOUS
    <3>. HIDE DEF q
    <3>2. rounds' = rounds /\ req' = [req EXCEPT ![c] = q]
      BY <2>4 DEF Race!GatherLivePaths, q
    <3>. QED  BY <3>1, <3>2
  <2>. QED  BY <1>4, <2>1, <2>2, <2>3, <2>4 DEF Race!ExitCommand, Race!CountRound, Race!ArchiveArena, Race!SweepWorktrees, Race!Die
<1>5. ASSUME NEW c \in Clients, Race!PutVariant(c)
      PROVE  /\ rounds' = rounds
             /\ \E q : req' = [req EXCEPT ![c] = q] /\ q.op \notin {"launch", "refresh"}
  <2>1. PICK v \in Variants : req' = [req EXCEPT ![c] = IF c \in CommandLine
                                                        THEN [op |-> "exit", of |-> v] ELSE Race!Idle]
    BY <1>5 DEF Race!PutVariant
  <2>. DEFINE q == IF c \in CommandLine THEN [op |-> "exit", of |-> v] ELSE Race!Idle
  <2>2. q.op \notin {"launch", "refresh"}
    BY DEF Race!Idle
  <2>. HIDE DEF q
  <2>. QED  BY <1>5, <2>1, <2>2 DEF Race!PutVariant, q
<1>6. ASSUME NEW c \in Clients, Race!RetireVariant(c)
      PROVE  /\ rounds' = rounds
             /\ \E q : req' = [req EXCEPT ![c] = q] /\ q.op \notin {"launch", "refresh"}
  <2>. DEFINE q == [req[c] EXCEPT !.todo = Tail(req[c].todo)]
  <2>1. req[c] \in Cleanup
    BY <1>6 DEF Race!RetireVariant, ArenaType, Request
  <2>2. q.op = "cleanup" /\ req' = [req EXCEPT ![c] = q] /\ rounds' = rounds
    BY <1>6, <2>1 DEF Race!RetireVariant, Cleanup
  <2>. QED  BY <2>2
<1>7. ASSUME NEW c \in Clients, NEW q, req' = [req EXCEPT ![c] = q], q.op \notin {"launch", "refresh"}
      PROVE  \A d \in Clients : req'[d] = req[d] \/ req'[d].op \notin {"launch", "refresh"}
  BY <1>1, <1>7
<1>8. ASSUME NEW c \in Clients, Race!PromoteWinner(c) PROVE rounds' = rounds /\ req' = req
  BY <1>8 DEF Race!PromoteWinner
<1>9. ASSUME NEW c \in Clients,
             \/ Race!Proceed(c) \/ Race!RegisterVariant(c) \/ Race!LaunchRound(c) \/ Race!PromoteWinner(c)
             \/ (\E r \in DOMAIN rounds : Race!ReadRound(c, r))
             \/ Race!ReadArena(c) \/ Race!GatherLivePaths(c) \/ Race!Die(c)
      PROVE  /\ rounds' = rounds
             /\ \A d \in Clients : req'[d] = req[d] \/ req'[d].op \notin {"launch", "refresh"}
  BY <1>4, <1>5, <1>6, <1>7, <1>8, <1>9 DEF Race!Proceed
<1>. QED  BY <1>2, <1>3, <1>9 DEF Race!Next

LEMMA LaunchRoundFits ==
    ASSUME ArenaConstants, RoundsInv, NEW c \in Clients, Race!LaunchRound(c)
    PROVE  RoundsFit'
<1>1. rounds \in Seq(Round) /\ Len(rounds) \in Nat /\ DOMAIN req = Clients
  BY DEF RoundsInv, ArenaType
<1>2. PICK selected \in SUBSET {v \in Race!Registered : variant[v].state = "ready"} :
        /\ selected # {}
        /\ rounds' = Append(rounds, [index |-> arena.round, state |-> "running",
                                     entries |-> [i \in 1..Cardinality(selected) |->
                                                    Race!Pending(Race!SetToSeq(selected)[i])]])
        /\ req' = [req EXCEPT ![c] = [op |-> "launch", round |-> Len(rounds) + 1,
                                      index |-> arena.round, entries |-> <<>>,
                                      todo |-> Race!SetToSeq(selected)]]
  BY Counting DEF Race!LaunchRound
<1>. DEFINE entries == [i \in 1..Cardinality(selected) |-> Race!Pending(Race!SetToSeq(selected)[i])]
            row == [index |-> arena.round, state |-> "running", entries |-> entries]
            q == [op |-> "launch", round |-> Len(rounds) + 1, index |-> arena.round,
                  entries |-> <<>>, todo |-> Race!SetToSeq(selected)]
<1>3. Cardinality(selected) \in Nat /\ Cardinality(selected) >= 1
  <2>1. selected \subseteq Variants
    BY DEF Race!Registered
  <2>. QED  BY <1>2, <2>1, Listing
<1>4. Len(entries) = Cardinality(selected) /\ \A i \in 1..Len(entries) : entries[i].exp = 0
  BY <1>3 DEF Race!Pending
<1>5. row.state = "running" /\ row.entries = entries
  OBVIOUS
<1>6. q.op = "launch" /\ q.round = Len(rounds) + 1 /\ q.entries = <<>> /\ Len(q.entries) = 0
  OBVIOUS
<1>7. req' = [req EXCEPT ![c] = q] /\ rounds' = Append(rounds, row) /\ exps' = exps
  BY <1>2 DEF Race!LaunchRound
<1>. HIDE DEF entries, row, q
<1>8. RowFits(exps, row) /\ Unrecorded(row)
  BY <1>3, <1>4, <1>5 DEF RowFits, Unrecorded, EntryFits
<1>9. Launched(exps, q.entries)
  BY <1>6 DEF Launched
<1>10. /\ Len(rounds') = Len(rounds) + 1 /\ rounds'[Len(rounds) + 1] = row
       /\ \A r \in 1..Len(rounds) : rounds'[r] = rounds[r]
  BY <1>1, <1>7
<1>11. req'[c] = q /\ \A d \in Clients : d # c => req'[d] = req[d]
  BY <1>1, <1>7
<1>12. \A d \in Clients : req[d].op \in {"refresh", "launch"} => req[d].round \in 1..Len(rounds)
  BY DEF RoundsInv, RoundsFit
<1>13. \A r \in 1..Len(rounds') : RowFits(exps', rounds'[r])
  BY <1>1, <1>7, <1>8, <1>10 DEF RoundsInv, RoundsFit
<1>14. \A d \in Clients : req'[d].op = "refresh" =>
          req'[d].round \in 1..Len(rounds') /\ RowFits(exps', req'[d].row)
  BY <1>1, <1>6, <1>7, <1>10, <1>11 DEF RoundsInv, RoundsFit
<1>15. ASSUME NEW b \in Clients, req'[b].op = "launch"
       PROVE  /\ req'[b].round \in 1..Len(rounds') /\ Unrecorded(rounds'[req'[b].round])
              /\ Launched(exps', req'[b].entries)
              /\ \A d \in Clients : req'[d].op = "refresh" /\ req'[d].round = req'[b].round
                                        => Unrecorded(req'[d].row)
              /\ \A d \in Clients : req'[d].op = "launch" /\ req'[d].round = req'[b].round => d = b
  <2>1. CASE b = c
    BY <1>1, <1>6, <1>7, <1>8, <1>9, <1>10, <1>11, <1>12, <2>1
  <2>2. CASE b # c
    BY <1>1, <1>6, <1>7, <1>10, <1>11, <1>12, <1>15, <2>2 DEF RoundsInv, RoundsFit
  <2>. QED  BY <2>1, <2>2
<1>. QED  BY <1>13, <1>14, <1>15 DEF RoundsFit

LEMMA LaunchVariantFits ==
    ASSUME RoundsInv, ArenaType', Grows(exps, exps'), NEW c \in Clients, Race!LaunchVariant(c)
    PROVE  RoundsFit'
<1>1. exps \in Seq(Child) /\ exps' \in Seq(Child) /\ Len(exps) \in Nat /\ DOMAIN req = Clients
      /\ req[c] \in Launch
  <2>1. exps \in Seq(Child) /\ DOMAIN req = Clients /\ Request(req[c])
    BY DEF RoundsInv, ArenaType
  <2>2. exps' \in Seq(Child)
    BY DEF ArenaType
  <2>3. req[c] \in Launch
    BY <2>1 DEF Race!LaunchVariant, Request
  <2>. QED  BY <2>1, <2>2, <2>3
<1>. DEFINE v == Head(req[c].todo)
            e == [variant |-> v, exp |-> Len(exps) + 1, status |-> "running"]
            q == [req[c] EXCEPT !.todo = Tail(req[c].todo), !.entries = Append(req[c].entries, e)]
<1>2. /\ exps' = Append(exps, [variant |-> v, state |-> "running"]) /\ rounds' = rounds
      /\ req' = [req EXCEPT ![c] = q] /\ req[c].op = "launch"
  BY DEF Race!LaunchVariant
<1>0. /\ \A row : RowFits(exps, row) => RowFits(exps', row)
      /\ \A entries : Launched(exps, entries) => Launched(exps', entries)
  BY <1>1, FitsGrow
<1>3. e.exp # 0 /\ EntryFits(exps', e)
  BY <1>1, <1>2 DEF EntryFits
<1>4. req[c].entries \in Seq(Entry) /\ Launched(exps', req[c].entries)
  BY <1>0, <1>1, <1>2 DEF RoundsInv, RoundsFit, Launch
<1>5. q.op = "launch" /\ q.round = req[c].round /\ q.entries = Append(req[c].entries, e)
  BY <1>1, <1>2 DEF Launch
<1>. HIDE DEF e, q, v
<1>6. Launched(exps', q.entries)
  BY <1>3, <1>4, <1>5 DEF Launched
<1>7. req'[c] = q /\ \A d \in Clients : d # c => req'[d] = req[d]
  BY <1>1, <1>2
<1>8. \A r \in 1..Len(rounds') : RowFits(exps', rounds'[r])
  BY <1>1, <1>2, <1>0 DEF RoundsInv, RoundsFit
<1>9. \A d \in Clients : req'[d].op = "refresh" => d # c /\ req'[d] = req[d]
  BY <1>5, <1>7
<1>10. \A d \in Clients : req'[d].op = "launch" => req[d].op = "launch" /\ req'[d].round = req[d].round
  BY <1>2, <1>5, <1>7
<1>11. \A d \in Clients : req'[d].op = "launch" => Launched(exps', req'[d].entries)
  BY <1>1, <1>6, <1>7, <1>0 DEF RoundsInv, RoundsFit
<1>12. \A d \in Clients : req'[d].op = "refresh" =>
          req'[d].round \in 1..Len(rounds') /\ RowFits(exps', req'[d].row)
  BY <1>1, <1>2, <1>9, <1>0 DEF RoundsInv, RoundsFit
<1>13. ASSUME NEW b \in Clients, req'[b].op = "launch"
       PROVE  /\ req'[b].round \in 1..Len(rounds') /\ Unrecorded(rounds'[req'[b].round])
              /\ \A d \in Clients : req'[d].op = "refresh" /\ req'[d].round = req'[b].round
                                        => Unrecorded(req'[d].row)
              /\ \A d \in Clients : req'[d].op = "launch" /\ req'[d].round = req'[b].round => d = b
  <2>1. req[b].op = "launch" /\ req'[b].round = req[b].round
    BY <1>10, <1>13
  <2>. QED  BY <1>2, <1>9, <1>10, <2>1 DEF RoundsInv, RoundsFit
<1>. QED  BY <1>8, <1>11, <1>12, <1>13 DEF RoundsFit

(* A round is written whole, or its entries, at the end of the request that did it. *)
LEMMA WrittenFits ==
    ASSUME RoundsInv, NEW c \in Clients, NEW r \in 1..Len(rounds), NEW row, NEW q,
           rounds' = [rounds EXCEPT ![r] = row], req' = [req EXCEPT ![c] = q], exps' = exps,
           q.op \notin {"launch", "refresh"}, RowFits(exps, row),
           \A b \in Clients : b # c /\ req[b].op = "launch" /\ req[b].round = r => Unrecorded(row)
    PROVE  RoundsFit'
<1>1. rounds \in Seq(Round) /\ Len(rounds) \in Nat /\ DOMAIN req = Clients
  BY DEF RoundsInv, ArenaType
<1>2. Len(rounds') = Len(rounds) /\ \A s \in 1..Len(rounds) : rounds'[s] = IF s = r THEN row ELSE rounds[s]
  BY <1>1
<1>3. \A d \in Clients : req'[d].op \in {"launch", "refresh"} => d # c /\ req'[d] = req[d]
  BY <1>1
<1>4. \A s \in 1..Len(rounds') : RowFits(exps', rounds'[s])
  BY <1>1, <1>2 DEF RoundsInv, RoundsFit
<1>5. \A d \in Clients : req'[d].op = "refresh" =>
          req'[d].round \in 1..Len(rounds') /\ RowFits(exps', req'[d].row)
  BY <1>2, <1>3 DEF RoundsInv, RoundsFit
<1>6. ASSUME NEW b \in Clients, req'[b].op = "launch"
      PROVE  /\ req'[b].round \in 1..Len(rounds') /\ Unrecorded(rounds'[req'[b].round])
             /\ Launched(exps', req'[b].entries)
             /\ \A d \in Clients : req'[d].op = "refresh" /\ req'[d].round = req'[b].round
                                       => Unrecorded(req'[d].row)
             /\ \A d \in Clients : req'[d].op = "launch" /\ req'[d].round = req'[b].round => d = b
  <2>1. b # c /\ req'[b] = req[b] /\ req[b].op = "launch"
    BY <1>3, <1>6
  <2>. QED  BY <1>2, <1>3, <2>1 DEF RoundsInv, RoundsFit
<1>. QED  BY <1>4, <1>5, <1>6 DEF RoundsFit

LEMMA RecordFits ==
    ASSUME RoundsInv, NEW c \in Clients, Race!RecordEntries(c)
    PROVE  RoundsFit'
<1>1. /\ req[c].op = "launch" /\ req[c].round \in 1..Len(rounds)
      /\ Unrecorded(rounds[req[c].round]) /\ Launched(exps, req[c].entries)
      /\ \A b \in Clients : req[b].op = "launch" /\ req[b].round = req[c].round => b = c
      /\ rounds[req[c].round] \in Round
  BY DEF Race!RecordEntries, RoundsInv, RoundsFit, ArenaType
<1>. DEFINE row == [rounds[req[c].round] EXCEPT !.entries = req[c].entries]
            q == [op |-> "count", index |-> req[c].index]
<1>2. row.state = "running" /\ row.entries = req[c].entries
  BY <1>1 DEF Round, Unrecorded
<1>3. q.op \notin {"launch", "refresh"}
  OBVIOUS
<1>4. rounds' = [rounds EXCEPT ![req[c].round] = row] /\ req' = [req EXCEPT ![c] = q] /\ exps' = exps
  BY DEF Race!RecordEntries
<1>. HIDE DEF row, q
<1>5. RowFits(exps, row)
  BY <1>1, <1>2 DEF RowFits, Launched
<1>. DEFINE r == req[c].round
<1>6. /\ r \in 1..Len(rounds) /\ rounds' = [rounds EXCEPT ![r] = row]
      /\ \A b \in Clients : b # c /\ req[b].op = "launch" /\ req[b].round = r => Unrecorded(row)
  BY <1>1, <1>4
<1>. HIDE DEF r
<1>. QED  BY <1>3, <1>4, <1>5, <1>6, WrittenFits

LEMMA WriteFits ==
    ASSUME RoundsInv, NEW c \in Clients, Race!WriteRound(c)
    PROVE  RoundsFit'
<1>1. /\ req[c].op = "refresh" /\ req[c].round \in 1..Len(rounds) /\ RowFits(exps, req[c].row)
      /\ \A b \in Clients : req[b].op = "launch" /\ req[b].round = req[c].round => Unrecorded(req[c].row)
  BY DEF Race!WriteRound, RoundsInv, RoundsFit
<1>2. /\ rounds' = [rounds EXCEPT ![req[c].round] = req[c].row] /\ req' = [req EXCEPT ![c] = Race!Idle]
      /\ exps' = exps
  BY DEF Race!WriteRound
<1>. DEFINE r == req[c].round
            row == req[c].row
<1>3. r \in 1..Len(rounds) /\ Race!Idle.op \notin {"launch", "refresh"}
  BY <1>1, IdleIsRequest
<1>4. \A b \in Clients : b # c /\ req[b].op = "launch" /\ req[b].round = r => Unrecorded(row)
  BY <1>1
<1>5. rounds' = [rounds EXCEPT ![r] = row] /\ RowFits(exps, row)
  BY <1>1, <1>2
<1>. HIDE DEF r, row
<1>. QED  BY <1>2, <1>3, <1>4, <1>5, WrittenFits

LEMMA ReadFits ==
    ASSUME RoundsInv, NEW c \in Clients, NEW r \in DOMAIN rounds, Race!ReadRound(c, r)
    PROVE  RoundsFit'
<1>1. /\ r \in 1..Len(rounds) /\ rounds[r] \in Round /\ rounds[r].entries \in Seq(Entry)
      /\ RowFits(exps, rounds[r]) /\ DOMAIN req = Clients
  <2>1. /\ rounds \in Seq(Round) /\ DOMAIN req = Clients
        /\ \A s \in 1..Len(rounds) : RowFits(exps, rounds[s])
    BY DEF RoundsInv, RoundsFit, ArenaType
  <2>2. r \in 1..Len(rounds) /\ rounds[r] \in Round
    BY <2>1
  <2>. QED  BY <2>1, <2>2 DEF Round
<1>. DEFINE entries == rounds[r].entries
            seen == Race!Refreshed(entries)
            row == [rounds[r] EXCEPT !.entries = seen,
                       !.state = IF rounds[r].state = "running" /\ Race!AllTerminal(entries)
                                 THEN "completed" ELSE rounds[r].state]
            q == [op |-> "refresh", round |-> r, row |-> row]
<1>2. /\ Len(seen) = Len(entries)
      /\ \A i \in 1..Len(entries) :
            /\ seen[i].exp = entries[i].exp /\ seen[i].variant = entries[i].variant
            /\ entries[i].exp # 0 => seen[i].status = exps[entries[i].exp].state
  BY <1>1, RefreshedFacts DEF RoundsInv, RowFits
<1>3. /\ row.entries = seen
      /\ row.state = IF rounds[r].state = "running" /\ Race!AllTerminal(entries)
                     THEN "completed" ELSE rounds[r].state
  BY <1>1 DEF Round
<1>4. /\ q.op = "refresh" /\ q.round = r /\ q.row = row
      /\ req' = [req EXCEPT ![c] = q] /\ rounds' = rounds /\ exps' = exps
  BY DEF Race!ReadRound
<1>5. Race!AllTerminal(entries) <=> \A i \in 1..Len(entries) : entries[i].exp # 0 /\ exps[entries[i].exp].state \in Race!Terminal
  BY <1>1 DEF Race!AllTerminal
<1>6. rounds[r].state \in {"running", "completed"}
  BY <1>1 DEF Round
<1>. HIDE DEF q, row, seen
<1>7. \A i \in 1..Len(entries) : EntryFits(exps, seen[i])
  BY <1>1, <1>2 DEF RowFits, EntryFits
<1>8. row.state = "completed" => \A i \in 1..Len(entries) :
         seen[i].exp # 0 /\ seen[i].status = exps[seen[i].exp].state /\ seen[i].status \in Race!Terminal
  <2>1. CASE rounds[r].state = "completed"
    BY <1>1, <1>2, <1>3, <2>1 DEF RowFits
  <2>2. CASE rounds[r].state = "running"
    BY <1>2, <1>3, <1>5, <2>2
  <2>. QED  BY <1>6, <2>1, <2>2
<1>9. RowFits(exps, row)
  BY <1>2, <1>3, <1>7, <1>8 DEF RowFits
<1>10. Unrecorded(rounds[r]) => Unrecorded(row)
  BY <1>2, <1>3, <1>5 DEF Unrecorded
<1>11. req'[c] = q /\ \A d \in Clients : d # c => req'[d] = req[d]
  BY <1>1, <1>4
<1>12. \A d \in Clients : req'[d].op = "launch" => d # c /\ req'[d] = req[d]
  BY <1>4, <1>11
<1>13. \A s \in 1..Len(rounds') : RowFits(exps', rounds'[s])
  BY <1>4 DEF RoundsInv, RoundsFit
<1>14. \A d \in Clients : req'[d].op = "refresh" =>
          req'[d].round \in 1..Len(rounds') /\ RowFits(exps', req'[d].row)
  BY <1>1, <1>4, <1>9, <1>11 DEF RoundsInv, RoundsFit
<1>15. ASSUME NEW b \in Clients, req'[b].op = "launch"
       PROVE  /\ req'[b].round \in 1..Len(rounds') /\ Unrecorded(rounds'[req'[b].round])
              /\ Launched(exps', req'[b].entries)
              /\ \A d \in Clients : req'[d].op = "refresh" /\ req'[d].round = req'[b].round
                                        => Unrecorded(req'[d].row)
              /\ \A d \in Clients : req'[d].op = "launch" /\ req'[d].round = req'[b].round => d = b
  <2>1. req'[b] = req[b] /\ req[b].op = "launch"
    BY <1>12, <1>15
  <2>. QED  BY <1>4, <1>10, <1>11, <1>12, <2>1 DEF RoundsInv, RoundsFit
<1>. QED  BY <1>13, <1>14, <1>15 DEF RoundsFit

LEMMA RoundsNext == ASSUME ArenaConstants, RoundsInv, [Race!Next]_Race!vars PROVE RoundsInv'
<1>1. ArenaType'
  BY TypeNext DEF RoundsInv, RoundsFit, RowFits
<1>2. Grows(exps, exps')
  BY ExpsGrow DEF RoundsInv
<1>3. RoundsFit'
  <2>1. CASE \E c \in Clients : \/ Race!LaunchRound(c) \/ Race!LaunchVariant(c) \/ Race!RecordEntries(c) \/ Race!WriteRound(c)
                                \/ \E r \in DOMAIN rounds : Race!ReadRound(c, r)
    BY <1>1, <1>2, <2>1, LaunchRoundFits, LaunchVariantFits, RecordFits, WriteFits, ReadFits
  <2>2. CASE ~ \E c \in Clients : \/ Race!LaunchRound(c) \/ Race!LaunchVariant(c) \/ Race!RecordEntries(c) \/ Race!WriteRound(c)
                                  \/ \E r \in DOMAIN rounds : Race!ReadRound(c, r)
    <3>1. /\ rounds' = rounds
          /\ \A d \in Clients : req'[d] = req[d] \/ req'[d].op \notin {"launch", "refresh"}
      BY <2>2, QuietSteps DEF RoundsInv
    <3>. QED  BY <1>1, <1>2, <3>1, RoundsFrame
  <2>. QED  BY <2>1, <2>2
<1>. QED  BY <1>1, <1>3 DEF RoundsInv

LEMMA RoundsInit == ASSUME ArenaConstants, Race!Init PROVE RoundsInv
<1>1. \A c \in Clients : req[c] = Race!Idle /\ req[c].op = "idle" /\ Request(req[c])
  BY IdleIsRequest DEF Race!Init
<1>2. rounds = <<>> /\ Len(rounds) = 0 /\ <<>> \in Seq(Round) /\ <<>> \in Seq(Child)
  BY DEF Race!Init
<1>3. ArenaType
  BY <1>1, <1>2 DEF Race!Init, ArenaType, ArenaRow, Race!NoTree
<1>. QED  BY <1>1, <1>2, <1>3 DEF RoundsInv, RoundsFit

LEMMA RoundsGive ==
    ASSUME RoundsInv
    PROVE  Race!ClosedRoundIsOver
<1>. SUFFICES ASSUME RoundsInv, NEW r \in DOMAIN rounds, rounds[r].state = "completed",
                     NEW i \in DOMAIN rounds[r].entries
              PROVE  LET entry == rounds[r].entries[i] IN
                     /\ entry.exp # 0 /\ exps[entry.exp].variant = entry.variant
                     /\ entry.status = exps[entry.exp].state /\ entry.status \in Race!Terminal
  BY DEF Race!ClosedRoundIsOver
<1>1. r \in 1..Len(rounds) /\ rounds[r] \in Round /\ RowFits(exps, rounds[r])
  BY DEF RoundsInv, RoundsFit, ArenaType
<1>2. i \in 1..Len(rounds[r].entries)
  BY <1>1 DEF Round
<1>. QED  BY <1>1, <1>2 DEF RowFits, EntryFits

(* refresh_round_status, by any number of callers that overlap, die or lose a  *)
(* launch: a round closes only after an experiment of each variant in it ended. *)
THEOREM ClosedRoundsAreOver == ASSUME ArenaConstants PROVE Race!Spec => []Race!ClosedRoundIsOver
<1>1. Race!Init => RoundsInv
  BY RoundsInit
<1>2. RoundsInv /\ [Race!Next]_Race!vars => RoundsInv'
  BY RoundsNext
<1>3. RoundsInv => Race!ClosedRoundIsOver
  BY RoundsGive
<1>. QED  BY <1>1, <1>2, <1>3, PTL DEF Race!Spec

-----------------------------------------------------------------------------
LEMMA QuietKeeps ==
    ASSUME ArenaType, [Race!Next]_Race!vars, "die" \notin Uses,
           ~ \E c \in Clients : \/ Race!LaunchRound(c) \/ Race!LaunchVariant(c) \/ Race!RecordEntries(c) \/ Race!WriteRound(c)
                                \/ \E r \in DOMAIN rounds : Race!ReadRound(c, r)
    PROVE  /\ Len(exps') = Len(exps)
           /\ \A d \in Clients : req[d].op = "launch" => req'[d] = req[d]
<1>1. DOMAIN req = Clients /\ exps \in Seq(Child)
  BY DEF ArenaType
<1>2. CASE UNCHANGED Race!vars
  BY <1>2 DEF Race!vars
<1>3. CASE Race!MoveRef \/ \E v \in Variants : Race!Prepare(v)
  BY <1>3 DEF Race!MoveRef, Race!Prepare, Race!EnsureWorktree, Race!RunSetup, Race!MarkSetup, Race!FinishPreparing
<1>4. ASSUME NEW e \in DOMAIN exps, Race!EndExperiment(e) PROVE Len(exps') = Len(exps) /\ req' = req
  BY <1>1, <1>4 DEF Race!EndExperiment
<1>5. ASSUME NEW c \in Clients,
             \/ Race!PutVariant(c) \/ Race!ExitCommand(c) \/ Race!CountRound(c) \/ Race!RetireVariant(c)
             \/ Race!ArchiveArena(c) \/ Race!SweepWorktrees(c) \/ Race!RegisterVariant(c) \/ Race!PromoteWinner(c)
             \/ Race!ReadArena(c) \/ Race!GatherLivePaths(c) \/ Race!Die(c)
      PROVE  /\ exps' = exps /\ req[c].op # "launch"
             /\ \A d \in Clients : d # c => req'[d] = req[d]
  BY <1>1, <1>5, IdleIsRequest DEF Race!PutVariant, Race!ExitCommand, Race!CountRound, Race!RetireVariant, Race!ArchiveArena,
     Race!SweepWorktrees, Race!RegisterVariant, Race!PromoteWinner, Race!ReadArena, Race!GatherLivePaths, Race!Die
<1>6. ASSUME NEW c \in Clients,
             \/ Race!Proceed(c) \/ Race!RegisterVariant(c) \/ Race!LaunchRound(c) \/ Race!PromoteWinner(c)
             \/ (\E r \in DOMAIN rounds : Race!ReadRound(c, r))
             \/ Race!ReadArena(c) \/ Race!GatherLivePaths(c) \/ Race!Die(c)
      PROVE  /\ exps' = exps
             /\ \A d \in Clients : req[d].op = "launch" => req'[d] = req[d]
  BY <1>5, <1>6 DEF Race!Proceed
<1>. QED  BY <1>2, <1>3, <1>4, <1>6 DEF Race!Next

(* With one client, the conditions speak of its request. *)
LEMMA OneRecord ==
    ASSUME NEW c \in Clients, Race!OneClient, DOMAIN req' = Clients,
           \A e \in 1..Len(exps'), r, s \in 1..Len(rounds') :
              InRow(rounds'[r], e) /\ InRow(rounds'[s], e) => r = s,
           \A e \in 1..Len(exps') :
              Launches(req'[c], e) \/ (\E r \in 1..Len(rounds') : InRow(rounds'[r], e)),
           \A e \in 1..Len(exps'), r \in 1..Len(rounds') : Launches(req'[c], e) => ~InRow(rounds'[r], e),
           \A e \in 1..Len(exps') : req'[c].op = "launch" => ~InRow(rounds'[req'[c].round], e),
           \A e \in 1..Len(exps') :
              req'[c].op = "refresh" => (InRow(req'[c].row, e) <=> InRow(rounds'[req'[c].round], e))
    PROVE  RecordFit'
<1>1. \A d \in Clients : d = c
  BY DEF Race!OneClient
<1>. QED  BY <1>1 DEF RecordFit

LEMMA RecordQuiet ==
    ASSUME RoundsInv, RecordFit, [Race!Next]_Race!vars, "die" \notin Uses,
           ~ \E c \in Clients : \/ Race!LaunchRound(c) \/ Race!LaunchVariant(c) \/ Race!RecordEntries(c) \/ Race!WriteRound(c)
                                \/ \E r \in DOMAIN rounds : Race!ReadRound(c, r)
    PROVE  RecordFit'
<1>1. /\ rounds' = rounds /\ Len(exps') = Len(exps)
      /\ \A d \in Clients : req'[d] = req[d] \/ req'[d].op \notin {"launch", "refresh"}
      /\ \A d \in Clients : req[d].op = "launch" => req'[d] = req[d]
  BY QuietSteps, QuietKeeps DEF RoundsInv
<1>2. \A d \in Clients, e \in 1..Len(exps) : Launches(req'[d], e) <=> Launches(req[d], e)
  BY <1>1 DEF Launches
<1>3. \A d \in Clients : req'[d].op \in {"launch", "refresh"} => req'[d] = req[d]
  BY <1>1
<1>. QED  BY <1>1, <1>2, <1>3 DEF RecordFit

LEMMA RecordLaunchRound ==
    ASSUME ArenaConstants, Race!OneClient, RoundsInv, RecordFit, NEW c \in Clients, Race!LaunchRound(c)
    PROVE  RecordFit'
<1>1. rounds \in Seq(Round) /\ Len(rounds) \in Nat /\ DOMAIN req = Clients /\ exps \in Seq(Child)
  BY DEF RoundsInv, ArenaType
<1>2. PICK row, q :
        /\ rounds' = Append(rounds, row) /\ req' = [req EXCEPT ![c] = q] /\ exps' = exps
        /\ q.op = "launch" /\ q.round = Len(rounds) + 1 /\ q.entries = <<>>
        /\ \A i \in 1..Len(row.entries) : row.entries[i].exp = 0
  <2>1. PICK selected \in SUBSET {v \in Race!Registered : variant[v].state = "ready"} :
          /\ rounds' = Append(rounds, [index |-> arena.round, state |-> "running",
                                       entries |-> [i \in 1..Cardinality(selected) |->
                                                      Race!Pending(Race!SetToSeq(selected)[i])]])
          /\ req' = [req EXCEPT ![c] = [op |-> "launch", round |-> Len(rounds) + 1,
                                        index |-> arena.round, entries |-> <<>>,
                                        todo |-> Race!SetToSeq(selected)]]
    BY Counting DEF Race!LaunchRound
  <2>. DEFINE entries == [i \in 1..Cardinality(selected) |-> Race!Pending(Race!SetToSeq(selected)[i])]
              row == [index |-> arena.round, state |-> "running", entries |-> entries]
              q == [op |-> "launch", round |-> Len(rounds) + 1, index |-> arena.round,
                    entries |-> <<>>, todo |-> Race!SetToSeq(selected)]
  <2>2. Cardinality(selected) \in Nat
    <3>1. selected \subseteq Variants
      BY DEF Race!Registered
    <3>. QED  BY <3>1, Listing
  <2>3. Len(entries) = Cardinality(selected) /\ \A i \in 1..Len(entries) : entries[i].exp = 0
    BY <2>2 DEF Race!Pending
  <2>4. row.entries = entries /\ q.op = "launch" /\ q.round = Len(rounds) + 1 /\ q.entries = <<>>
    OBVIOUS
  <2>5. rounds' = Append(rounds, row) /\ req' = [req EXCEPT ![c] = q] /\ exps' = exps
    BY <2>1 DEF Race!LaunchRound
  <2>. HIDE DEF entries, row, q
  <2>. QED  BY <2>3, <2>4, <2>5
<1>3. /\ Len(rounds') = Len(rounds) + 1 /\ rounds'[Len(rounds) + 1] = row
      /\ \A r \in 1..Len(rounds) : rounds'[r] = rounds[r]
      /\ DOMAIN req' = Clients /\ req'[c] = q
  BY <1>1, <1>2
<1>4. \A e \in 1..Len(exps) : ~InRow(row, e)
  BY <1>2 DEF InRow
<1>5. \A e : ~Launches(q, e)
  <2>1. Len(q.entries) = 0
    BY <1>2
  <2>. QED  BY <2>1 DEF Launches
<1>6. \A e \in 1..Len(exps) : \E r \in 1..Len(rounds) : InRow(rounds[r], e)
  <2>1. \A d \in Clients : req[d].op # "launch"
    BY IdleIsRequest DEF Race!LaunchRound, Race!OneClient
  <2>. QED  BY <2>1 DEF RecordFit, Launches
<1>7. \A r \in 1..Len(rounds') : r \in 1..Len(rounds) \/ r = Len(rounds) + 1
  BY <1>1, <1>3
<1>8. \A e \in 1..Len(exps) : \E r \in 1..Len(rounds') : InRow(rounds'[r], e)
  <2>1. \A r \in 1..Len(rounds) : r \in 1..Len(rounds')
    BY <1>1, <1>3
  <2>. QED  BY <1>3, <1>6, <2>1
<1>9. \A e \in 1..Len(exps), r, s \in 1..Len(rounds') :
         InRow(rounds'[r], e) /\ InRow(rounds'[s], e) => r = s
  BY <1>3, <1>4, <1>7 DEF RecordFit
<1>10. Len(exps') = Len(exps) /\ \A e \in 1..Len(exps') : ~InRow(rounds'[req'[c].round], e)
  BY <1>2, <1>3, <1>4
<1>11. req'[c].op = "launch" /\ \A e : ~Launches(req'[c], e)
  BY <1>2, <1>3, <1>5
<1>12. \A e \in 1..Len(exps') : \E r \in 1..Len(rounds') : InRow(rounds'[r], e)
  BY <1>8, <1>10
<1>13. \A e \in 1..Len(exps'), r, s \in 1..Len(rounds') :
         InRow(rounds'[r], e) /\ InRow(rounds'[s], e) => r = s
  BY <1>9, <1>10
<1>. QED  BY <1>3, <1>10, <1>11, <1>12, <1>13, OneRecord

LEMMA RecordLaunchVariant ==
    ASSUME Race!OneClient, RoundsInv, RecordFit, NEW c \in Clients, Race!LaunchVariant(c)
    PROVE  RecordFit'
<1>1. exps \in Seq(Child) /\ Len(exps) \in Nat /\ DOMAIN req = Clients /\ req[c] \in Launch
  BY DEF RoundsInv, ArenaType, Race!LaunchVariant, Request
<1>. DEFINE e == [variant |-> Head(req[c].todo), exp |-> Len(exps) + 1, status |-> "running"]
            q == [req[c] EXCEPT !.todo = Tail(req[c].todo), !.entries = Append(req[c].entries, e)]
<1>2. /\ Len(exps') = Len(exps) + 1 /\ rounds' = rounds
      /\ req' = [req EXCEPT ![c] = q] /\ req[c].op = "launch"
  <2>. DEFINE x == [variant |-> Head(req[c].todo), state |-> "running"]
  <2>1. /\ exps' = Append(exps, x) /\ rounds' = rounds
        /\ req' = [req EXCEPT ![c] = q] /\ req[c].op = "launch"
    BY DEF Race!LaunchVariant
  <2>. HIDE DEF x, q, e
  <2>. QED  BY <1>1, <2>1
<1>3. q.op = "launch" /\ q.round = req[c].round /\ q.entries = Append(req[c].entries, e)
  BY <1>1, <1>2 DEF Launch
<1>4. e.exp = Len(exps) + 1 /\ req[c].entries \in Seq(Entry)
  BY <1>1 DEF Launch
<1>. HIDE DEF e, q
<1>5. \A x : Launches(q, x) <=> Launches(req[c], x) \/ x = Len(exps) + 1
  BY <1>2, <1>3, <1>4, SMTT(30) DEF Launches
<1>6. \A r \in 1..Len(rounds), x \in Nat : InRow(rounds[r], x) => x <= Len(exps)
  <2>. SUFFICES ASSUME NEW r \in 1..Len(rounds), NEW x \in Nat, InRow(rounds[r], x) PROVE x <= Len(exps)
    OBVIOUS
  <2>1. PICK i \in 1..Len(rounds[r].entries) : rounds[r].entries[i].exp = x
    BY DEF InRow
  <2>2. RowFits(exps, rounds[r])
    BY DEF RoundsInv, RoundsFit
  <2>3. x # 0 => x \in 1..Len(exps)
    BY <2>1, <2>2 DEF RowFits, EntryFits
  <2>. QED  BY <1>1, <2>3
<1>7. req'[c] = q /\ DOMAIN req' = Clients
  BY <1>1, <1>2
<1>8. \A x \in 1..Len(exps') : x \in 1..Len(exps) \/ x = Len(exps) + 1
  BY <1>1, <1>2
<1>9. \A r \in 1..Len(rounds) : ~InRow(rounds[r], Len(exps) + 1)
  BY <1>1, <1>6
<1>10. req[c].round \in 1..Len(rounds)
  BY <1>2 DEF RoundsInv, RoundsFit
<1>11. \A x \in 1..Len(exps') :
          Launches(req'[c], x) \/ (\E r \in 1..Len(rounds') : InRow(rounds'[r], x))
  BY <1>2, <1>5, <1>7, <1>8 DEF RecordFit, Race!OneClient
<1>12. \A x \in 1..Len(exps'), r \in 1..Len(rounds') : Launches(req'[c], x) => ~InRow(rounds'[r], x)
  BY <1>2, <1>5, <1>7, <1>8, <1>9 DEF RecordFit
<1>13. \A x \in 1..Len(exps'), r, s \in 1..Len(rounds') :
          InRow(rounds'[r], x) /\ InRow(rounds'[s], x) => r = s
  BY <1>2, <1>8, <1>9 DEF RecordFit
<1>14. \A x \in 1..Len(exps') : ~InRow(rounds'[req'[c].round], x)
  BY <1>2, <1>3, <1>7, <1>8, <1>9, <1>10 DEF RecordFit
<1>. QED  BY <1>3, <1>7, <1>11, <1>12, <1>13, <1>14, OneRecord

LEMMA RecordRecord ==
    ASSUME Race!OneClient, RoundsInv, RecordFit, NEW c \in Clients, Race!RecordEntries(c)
    PROVE  RecordFit'
<1>. DEFINE r0 == req[c].round
            row == [rounds[r0] EXCEPT !.entries = req[c].entries]
            q == [op |-> "count", index |-> req[c].index]
<1>1. /\ req[c].op = "launch" /\ r0 \in 1..Len(rounds) /\ rounds \in Seq(Round) /\ rounds[r0] \in Round
      /\ DOMAIN req = Clients
  BY DEF Race!RecordEntries, RoundsInv, RoundsFit, ArenaType
<1>2. row.entries = req[c].entries
  BY <1>1 DEF Round
<1>3. q.op = "count"
  OBVIOUS
<1>4. rounds' = [rounds EXCEPT ![r0] = row] /\ req' = [req EXCEPT ![c] = q] /\ exps' = exps
  BY DEF Race!RecordEntries
<1>5. \A e : InRow(row, e) <=> Launches(req[c], e)
  BY <1>1, <1>2 DEF InRow, Launches
<1>6. \A e \in 1..Len(exps) : ~InRow(rounds[r0], e)
  BY <1>1 DEF RecordFit
<1>. HIDE DEF row, q, r0
<1>7. /\ Len(rounds') = Len(rounds)
      /\ \A r \in 1..Len(rounds) : rounds'[r] = IF r = r0 THEN row ELSE rounds[r]
      /\ req'[c] = q /\ DOMAIN req' = Clients /\ Len(exps') = Len(exps)
  BY <1>1, <1>4
<1>8. \A e \in 1..Len(exps), r \in 1..Len(rounds) :
         InRow(rounds'[r], e) <=> IF r = r0 THEN Launches(req[c], e) ELSE InRow(rounds[r], e)
  BY <1>5, <1>7
<1>9. \A e \in 1..Len(exps) : Launches(req[c], e) \/ \E r \in 1..Len(rounds) : r # r0 /\ InRow(rounds[r], e)
  BY <1>6 DEF RecordFit, Race!OneClient
<1>10. \A e \in 1..Len(exps) : \E r \in 1..Len(rounds) : InRow(rounds'[r], e)
  BY <1>1, <1>8, <1>9
<1>11. \A e \in 1..Len(exps), r, s \in 1..Len(rounds) :
          InRow(rounds'[r], e) /\ InRow(rounds'[s], e) => r = s
  BY <1>8 DEF RecordFit
<1>12. req'[c].op = "count" /\ \A e : ~Launches(req'[c], e)
  BY <1>3, <1>7 DEF Launches
<1>. QED  BY <1>7, <1>10, <1>11, <1>12, OneRecord

LEMMA RecordWrite ==
    ASSUME Race!OneClient, RoundsInv, RecordFit, NEW c \in Clients, Race!WriteRound(c)
    PROVE  RecordFit'
<1>. DEFINE r0 == req[c].round
            row == req[c].row
<1>1. /\ req[c].op = "refresh" /\ r0 \in 1..Len(rounds) /\ rounds \in Seq(Round) /\ DOMAIN req = Clients
      /\ \A e \in 1..Len(exps) : InRow(row, e) <=> InRow(rounds[r0], e)
  BY DEF Race!WriteRound, RoundsInv, RoundsFit, ArenaType, RecordFit
<1>2. rounds' = [rounds EXCEPT ![r0] = row] /\ req' = [req EXCEPT ![c] = Race!Idle] /\ exps' = exps
  BY DEF Race!WriteRound
<1>. HIDE DEF r0, row
<1>3. /\ Len(rounds') = Len(rounds)
      /\ \A r \in 1..Len(rounds) : rounds'[r] = IF r = r0 THEN row ELSE rounds[r]
      /\ req'[c] = Race!Idle /\ DOMAIN req' = Clients /\ Len(exps') = Len(exps)
  BY <1>1, <1>2
<1>4. \A e \in 1..Len(exps), r \in 1..Len(rounds) : InRow(rounds'[r], e) <=> InRow(rounds[r], e)
  BY <1>1, <1>3
<1>5. req'[c].op = "idle" /\ \A e : ~Launches(req'[c], e) /\ ~Launches(req[c], e)
  BY <1>1, <1>3, IdleIsRequest DEF Launches
<1>6. \A e \in 1..Len(exps) : \E r \in 1..Len(rounds) : InRow(rounds[r], e)
  BY <1>5 DEF RecordFit, Race!OneClient
<1>7. \A e \in 1..Len(exps) : \E r \in 1..Len(rounds) : InRow(rounds'[r], e)
  BY <1>4, <1>6
<1>8. \A e \in 1..Len(exps), r, s \in 1..Len(rounds) :
         InRow(rounds'[r], e) /\ InRow(rounds'[s], e) => r = s
  BY <1>4 DEF RecordFit
<1>. QED  BY <1>3, <1>5, <1>7, <1>8, OneRecord

LEMMA RecordRead ==
    ASSUME Race!OneClient, RoundsInv, RecordFit, NEW c \in Clients, NEW r \in DOMAIN rounds, Race!ReadRound(c, r)
    PROVE  RecordFit'
<1>1. /\ rounds \in Seq(Round) /\ DOMAIN req = Clients /\ r \in 1..Len(rounds)
      /\ RowFits(exps, rounds[r])
  BY SMTT(30) DEF RoundsInv, RoundsFit, ArenaType
<1>2. rounds[r] \in Round /\ rounds[r].entries \in Seq(Entry)
  <2>1. rounds[r] \in Round
    BY <1>1
  <2>. QED  BY <2>1 DEF Round
<1>. DEFINE entries == rounds[r].entries
            seen == Race!Refreshed(entries)
            row == [rounds[r] EXCEPT !.entries = seen,
                       !.state = IF rounds[r].state = "running" /\ Race!AllTerminal(entries)
                                 THEN "completed" ELSE rounds[r].state]
            q == [op |-> "refresh", round |-> r, row |-> row]
<1>3. Len(seen) = Len(entries) /\ \A i \in 1..Len(entries) : seen[i].exp = entries[i].exp
  BY <1>1, <1>2, RefreshedFacts DEF RoundsInv, RowFits
<1>4. row.entries = seen
  BY <1>2 DEF Round
<1>5. /\ q.op = "refresh" /\ q.round = r /\ q.row = row /\ req[c] = Race!Idle
      /\ req' = [req EXCEPT ![c] = q] /\ rounds' = rounds /\ exps' = exps
  BY DEF Race!ReadRound
<1>. HIDE DEF q, row, seen
<1>6. \A e : InRow(row, e) <=> InRow(rounds[r], e)
  BY <1>3, <1>4 DEF InRow
<1>7. req'[c] = q /\ DOMAIN req' = Clients
  BY <1>1, <1>5
<1>8. \A e : ~Launches(req'[c], e) /\ ~Launches(req[c], e)
  BY <1>5, <1>7, IdleIsRequest DEF Launches
<1>9. \A e \in 1..Len(exps) : \E s \in 1..Len(rounds) : InRow(rounds[s], e)
  BY <1>8 DEF RecordFit, Race!OneClient
<1>10. \A e \in 1..Len(exps), s, t \in 1..Len(rounds) : InRow(rounds[s], e) /\ InRow(rounds[t], e) => s = t
  BY DEF RecordFit
<1>11. req'[c].op = "refresh" /\ \A e : InRow(req'[c].row, e) <=> InRow(rounds'[req'[c].round], e)
  BY <1>5, <1>6, <1>7
<1>. QED  BY <1>5, <1>7, <1>8, <1>9, <1>10, <1>11, OneRecord

LEMMA RecordInit ==
    ASSUME ArenaConstants, Race!Init
    PROVE  RoundsInv /\ RecordFit
<1>1. exps = <<>> /\ Len(exps) = 0 /\ rounds = <<>> /\ Len(rounds) = 0
  BY DEF Race!Init
<1>. QED  BY <1>1, RoundsInit DEF RecordFit

LEMMA RecordNext ==
    ASSUME ArenaConstants, Race!OneClient, "die" \notin Uses, RoundsInv, RecordFit, [Race!Next]_Race!vars
    PROVE  (RoundsInv /\ RecordFit)'
<1>. SUFFICES ASSUME RoundsInv, RecordFit, [Race!Next]_Race!vars PROVE RoundsInv' /\ RecordFit'
  OBVIOUS
<1>1. CASE \E c \in Clients : \/ Race!LaunchRound(c) \/ Race!LaunchVariant(c) \/ Race!RecordEntries(c) \/ Race!WriteRound(c)
                              \/ \E r \in DOMAIN rounds : Race!ReadRound(c, r)
  BY <1>1, RoundsNext, RecordLaunchRound, RecordLaunchVariant, RecordRecord, RecordWrite, RecordRead
<1>2. CASE ~ \E c \in Clients : \/ Race!LaunchRound(c) \/ Race!LaunchVariant(c) \/ Race!RecordEntries(c) \/ Race!WriteRound(c)
                                \/ \E r \in DOMAIN rounds : Race!ReadRound(c, r)
  BY <1>2, RoundsNext, RecordQuiet
<1>. QED  BY <1>1, <1>2

LEMMA RecordGives ==
    ASSUME RoundsInv, RecordFit
    PROVE  Race!LaunchedIsRecorded
<1>. SUFFICES ASSUME RoundsInv, RecordFit, NEW e \in DOMAIN exps \ Race!Launching
              PROVE  Cardinality({r \in DOMAIN rounds :
                        \E i \in DOMAIN rounds[r].entries : rounds[r].entries[i].exp = e}) = 1
  BY Counting DEF Race!LaunchedIsRecorded
<1>1. e \in 1..Len(exps) /\ DOMAIN rounds = 1..Len(rounds)
      /\ \A r \in 1..Len(rounds) : DOMAIN rounds[r].entries = 1..Len(rounds[r].entries)
  <2>1. exps \in Seq(Child) /\ rounds \in Seq(Round)
    BY DEF RoundsInv, ArenaType
  <2>2. \A r \in 1..Len(rounds) : rounds[r] \in Round
    BY <2>1
  <2>3. \A row \in Round : DOMAIN row.entries = 1..Len(row.entries)
    BY DEF Round
  <2>. QED  BY <2>1, <2>2, <2>3
<1>2. \A c \in Clients : ~Launches(req[c], e)
  <2>. SUFFICES ASSUME NEW c \in Clients, Launches(req[c], e) PROVE FALSE
    OBVIOUS
  <2>1. req[c] \in Launch /\ req[c].op = "launch"
    BY DEF RoundsInv, ArenaType, Request, Launches
  <2>2. DOMAIN req[c].entries = 1..Len(req[c].entries)
    BY <2>1 DEF Launch
  <2>. QED  BY <2>1, <2>2 DEF Launches, Race!Launching
<1>3. PICK r0 \in 1..Len(rounds) : InRow(rounds[r0], e)
  BY <1>1, <1>2 DEF RecordFit
<1>4. \A r \in 1..Len(rounds) : InRow(rounds[r], e) => r = r0
  BY <1>1, <1>3 DEF RecordFit
<1>5. {r \in DOMAIN rounds : \E i \in DOMAIN rounds[r].entries : rounds[r].entries[i].exp = e} = {r0}
  BY <1>1, <1>3, <1>4 DEF InRow
<1>. QED  BY <1>5, FS_Singleton

(* launch_round, with one caller whose requests are not cut off: an experiment *)
(* is in the round it was launched for, once its launch is over, and nowhere   *)
(* else.  RecordFit says where it is meanwhile, and that a look which is about *)
(* to write its round back holds the experiments the round has.                *)
THEOREM ExperimentsAreRecorded ==
    ASSUME ArenaConstants, Race!OneClient, "die" \notin Uses PROVE Race!Spec => []Race!LaunchedIsRecorded
<1>1. Race!Init => RoundsInv /\ RecordFit
  BY RecordInit
<1>2. RoundsInv /\ RecordFit /\ [Race!Next]_Race!vars => (RoundsInv /\ RecordFit)'
  BY RecordNext
<1>3. RoundsInv /\ RecordFit => Race!LaunchedIsRecorded
  BY RecordGives
<1>. QED  BY <1>1, <1>2, <1>3, PTL DEF Race!Spec

-----------------------------------------------------------------------------
LEMMA NoVariantIsNoRow == Race!NoVariant \notin VariantRow
BY DEF Race!NoVariant, VariantRow

LEMMA ReadyPrepare ==
    ASSUME ArenaType, ReadyFit, NEW v \in Variants, Race!Prepare(v)
    PROVE  ReadyFit'
<1>1. /\ variant \in [Variants -> VariantRow \cup {Race!NoVariant}]
      /\ tree \in [Variants -> [sha : Int, setup : BOOLEAN]]
      /\ thread \in [Variants -> {"none", "checkout", "setup", "marking", "finish", "failing"}]
      /\ \A u \in Variants : thread[u] # "none" => variant[u] \in VariantRow
  BY DEF ArenaType
<1>2. thread[v] # "none" /\ req' = req /\ variant[v] \in VariantRow
  BY <1>1 DEF Race!Prepare, Race!EnsureWorktree, Race!RunSetup, Race!MarkSetup, Race!FinishPreparing
<1>3. \A u \in Variants : u # v => variant'[u] = variant[u] /\ tree'[u] = tree[u] /\ thread'[u] = thread[u]
  BY <1>1 DEF Race!Prepare, Race!EnsureWorktree, Race!RunSetup, Race!MarkSetup, Race!FinishPreparing
<1>4. /\ variant[v].sha \in Nat /\ variant[v].setup \in BOOLEAN /\ ~variant[v].path
      /\ variant[v].state # "ready" /\ tree[v] \in [sha : Int, setup : BOOLEAN]
      /\ thread[v] \in {"setup", "marking", "finish"} => tree[v].sha = variant[v].sha
      /\ thread[v] = "finish" => Usable(v)
  BY <1>1, <1>2 DEF ReadyFit, VariantRow
<1>5. /\ variant'[v].sha = variant[v].sha /\ variant'[v].setup = variant[v].setup
      /\ thread'[v] # "none" => ~variant'[v].path /\ variant'[v].state # "ready"
      /\ thread'[v] \in {"setup", "marking", "finish"} => tree'[v].sha = variant'[v].sha
      /\ thread'[v] = "finish" \/ variant'[v].state = "ready" =>
            tree'[v].sha = variant'[v].sha /\ (variant'[v].setup => tree'[v].setup)
  <2>1. CASE Race!EnsureWorktree(v)
    <3>1. variant' = variant /\ thread'[v] \in {"setup", "failing"}
      BY <1>1, <2>1 DEF Race!EnsureWorktree
    <3>2. thread'[v] = "setup" => tree'[v].sha = variant[v].sha
      BY <1>1, <1>4, <2>1 DEF Race!EnsureWorktree
    <3>. QED  BY <1>4, <3>1, <3>2
  <2>2. CASE Race!RunSetup(v)
    <3>1. /\ variant' = variant /\ tree' = tree /\ thread[v] = "setup"
          /\ thread'[v] \in {"finish", "marking", "failing"}
          /\ thread'[v] = "finish" => ~variant[v].setup \/ tree[v].setup
      BY <1>1, <2>2 DEF Race!RunSetup
    <3>. QED  BY <1>4, <3>1
  <2>3. CASE Race!MarkSetup(v)
    <3>1. /\ variant' = variant /\ thread[v] = "marking" /\ thread'[v] \in {"finish", "none"}
          /\ thread'[v] = "finish" => tree' = [tree EXCEPT ![v].setup = TRUE]
      BY <1>1, <2>3 DEF Race!MarkSetup
    <3>2. thread'[v] = "finish" => tree'[v].sha = tree[v].sha /\ tree'[v].setup
      BY <1>1, <1>4, <3>1
    <3>. QED  BY <1>4, <3>1, <3>2
  <2>4. CASE Race!FinishPreparing(v)
    <3>1. /\ tree' = tree /\ thread'[v] = "none"
          /\ \/ thread[v] = "finish" /\ variant' = [variant EXCEPT ![v].state = "ready", ![v].path = TRUE]
             \/ variant' = [variant EXCEPT ![v].state = "failed"]
      BY <1>1, <2>4 DEF Race!FinishPreparing
    <3>2. /\ variant'[v].sha = variant[v].sha /\ variant'[v].setup = variant[v].setup
          /\ variant'[v].state = "ready" => thread[v] = "finish"
      BY <1>1, <1>2, <3>1 DEF VariantRow
    <3>. QED  BY <1>4, <3>1, <3>2 DEF Usable
  <2>. QED  BY <2>1, <2>2, <2>3, <2>4 DEF Race!Prepare
<1>6. \A u \in Variants : variant'[u] \in VariantRow =>
          /\ thread'[u] # "none" => ~variant'[u].path /\ variant'[u].state # "ready"
          /\ thread'[u] \in {"setup", "marking", "finish"} => tree'[u].sha = variant'[u].sha
          /\ thread'[u] = "finish" \/ variant'[u].state = "ready" =>
                tree'[u].sha = variant'[u].sha /\ (variant'[u].setup => tree'[u].setup)
  BY <1>3, <1>5 DEF ReadyFit, Usable
<1>7. \A c \in Clients, u \in Variants :
          req'[c].op = "cleanup" /\ req'[c].rows[u] \in VariantRow =>
             /\ req'[c].rows[u].sha = variant'[u].sha /\ req'[c].rows[u].setup = variant'[u].setup
             /\ thread'[u] # "none" => ~req'[c].rows[u].path
  BY <1>2, <1>3, <1>5 DEF ReadyFit
<1>. QED  BY <1>2, <1>6, <1>7 DEF ReadyFit, Usable

(* What a cleanup holds is what the variants are, or what another look had. *)
LEMMA ReadyFrame ==
    ASSUME ArenaType, ReadyFit, Elsewhere,
           \A d \in Clients : /\ req'[d].op # "gc"
                              /\ req'[d].op = "cleanup" =>
                                    \/ req'[d].rows = variant
                                    \/ req[d].op = "cleanup" /\ req'[d].rows = req[d].rows
    PROVE  ReadyFit'
<1>1. ASSUME NEW c \in Clients, NEW u \in Variants, req'[c].op = "cleanup", req'[c].rows[u] \in VariantRow
      PROVE  /\ req'[c].rows[u].sha = variant[u].sha /\ req'[c].rows[u].setup = variant[u].setup
             /\ thread[u] # "none" => ~req'[c].rows[u].path
  BY <1>1 DEF ReadyFit
<1>. QED  BY <1>1 DEF ReadyFit, Elsewhere, Usable

LEMMA ReadyLook ==
    ASSUME ArenaType, ReadyFit, "gc" \notin Uses, NEW c \in Clients,
           \/ Race!RegisterVariant(c) \/ Race!CountRound(c) \/ Race!PromoteWinner(c) \/ Race!ReadArena(c)
           \/ Race!ArchiveArena(c) \/ Race!Die(c) \/ Race!LaunchRound(c) \/ Race!LaunchVariant(c) \/ Race!RecordEntries(c)
           \/ Race!WriteRound(c) \/ \E r \in DOMAIN rounds : Race!ReadRound(c, r)
    PROVE  ReadyFit'
<1>1. DOMAIN req = Clients /\ \A d \in Clients : req[d].op # "gc"
  BY DEF ArenaType, ReadyFit
<1>2. Elsewhere
  BY DEF Elsewhere, Race!RegisterVariant, Race!CountRound, Race!PromoteWinner, Race!ReadArena, Race!ArchiveArena, Race!Die,
     Race!LaunchRound, Race!LaunchVariant, Race!RecordEntries, Race!WriteRound, Race!ReadRound
<1>3. req' = req \/ \E q : req' = [req EXCEPT ![c] = q] /\ q.op # "gc"
                              /\ (q.op = "cleanup" => q.rows = variant)
  <2>1. Race!Idle.op = "idle"
    BY DEF Race!Idle
  <2>2. CASE Race!RegisterVariant(c)
    <3>. DEFINE q == [op |-> "register"]
    <3>1. q.op = "register"
      OBVIOUS
    <3>. HIDE DEF q
    <3>2. req' = [req EXCEPT ![c] = q]
      BY <2>2 DEF Race!RegisterVariant, q
    <3>. QED  BY <3>1, <3>2
  <2>3. CASE Race!ReadArena(c)
    <3>. DEFINE q == [op |-> "cleanup", arena |-> arena, rows |-> variant, todo |-> Race!SetToSeq(Race!Registered)]
    <3>1. q.op = "cleanup" /\ q.rows = variant
      OBVIOUS
    <3>. HIDE DEF q
    <3>2. req' = [req EXCEPT ![c] = q]
      BY <2>3 DEF Race!ReadArena, q
    <3>. QED  BY <3>1, <3>2
  <2>4. CASE Race!LaunchRound(c)
    <3>1. PICK selected \in SUBSET Race!Registered :
            req' = [req EXCEPT ![c] = [op |-> "launch", round |-> Len(rounds) + 1, index |-> arena.round,
                                       entries |-> <<>>, todo |-> Race!SetToSeq(selected)]]
      BY <2>4 DEF Race!LaunchRound
    <3>. DEFINE q == [op |-> "launch", round |-> Len(rounds) + 1, index |-> arena.round,
                      entries |-> <<>>, todo |-> Race!SetToSeq(selected)]
    <3>2. q.op = "launch"
      OBVIOUS
    <3>. HIDE DEF q
    <3>3. req' = [req EXCEPT ![c] = q]
      BY <3>1 DEF q
    <3>. QED  BY <3>2, <3>3
  <2>5. CASE Race!LaunchVariant(c)
    <3>. DEFINE e == [variant |-> Head(req[c].todo), exp |-> Len(exps) + 1, status |-> "running"]
                q == [req[c] EXCEPT !.todo = Tail(req[c].todo), !.entries = Append(req[c].entries, e)]
    <3>1. req[c] \in Launch
      BY <2>5 DEF Race!LaunchVariant, ArenaType, Request
    <3>2. q.op = "launch"
      BY <3>1 DEF Launch
    <3>3. req' = [req EXCEPT ![c] = q]
      BY <2>5 DEF Race!LaunchVariant
    <3>. QED  BY <3>2, <3>3
  <2>6. CASE Race!RecordEntries(c)
    <3>. DEFINE q == [op |-> "count", index |-> req[c].index]
    <3>1. q.op = "count"
      OBVIOUS
    <3>. HIDE DEF q
    <3>2. req' = [req EXCEPT ![c] = q]
      BY <2>6 DEF Race!RecordEntries, q
    <3>. QED  BY <3>1, <3>2
  <2>7. ASSUME NEW r \in DOMAIN rounds, Race!ReadRound(c, r)
        PROVE  \E q : req' = [req EXCEPT ![c] = q] /\ q.op = "refresh"
    <3>. DEFINE row == [rounds[r] EXCEPT !.entries = Race!Refreshed(@),
                           !.state = IF @ = "running" /\ Race!AllTerminal(rounds[r].entries)
                                     THEN "completed" ELSE @]
                q == [op |-> "refresh", round |-> r, row |-> row]
    <3>1. q.op = "refresh"
      OBVIOUS
    <3>2. req' = [req EXCEPT ![c] = q]
      BY <2>7 DEF Race!ReadRound
    <3>. HIDE DEF q
    <3>. QED  BY <3>1, <3>2
  <2>8. CASE Race!CountRound(c) \/ Race!ArchiveArena(c) \/ Race!Die(c) \/ Race!WriteRound(c)
    BY <2>1, <2>8 DEF Race!CountRound, Race!ArchiveArena, Race!Die, Race!WriteRound
  <2>9. CASE Race!PromoteWinner(c)
    BY <2>9 DEF Race!PromoteWinner
  <2>. QED  BY <2>2, <2>3, <2>4, <2>5, <2>6, <2>7, <2>8, <2>9
<1>4. \A d \in Clients : /\ req'[d].op # "gc"
                         /\ req'[d].op = "cleanup" =>
                               \/ req'[d].rows = variant
                               \/ req[d].op = "cleanup" /\ req'[d].rows = req[d].rows
  BY <1>1, <1>3
<1>. QED  BY <1>2, <1>4, ReadyFrame

LEMMA ReadyPut ==
    ASSUME ArenaType, ReadyFit, NEW c \in Clients, Race!PutVariant(c)
    PROVE  ReadyFit'
<1>1. /\ variant \in [Variants -> VariantRow \cup {Race!NoVariant}] /\ DOMAIN req = Clients
      /\ thread \in [Variants -> {"none", "checkout", "setup", "marking", "finish", "failing"}]
      /\ \A d \in Clients : req[d].op = "cleanup" => ToRetire(req[d])
  BY DEF ArenaType
<1>2. PICK v \in Variants \ Race!Registered, setup \in {FALSE, "setup" \in Uses} :
        /\ variant' = [variant EXCEPT ![v] = [state |-> "preparing", sha |-> head, path |-> FALSE,
                                              setup |-> setup]]
        /\ thread' = [thread EXCEPT ![v] = "checkout"]
        /\ req' = [req EXCEPT ![c] = IF c \in CommandLine THEN [op |-> "exit", of |-> v] ELSE Race!Idle]
  BY DEF Race!PutVariant
<1>. DEFINE q == IF c \in CommandLine THEN [op |-> "exit", of |-> v] ELSE Race!Idle
<1>3. q.op \notin {"gc", "cleanup"}
  BY IdleIsRequest
<1>. HIDE DEF q
<1>4. /\ \A d \in Clients : req'[d] = req[d] \/ req'[d].op \notin {"gc", "cleanup"}
      /\ tree' = tree
  BY <1>1, <1>2, <1>3 DEF q, Race!PutVariant
<1>5. variant[v] \notin VariantRow
  BY <1>1, <1>2, NoVariantIsNoRow DEF Race!Registered
<1>6. /\ variant'[v].state = "preparing" /\ ~variant'[v].path /\ thread'[v] = "checkout"
      /\ \A u \in Variants : u # v => variant'[u] = variant[u] /\ thread'[u] = thread[u]
  BY <1>1, <1>2
<1>7. \A d \in Clients : req[d].op = "cleanup" => req[d].rows[v] \notin VariantRow
  BY <1>1, <1>2, <1>5 DEF ToRetire
<1>8. \A d \in Clients, u \in Variants :
          req'[d].op = "cleanup" /\ req'[d].rows[u] \in VariantRow =>
             /\ req'[d].rows[u].sha = variant'[u].sha /\ req'[d].rows[u].setup = variant'[u].setup
             /\ thread'[u] # "none" => ~req'[d].rows[u].path
  BY <1>4, <1>6, <1>7 DEF ReadyFit
<1>9. \A u \in Variants : variant'[u] \in VariantRow =>
          /\ thread'[u] # "none" => ~variant'[u].path /\ variant'[u].state # "ready"
          /\ thread'[u] \in {"setup", "marking", "finish"} => tree'[u].sha = variant'[u].sha
          /\ thread'[u] = "finish" \/ variant'[u].state = "ready" =>
                tree'[u].sha = variant'[u].sha /\ (variant'[u].setup => tree'[u].setup)
  BY <1>4, <1>6 DEF ReadyFit, Usable
<1>10. \A d \in Clients : req'[d].op # "gc"
  BY <1>4 DEF ReadyFit
<1>. QED  BY <1>8, <1>9, <1>10 DEF ReadyFit, Usable

LEMMA ReadyExit ==
    ASSUME ArenaType, ReadyFit, NEW c \in Clients, Race!ExitCommand(c)
    PROVE  ReadyFit'
<1>1. /\ DOMAIN req = Clients /\ UNCHANGED <<variant, tree>>
      /\ req' = [req EXCEPT ![c] = Race!Idle] /\ thread' = [thread EXCEPT ![req[c].of] = "none"]
      /\ thread \in [Variants -> {"none", "checkout", "setup", "marking", "finish", "failing"}]
  BY DEF ArenaType, Race!ExitCommand
<1>2. \A u \in Variants : thread'[u] = thread[u] \/ thread'[u] = "none"
  BY <1>1
<1>3. \A d \in Clients : req'[d] = req[d] \/ req'[d].op = "idle"
  BY <1>1, IdleIsRequest
<1>4. \A d \in Clients : req'[d].op # "gc"
  BY <1>3 DEF ReadyFit
<1>5. \A d \in Clients, u \in Variants :
          req'[d].op = "cleanup" /\ req'[d].rows[u] \in VariantRow =>
             /\ req'[d].rows[u].sha = variant'[u].sha /\ req'[d].rows[u].setup = variant'[u].setup
             /\ thread'[u] # "none" => ~req'[d].rows[u].path
  BY <1>1, <1>2, <1>3 DEF ReadyFit
<1>6. \A u \in Variants : variant'[u] \in VariantRow =>
          /\ thread'[u] # "none" => ~variant'[u].path /\ variant'[u].state # "ready"
          /\ thread'[u] \in {"setup", "marking", "finish"} => tree'[u].sha = variant'[u].sha
          /\ thread'[u] = "finish" \/ variant'[u].state = "ready" =>
                tree'[u].sha = variant'[u].sha /\ (variant'[u].setup => tree'[u].setup)
  BY <1>1, <1>2 DEF ReadyFit, Usable
<1>. QED  BY <1>4, <1>5, <1>6 DEF ReadyFit, Usable

LEMMA ReadyRetire ==
    ASSUME ArenaType, ReadyFit, NEW c \in Clients, Race!RetireVariant(c)
    PROVE  ReadyFit'
<1>1. /\ variant \in [Variants -> VariantRow \cup {Race!NoVariant}] /\ DOMAIN req = Clients
      /\ tree \in [Variants -> [sha : Int, setup : BOOLEAN]]
      /\ \A u \in Variants : thread[u] # "none" => variant[u] \in VariantRow
  BY DEF ArenaType
<1>2. req[c] \in Cleanup /\ req[c].op = "cleanup" /\ ToRetire(req[c]) /\ req[c].todo \in Seq(Variants)
      /\ req[c].todo # <<>>
  BY DEF ArenaType, Race!RetireVariant, Request, Cleanup
<1>. DEFINE v == Head(req[c].todo)
            old == req[c].rows[v]
            row == [old EXCEPT !.state = "retired"]
            q == [req[c] EXCEPT !.todo = Tail(req[c].todo)]
<1>3. v \in Variants /\ old \in VariantRow /\ variant[v] \in VariantRow
  BY <1>2 DEF ToRetire
<1>4. /\ row \in VariantRow /\ row.state = "retired" /\ row.path = old.path /\ row.sha = old.sha
      /\ row.setup = old.setup
  BY <1>3 DEF VariantRow
<1>5. q.op = "cleanup" /\ q.rows = req[c].rows
  BY <1>2 DEF Cleanup
<1>6. /\ variant' = [variant EXCEPT ![v] = row] /\ req' = [req EXCEPT ![c] = q] /\ thread' = thread
      /\ tree' = [tree EXCEPT ![v] = IF old.path THEN Race!NoTree ELSE tree[v]]
  BY DEF Race!RetireVariant
<1>7. /\ old.sha = variant[v].sha /\ old.setup = variant[v].setup
      /\ thread[v] # "none" => ~old.path
  BY <1>2, <1>3 DEF ReadyFit
<1>. HIDE DEF q, row, old, v
<1>8. /\ variant'[v] = row /\ tree'[v] = IF old.path THEN Race!NoTree ELSE tree[v]
      /\ \A u \in Variants : u # v => variant'[u] = variant[u] /\ tree'[u] = tree[u]
  BY <1>1, <1>3, <1>6
<1>9. \A d \in Clients : req'[d].op = req[d].op /\ (req'[d].op = "cleanup" => req'[d].rows = req[d].rows)
  BY <1>1, <1>2, <1>5, <1>6
<1>10. \A d \in Clients, u \in Variants :
          req'[d].op = "cleanup" /\ req'[d].rows[u] \in VariantRow =>
             /\ req'[d].rows[u].sha = variant'[u].sha /\ req'[d].rows[u].setup = variant'[u].setup
             /\ thread'[u] # "none" => ~req'[d].rows[u].path
  BY <1>4, <1>6, <1>7, <1>8, <1>9 DEF ReadyFit
<1>11. /\ thread[v] # "none" => ~row.path /\ row.state # "ready"
       /\ thread[v] \in {"setup", "marking", "finish"} => tree'[v].sha = row.sha
       /\ thread[v] = "finish" \/ row.state = "ready" =>
             tree'[v].sha = row.sha /\ (row.setup => tree'[v].setup)
  BY <1>3, <1>4, <1>7, <1>8 DEF ReadyFit, Usable
<1>12. \A u \in Variants : variant'[u] \in VariantRow =>
          /\ thread'[u] # "none" => ~variant'[u].path /\ variant'[u].state # "ready"
          /\ thread'[u] \in {"setup", "marking", "finish"} => tree'[u].sha = variant'[u].sha
          /\ thread'[u] = "finish" \/ variant'[u].state = "ready" =>
                tree'[u].sha = variant'[u].sha /\ (variant'[u].setup => tree'[u].setup)
  BY <1>6, <1>8, <1>11 DEF ReadyFit, Usable
<1>. QED  BY <1>9, <1>10, <1>12 DEF ReadyFit, Usable

LEMMA ReadyNext ==
    ASSUME RoundsInv, ReadyFit, "gc" \notin Uses, [Race!Next]_Race!vars PROVE ReadyFit'
<1>1. ArenaType
  BY DEF RoundsInv
<1>2. CASE UNCHANGED Race!vars
  BY <1>2 DEF Race!vars, ReadyFit, Usable
<1>3. CASE Race!MoveRef
  BY <1>3 DEF Race!MoveRef, ReadyFit, Usable
<1>4. ASSUME NEW e \in DOMAIN exps, Race!EndExperiment(e) PROVE ReadyFit'
  BY <1>4 DEF Race!EndExperiment, ReadyFit, Usable
<1>5. ASSUME NEW c \in Clients, Race!SweepWorktrees(c) \/ Race!GatherLivePaths(c) PROVE FALSE
  BY <1>5 DEF Race!SweepWorktrees, Race!GatherLivePaths, ReadyFit
<1>. QED  BY <1>1, <1>2, <1>3, <1>4, <1>5, ReadyPrepare, ReadyLook, ReadyPut, ReadyExit, ReadyRetire
         DEF Race!Next, Race!Proceed

LEMMA ReadyInit ==
    ASSUME ArenaConstants, Race!Init
    PROVE  RoundsInv /\ ReadyFit
<1>. QED  BY RoundsInit, IdleIsRequest, NoVariantIsNoRow DEF Race!Init, ReadyFit

LEMMA ReadyGives ==
    ASSUME RoundsInv, ReadyFit
    PROVE  Race!ReadyIsUsable
<1>1. ASSUME RoundsInv, NEW v \in Race!Registered PROVE v \in Variants /\ variant[v] \in VariantRow
  BY <1>1 DEF RoundsInv, ArenaType, Race!Registered
<1>. QED  BY <1>1 DEF ReadyFit, Usable, Race!ReadyIsUsable

(* _prepare_variant, whatever the callers do short of collecting orphans: who  *)
(* is ready has a directory at its commit, set up, unless it is being retired. *)
THEOREM ReadyVariantsAreUsable ==
    ASSUME ArenaConstants, "gc" \notin Uses PROVE Race!Spec => []Race!ReadyIsUsable
<1>1. Race!Init => RoundsInv /\ ReadyFit
  BY ReadyInit
<1>2. RoundsInv /\ ReadyFit /\ [Race!Next]_Race!vars => (RoundsInv /\ ReadyFit)'
  BY RoundsNext, ReadyNext
<1>3. RoundsInv /\ ReadyFit => Race!ReadyIsUsable
  BY ReadyGives
<1>. QED  BY <1>1, <1>2, <1>3, PTL DEF Race!Spec

-----------------------------------------------------------------------------
(* With one caller, its request is all there is to check.                    *)
LEMMA BudgetFrame ==
    ASSUME Race!OneClient, RoundsInv', NEW c \in Clients,
           \A r \in 1..Len(rounds') : rounds'[r].index = r - 1,
           Len(rounds') <= MaxRounds, Cardinality(Race!Registered') <= MaxVariants,
           Books(req'[c], arena', Len(rounds'), Cardinality(Race!Registered'))
    PROVE  BudgetFit'
<1>1. \A d \in Clients : d = c
  BY DEF Race!OneClient
<1>. QED  BY <1>1 DEF BudgetFit

(* Nobody is registered but by a registration, and nobody is forgotten. *)
LEMMA RegisteredStay ==
    ASSUME ArenaConstants, ArenaType, [Race!Next]_Race!vars,
           \A c \in Clients : ~Race!PutVariant(c)
    PROVE  Race!Registered' = Race!Registered
<1>1. variant \in [Variants -> VariantRow \cup {Race!NoVariant}]
  BY DEF ArenaType
<1>2. ASSUME NEW v \in Variants, Race!Prepare(v) PROVE Race!Registered' = Race!Registered
  <2>1. CASE Race!FinishPreparing(v)
    <3>1. variant[v] \in VariantRow
      BY <2>1 DEF ArenaType, Race!FinishPreparing
    <3>2. /\ [variant[v] EXCEPT !.state = "ready", !.path = TRUE] \in VariantRow
          /\ [variant[v] EXCEPT !.state = "failed"] \in VariantRow
      BY <3>1 DEF VariantRow
    <3>3. \E row \in VariantRow : variant' = [variant EXCEPT ![v] = row]
      BY <2>1, <3>2 DEF Race!FinishPreparing
    <3>4. variant[v] # Race!NoVariant /\ variant'[v] # Race!NoVariant
          /\ \A u \in Variants : u # v => variant'[u] = variant[u]
      BY <1>1, <3>1, <3>3, NoVariantIsNoRow
    <3>. QED  BY <3>4 DEF Race!Registered
  <2>. QED  BY <1>2, <2>1 DEF Race!Prepare, Race!EnsureWorktree, Race!RunSetup, Race!MarkSetup, Race!Registered
<1>3. ASSUME NEW c \in Clients, Race!RetireVariant(c) PROVE Race!Registered' = Race!Registered
  <2>1. req[c] \in Cleanup /\ ToRetire(req[c]) /\ req[c].todo \in Seq(Variants) /\ req[c].todo # <<>>
    BY <1>3 DEF ArenaType, Race!RetireVariant, Request, Cleanup
  <2>. DEFINE v == Head(req[c].todo)
              old == req[c].rows[v]
  <2>2. v \in Variants /\ old \in VariantRow /\ variant[v] \in VariantRow
    BY <2>1 DEF ToRetire
  <2>3. [old EXCEPT !.state = "retired"] \in VariantRow
    BY <2>2 DEF VariantRow
  <2>4. variant' = [variant EXCEPT ![v] = [old EXCEPT !.state = "retired"]]
    BY <1>3 DEF Race!RetireVariant
  <2>. HIDE DEF v, old
  <2>5. variant[v] # Race!NoVariant /\ variant'[v] # Race!NoVariant
        /\ \A u \in Variants : u # v => variant'[u] = variant[u]
    BY <1>1, <2>2, <2>3, <2>4, NoVariantIsNoRow
  <2>. QED  BY <2>5 DEF Race!Registered
<1>4. CASE variant' = variant
  BY <1>4 DEF Race!Registered
<1>. QED
  BY <1>2, <1>3, <1>4 DEF Race!Next, Race!vars, Race!Proceed, Race!MoveRef, Race!EndExperiment, Race!ExitCommand, Race!LaunchVariant,
     Race!RecordEntries, Race!CountRound, Race!WriteRound, Race!ArchiveArena, Race!SweepWorktrees, Race!RegisterVariant, Race!LaunchRound,
     Race!PromoteWinner, Race!ReadRound, Race!ReadArena, Race!GatherLivePaths, Race!Die

LEMMA BudgetPut ==
    ASSUME ArenaConstants, Race!OneClient, RoundsInv, RoundsInv', BudgetFit, NEW c \in Clients, Race!PutVariant(c)
    PROVE  BudgetFit'
<1>1. /\ variant \in [Variants -> VariantRow \cup {Race!NoVariant}] /\ DOMAIN req = Clients
      /\ req[c].op = "register" /\ UNCHANGED <<rounds, arena>>
  BY DEF RoundsInv, ArenaType, Race!PutVariant
<1>2. PICK v \in Variants \ Race!Registered, setup \in {FALSE, "setup" \in Uses} :
        /\ variant' = [variant EXCEPT ![v] = [state |-> "preparing", sha |-> head, path |-> FALSE,
                                              setup |-> setup]]
        /\ req' = [req EXCEPT ![c] = IF c \in CommandLine THEN [op |-> "exit", of |-> v] ELSE Race!Idle]
  BY DEF Race!PutVariant
<1>. DEFINE q == IF c \in CommandLine THEN [op |-> "exit", of |-> v] ELSE Race!Idle
            row == [state |-> "preparing", sha |-> head, path |-> FALSE, setup |-> setup]
<1>3. q.op \in {"exit", "idle"}
  BY IdleIsRequest
<1>4. row # Race!NoVariant
  <2>1. row.state = "preparing" /\ Race!NoVariant.state = "none"
    BY DEF Race!NoVariant
  <2>. QED  BY <2>1
<1>. HIDE DEF q, row
<1>5. variant' = [variant EXCEPT ![v] = row] /\ req' = [req EXCEPT ![c] = q]
  BY <1>2 DEF q, row
<1>6. Race!Registered' = Race!Registered \cup {v}
  <2>1. variant'[v] = row /\ \A u \in Variants : u # v => variant'[u] = variant[u]
    BY <1>1, <1>2, <1>5
  <2>. QED  BY <1>2, <1>4, <2>1 DEF Race!Registered
<1>7. IsFiniteSet(Race!Registered)
  BY FS_Subset DEF Race!Registered, ArenaConstants
<1>8. Cardinality(Race!Registered') = Cardinality(Race!Registered) + 1 /\ Cardinality(Race!Registered) \in Nat
  BY <1>2, <1>6, <1>7, FS_AddElement, FS_CardinalityType
<1>9. Cardinality(Race!Registered) < MaxVariants /\ arena.round = Len(rounds)
  BY <1>1 DEF BudgetFit, Books
<1>10. Cardinality(Race!Registered') <= MaxVariants
  BY <1>8, <1>9 DEF ArenaConstants
<1>11. req'[c] = q
  BY <1>1, <1>5
<1>12. Books(req'[c], arena', Len(rounds'), Cardinality(Race!Registered'))
  BY <1>1, <1>3, <1>9, <1>11 DEF Books
<1>13. Len(rounds') <= MaxRounds /\ \A r \in 1..Len(rounds') : rounds'[r].index = r - 1
  BY <1>1 DEF BudgetFit
<1>. QED  BY <1>10, <1>12, <1>13, BudgetFrame

(* The steps that neither start a launch nor go on with one. *)
LEMMA BudgetQuiet ==
    ASSUME ArenaConstants, Race!OneClient, RoundsInv, RoundsInv', BudgetFit, NEW c \in Clients, [Race!Next]_Race!vars,
           \/ Race!RegisterVariant(c) \/ Race!ExitCommand(c) \/ Race!PromoteWinner(c) \/ Race!ReadArena(c)
           \/ Race!RetireVariant(c) \/ Race!ArchiveArena(c) \/ Race!GatherLivePaths(c) \/ Race!SweepWorktrees(c)
    PROVE  BudgetFit'
<1>1. DOMAIN req = Clients /\ arena \in ArenaRow /\ ArenaType
  BY DEF RoundsInv, ArenaType
<1>2. UNCHANGED rounds /\ \A d \in Clients : ~Race!PutVariant(d)
  <2>1. UNCHANGED rounds /\ req[c].op # "register"
    BY IdleIsRequest DEF Race!RegisterVariant, Race!ExitCommand, Race!PromoteWinner, Race!ReadArena, Race!RetireVariant,
       Race!ArchiveArena, Race!GatherLivePaths, Race!SweepWorktrees
  <2>. QED  BY <2>1 DEF Race!OneClient, Race!PutVariant
<1>3. Race!Registered' = Race!Registered
  BY <1>1, <1>2, RegisteredStay
<1>4. /\ Len(rounds') <= MaxRounds /\ \A r \in 1..Len(rounds') : rounds'[r].index = r - 1
      /\ Cardinality(Race!Registered') <= MaxVariants
  BY <1>2, <1>3 DEF BudgetFit
<1>5. Books(req[c], arena, Len(rounds), Cardinality(Race!Registered))
  BY DEF BudgetFit
<1>6. CASE Race!RegisterVariant(c)
  <2>. DEFINE q == [op |-> "register"]
  <2>1. q.op = "register"
    OBVIOUS
  <2>. HIDE DEF q
  <2>2. req' = [req EXCEPT ![c] = q] /\ arena' = arena /\ req[c].op = "idle"
        /\ Cardinality(Race!Registered) < MaxVariants
    BY <1>6, IdleIsRequest, Counting DEF Race!RegisterVariant, q
  <2>3. Books(q, arena, Len(rounds), Cardinality(Race!Registered))
    BY <1>5, <2>1, <2>2 DEF Books
  <2>. QED  BY <1>1, <1>2, <1>3, <1>4, <2>2, <2>3, BudgetFrame
<1>7. CASE Race!PromoteWinner(c)
  <2>1. arena'.round = arena.round /\ req' = req /\ req[c].op = "idle"
    <3>1. PICK v \in Race!Registered : arena' = [arena EXCEPT !.winner = {v}, !.state = "completed"]
      BY <1>7 DEF Race!PromoteWinner
    <3>. QED  BY <1>1, <1>7, <3>1, IdleIsRequest DEF ArenaRow, Race!PromoteWinner
  <2>2. Books(req[c], arena', Len(rounds), Cardinality(Race!Registered))
    BY <1>5, <2>1 DEF Books
  <2>. QED  BY <1>2, <1>3, <1>4, <2>1, <2>2, BudgetFrame
<1>8. CASE Race!ReadArena(c)
  <2>. DEFINE q == [op |-> "cleanup", arena |-> arena, rows |-> variant, todo |-> Race!SetToSeq(Race!Registered)]
  <2>1. q.op = "cleanup" /\ q.arena = arena
    OBVIOUS
  <2>. HIDE DEF q
  <2>2. req' = [req EXCEPT ![c] = q] /\ arena' = arena /\ req[c].op = "idle"
    BY <1>8, IdleIsRequest DEF Race!ReadArena, q
  <2>3. Books(q, arena, Len(rounds), Cardinality(Race!Registered))
    BY <1>5, <2>1, <2>2 DEF Books
  <2>. QED  BY <1>1, <1>2, <1>3, <1>4, <2>2, <2>3, BudgetFrame
<1>9. CASE Race!RetireVariant(c)
  <2>. DEFINE q == [req[c] EXCEPT !.todo = Tail(req[c].todo)]
  <2>1. req[c].op = "cleanup" /\ req[c] \in Cleanup
    BY <1>1, <1>9 DEF Race!RetireVariant, ArenaType, Request
  <2>2. q.op = "cleanup" /\ q.arena = req[c].arena
    BY <2>1 DEF Cleanup
  <2>3. req' = [req EXCEPT ![c] = q] /\ arena' = arena
    BY <1>9 DEF Race!RetireVariant
  <2>. HIDE DEF q
  <2>4. Books(q, arena, Len(rounds), Cardinality(Race!Registered))
    BY <1>5, <2>1, <2>2 DEF Books
  <2>. QED  BY <1>1, <1>2, <1>3, <1>4, <2>3, <2>4, BudgetFrame
<1>10. CASE Race!ArchiveArena(c)
  <2>1. req[c].op = "cleanup" /\ req[c].arena \in ArenaRow
    BY <1>1, <1>10 DEF Race!ArchiveArena, ArenaType, Request, Cleanup
  <2>2. arena'.round = req[c].arena.round /\ req' = [req EXCEPT ![c] = Race!Idle]
    BY <1>10, <2>1 DEF Race!ArchiveArena, ArenaRow
  <2>3. Books(Race!Idle, arena', Len(rounds), Cardinality(Race!Registered))
    BY <1>5, <2>1, <2>2, IdleIsRequest DEF Books
  <2>. QED  BY <1>1, <1>2, <1>3, <1>4, <2>2, <2>3, BudgetFrame
<1>11. CASE Race!GatherLivePaths(c)
  <2>. DEFINE q == [op |-> "gc", live |-> {v \in Race!Registered : variant[v].path}]
  <2>1. q.op = "gc"
    OBVIOUS
  <2>. HIDE DEF q
  <2>2. req' = [req EXCEPT ![c] = q] /\ arena' = arena /\ req[c].op = "idle"
    BY <1>11, IdleIsRequest DEF Race!GatherLivePaths, q
  <2>3. Books(q, arena, Len(rounds), Cardinality(Race!Registered))
    BY <1>5, <2>1, <2>2 DEF Books
  <2>. QED  BY <1>1, <1>2, <1>3, <1>4, <2>2, <2>3, BudgetFrame
<1>12. CASE Race!ExitCommand(c) \/ Race!SweepWorktrees(c)
  <2>1. req' = [req EXCEPT ![c] = Race!Idle] /\ arena' = arena /\ req[c].op \in {"exit", "gc"}
    BY <1>12 DEF Race!ExitCommand, Race!SweepWorktrees
  <2>2. Books(Race!Idle, arena, Len(rounds), Cardinality(Race!Registered))
    BY <1>5, <2>1, IdleIsRequest DEF Books
  <2>. QED  BY <1>1, <1>2, <1>3, <1>4, <2>1, <2>2, BudgetFrame
<1>. QED  BY <1>6, <1>7, <1>8, <1>9, <1>10, <1>11, <1>12

LEMMA BudgetRounds ==
    ASSUME ArenaConstants, Race!OneClient, RoundsInv, RoundsInv', BudgetFit, NEW c \in Clients, [Race!Next]_Race!vars,
           \/ Race!LaunchRound(c) \/ Race!LaunchVariant(c) \/ Race!RecordEntries(c) \/ Race!CountRound(c)
           \/ Race!WriteRound(c) \/ \E r \in DOMAIN rounds : Race!ReadRound(c, r)
    PROVE  BudgetFit'
<1>1. /\ DOMAIN req = Clients /\ arena \in ArenaRow /\ ArenaType /\ rounds \in Seq(Round)
      /\ Len(rounds) \in Nat /\ arena.round \in Int /\ MaxRounds \in Nat
  BY DEF RoundsInv, ArenaType, ArenaRow, ArenaConstants
<1>2. \A d \in Clients : ~Race!PutVariant(d)
  <2>1. req[c].op # "register"
    BY IdleIsRequest DEF Race!LaunchRound, Race!LaunchVariant, Race!RecordEntries, Race!CountRound, Race!WriteRound, Race!ReadRound
  <2>. QED  BY <2>1 DEF Race!OneClient, Race!PutVariant
<1>3. Race!Registered' = Race!Registered
  BY <1>1, <1>2, RegisteredStay
<1>4. /\ Len(rounds) <= MaxRounds /\ \A r \in 1..Len(rounds) : rounds[r].index = r - 1
      /\ Cardinality(Race!Registered') <= MaxVariants
  BY <1>3 DEF BudgetFit
<1>5. Books(req[c], arena, Len(rounds), Cardinality(Race!Registered))
  BY DEF BudgetFit
<1>6. CASE Race!LaunchRound(c)
  <2>1. PICK selected \in SUBSET {v \in Race!Registered : variant[v].state = "ready"} :
          /\ rounds' = Append(rounds, [index |-> arena.round, state |-> "running",
                                       entries |-> [i \in 1..Cardinality(selected) |->
                                                      Race!Pending(Race!SetToSeq(selected)[i])]])
          /\ req' = [req EXCEPT ![c] = [op |-> "launch", round |-> Len(rounds) + 1,
                                        index |-> arena.round, entries |-> <<>>,
                                        todo |-> Race!SetToSeq(selected)]]
    BY <1>6, Counting DEF Race!LaunchRound
  <2>. DEFINE row == [index |-> arena.round, state |-> "running",
                      entries |-> [i \in 1..Cardinality(selected) |-> Race!Pending(Race!SetToSeq(selected)[i])]]
              q == [op |-> "launch", round |-> Len(rounds) + 1, index |-> arena.round,
                    entries |-> <<>>, todo |-> Race!SetToSeq(selected)]
  <2>2. row.index = arena.round /\ q.op = "launch" /\ q.index = arena.round
    OBVIOUS
  <2>. HIDE DEF row, q
  <2>3. rounds' = Append(rounds, row) /\ req' = [req EXCEPT ![c] = q]
    BY <2>1 DEF row, q
  <2>4. arena' = arena /\ req[c].op = "idle" /\ arena.round < MaxRounds /\ arena.round = Len(rounds)
    BY <1>5, <1>6, IdleIsRequest DEF Race!LaunchRound, Books
  <2>5. /\ Len(rounds') = Len(rounds) + 1 /\ rounds'[Len(rounds) + 1] = row
        /\ \A r \in 1..Len(rounds) : rounds'[r] = rounds[r]
    BY <1>1, <2>3
  <2>6. Len(rounds') <= MaxRounds /\ \A r \in 1..Len(rounds') : rounds'[r].index = r - 1
    BY <1>1, <1>4, <2>2, <2>4, <2>5, SMTT(30)
  <2>7. Books(q, arena, Len(rounds'), Cardinality(Race!Registered))
    BY <1>1, <2>2, <2>4, <2>5 DEF Books
  <2>. QED  BY <1>1, <1>3, <1>4, <2>3, <2>4, <2>6, <2>7, BudgetFrame
<1>7. CASE Race!LaunchVariant(c)
  <2>. DEFINE e == [variant |-> Head(req[c].todo), exp |-> Len(exps) + 1, status |-> "running"]
              q == [req[c] EXCEPT !.todo = Tail(req[c].todo), !.entries = Append(req[c].entries, e)]
  <2>1. req[c] \in Launch
    BY <1>1, <1>7 DEF Race!LaunchVariant, ArenaType, Request
  <2>2. q.op = req[c].op /\ q.index = req[c].index /\ req[c].op = "launch"
    BY <2>1 DEF Launch
  <2>3. req' = [req EXCEPT ![c] = q] /\ arena' = arena /\ rounds' = rounds
    BY <1>7 DEF Race!LaunchVariant
  <2>. HIDE DEF q
  <2>4. Books(q, arena, Len(rounds), Cardinality(Race!Registered))
    BY <1>5, <2>2 DEF Books
  <2>. QED  BY <1>1, <1>3, <1>4, <2>3, <2>4, BudgetFrame
<1>8. CASE Race!RecordEntries(c)
  <2>. DEFINE r0 == req[c].round
              row == [rounds[r0] EXCEPT !.entries = req[c].entries]
              q == [op |-> "count", index |-> req[c].index]
  <2>1. req[c].op = "launch" /\ r0 \in 1..Len(rounds) /\ rounds[r0] \in Round
    BY <1>1, <1>8 DEF Race!RecordEntries, RoundsInv, RoundsFit
  <2>2. row.index = rounds[r0].index
    BY <2>1 DEF Round
  <2>3. q.op = "count" /\ q.index = req[c].index
    OBVIOUS
  <2>4. rounds' = [rounds EXCEPT ![r0] = row] /\ req' = [req EXCEPT ![c] = q] /\ arena' = arena
    BY <1>8 DEF Race!RecordEntries
  <2>. HIDE DEF row, q, r0
  <2>5. Len(rounds') = Len(rounds)
        /\ \A r \in 1..Len(rounds) : rounds'[r] = IF r = r0 THEN row ELSE rounds[r]
    BY <1>1, <2>1, <2>4
  <2>6. Len(rounds') <= MaxRounds /\ \A r \in 1..Len(rounds') : rounds'[r].index = r - 1
    BY <1>4, <2>2, <2>5
  <2>7. Books(q, arena, Len(rounds), Cardinality(Race!Registered))
    BY <1>5, <2>1, <2>3 DEF Books
  <2>. QED  BY <1>1, <1>3, <1>4, <2>4, <2>5, <2>6, <2>7, BudgetFrame
<1>9. CASE Race!CountRound(c)
  <2>1. req[c].op = "count" /\ req[c].index \in Int
    BY <1>1, <1>9 DEF Race!CountRound, ArenaType, Request
  <2>2. arena'.round = req[c].index + 1 /\ req' = [req EXCEPT ![c] = Race!Idle] /\ rounds' = rounds
    BY <1>1, <1>9 DEF Race!CountRound, ArenaRow
  <2>3. Books(Race!Idle, arena', Len(rounds), Cardinality(Race!Registered))
    BY <1>1, <1>5, <2>1, <2>2, IdleIsRequest DEF Books
  <2>. QED  BY <1>1, <1>3, <1>4, <2>2, <2>3, BudgetFrame
<1>10. CASE Race!WriteRound(c)
  <2>. DEFINE r0 == req[c].round
              row == req[c].row
  <2>1. req[c].op = "refresh" /\ r0 \in 1..Len(rounds)
    BY <1>10 DEF Race!WriteRound, RoundsInv, RoundsFit
  <2>2. row.index = r0 - 1
    BY <1>5, <2>1 DEF Books
  <2>3. rounds' = [rounds EXCEPT ![r0] = row] /\ req' = [req EXCEPT ![c] = Race!Idle] /\ arena' = arena
    BY <1>10 DEF Race!WriteRound
  <2>. HIDE DEF row, r0
  <2>4. Len(rounds') = Len(rounds)
        /\ \A r \in 1..Len(rounds) : rounds'[r] = IF r = r0 THEN row ELSE rounds[r]
    BY <1>1, <2>1, <2>3
  <2>5. Len(rounds') <= MaxRounds /\ \A r \in 1..Len(rounds') : rounds'[r].index = r - 1
    BY <1>4, <2>2, <2>4
  <2>6. Books(Race!Idle, arena, Len(rounds), Cardinality(Race!Registered))
    BY <1>5, <2>1, IdleIsRequest DEF Books
  <2>. QED  BY <1>1, <1>3, <1>4, <2>3, <2>4, <2>5, <2>6, BudgetFrame
<1>11. ASSUME NEW r \in DOMAIN rounds, Race!ReadRound(c, r) PROVE BudgetFit'
  <2>. DEFINE row == [rounds[r] EXCEPT
                        !.entries = Race!Refreshed(rounds[r].entries),
                        !.state = IF rounds[r].state = "running" /\ Race!AllTerminal(rounds[r].entries)
                                  THEN "completed" ELSE rounds[r].state]
              q == [op |-> "refresh", round |-> r, row |-> row]
  <2>1. r \in 1..Len(rounds) /\ rounds[r] \in Round
    BY <1>1, <1>11
  <2>2. row.index = rounds[r].index
    BY <2>1 DEF Round
  <2>3. q.op = "refresh" /\ q.round = r /\ q.row = row
    OBVIOUS
  <2>4. req' = [req EXCEPT ![c] = q] /\ arena' = arena /\ rounds' = rounds /\ req[c].op = "idle"
    BY <1>11, IdleIsRequest DEF Race!ReadRound
  <2>. HIDE DEF q, row
  <2>5. Books(q, arena, Len(rounds), Cardinality(Race!Registered))
    BY <1>4, <1>5, <2>1, <2>2, <2>3, <2>4 DEF Books
  <2>. QED  BY <1>1, <1>3, <1>4, <2>4, <2>5, BudgetFrame
<1>. QED  BY <1>6, <1>7, <1>8, <1>9, <1>10, <1>11

LEMMA BudgetNext ==
    ASSUME ArenaConstants, Race!OneClient, "die" \notin Uses, RoundsInv, BudgetFit, [Race!Next]_Race!vars
    PROVE  BudgetFit'
<1>1. RoundsInv' /\ ArenaType
  BY RoundsNext DEF RoundsInv
<1>2. CASE UNCHANGED <<arena, rounds, req>> /\ \A c \in Clients : ~Race!PutVariant(c)
  BY <1>1, <1>2, RegisteredStay DEF BudgetFit
<1>3. Race!MoveRef \/ UNCHANGED Race!vars \/ (\E v \in Variants : Race!Prepare(v))
         \/ (\E e \in DOMAIN exps : Race!EndExperiment(e)) => UNCHANGED <<arena, rounds, req>>
  BY DEF Race!MoveRef, Race!vars, Race!Prepare, Race!EnsureWorktree, Race!RunSetup, Race!MarkSetup, Race!FinishPreparing, Race!EndExperiment
<1>4. ASSUME NEW c \in Clients, Race!Die(c) PROVE FALSE
  BY <1>4 DEF Race!Die
<1>. QED  BY <1>1, <1>2, <1>3, <1>4, BudgetPut, BudgetQuiet, BudgetRounds DEF Race!Next, Race!Proceed

LEMMA BudgetInit ==
    ASSUME ArenaConstants, Race!Init
    PROVE  RoundsInv /\ BudgetFit
<1>1. rounds = <<>> /\ Len(rounds) = 0 /\ arena.round = 0 /\ Race!Registered = {}
      /\ \A c \in Clients : req[c] = Race!Idle
  BY DEF Race!Init, Race!Registered
<1>2. Cardinality(Race!Registered) = 0
  BY <1>1, FS_EmptySet
<1>. QED  BY <1>1, <1>2, RoundsInit, IdleIsRequest DEF BudgetFit, Books, ArenaConstants

LEMMA BudgetGives ==
    ASSUME ArenaConstants, RoundsInv, BudgetFit
    PROVE  Race!WithinBudget
<1>1. DOMAIN rounds = 1..Len(rounds)
  BY DEF RoundsInv, ArenaType
<1>. QED  BY <1>1, Counting DEF BudgetFit, Race!WithinBudget

(* ArenaBudget (launch_round, register_variant), with one caller whose requests *)
(* are not cut off: the rounds are numbered without a gap and neither they nor  *)
(* the variants exceed the budget.                                              *)
THEOREM BudgetKept ==
    ASSUME ArenaConstants, Race!OneClient, "die" \notin Uses PROVE Race!Spec => []Race!WithinBudget
<1>1. Race!Init => RoundsInv /\ BudgetFit
  BY BudgetInit
<1>2. RoundsInv /\ BudgetFit /\ [Race!Next]_Race!vars => (RoundsInv /\ BudgetFit)'
  BY RoundsNext, BudgetNext
<1>3. RoundsInv /\ BudgetFit => Race!WithinBudget
  BY BudgetGives
<1>. QED  BY <1>1, <1>2, <1>3, PTL DEF Race!Spec

(* Everything that holds of the arena, as far as who calls it allows.          *)
RoundsSound ==
    /\ RoundsInv
    /\ "gc" \notin Uses => ReadyFit
    /\ Race!OneClient /\ "die" \notin Uses => RecordFit /\ BudgetFit

LEMMA SoundInit == ASSUME ArenaConstants, Race!Init PROVE RoundsSound
BY RoundsInit, RecordInit, ReadyInit, BudgetInit DEF RoundsSound

LEMMA SoundNext == ASSUME ArenaConstants, RoundsSound, [Race!Next]_Race!vars PROVE RoundsSound'
<1>1. RoundsInv'
  BY RoundsNext DEF RoundsSound
<1>2. "gc" \notin Uses => ReadyFit'
  BY ReadyNext DEF RoundsSound
<1>3. Race!OneClient /\ "die" \notin Uses => RecordFit' /\ BudgetFit'
  BY RecordNext, BudgetNext DEF RoundsSound
<1>4. Race!OneClient' = Race!OneClient
  BY DEF Race!OneClient
<1>. QED  BY <1>1, <1>2, <1>3, <1>4 DEF RoundsSound

LEMMA SoundGives == ASSUME ArenaConstants, RoundsSound PROVE Race!RoundsAreSound
BY RoundsGive, RecordGives, ReadyGives, BudgetGives DEF RoundsSound, Race!RoundsAreSound

(* The arena's promises together: whoever calls it, a closed round is over; a  *)
(* variant that is ready is usable unless orphans are collected; callers that  *)
(* wait for each other lose no experiment and keep the budget.                 *)
THEOREM RoundsStaySound == ASSUME ArenaConstants PROVE Race!Spec => []Race!RoundsAreSound
<1>1. Race!Init => RoundsSound
  BY SoundInit
<1>2. RoundsSound /\ [Race!Next]_Race!vars => RoundsSound'
  BY SoundNext
<1>3. RoundsSound => Race!RoundsAreSound
  BY SoundGives
<1>. QED  BY <1>1, <1>2, <1>3, PTL DEF Race!Spec

-----------------------------------------------------------------------------
(***************************************************************************)
(* The baseline of a dataset and the gate (Baselines): for any runs with   *)
(* their metrics, any thresholds and any number of clients.  BaseInv goes  *)
(* with any of them; TurnsInv is for clients that wait for each other,     *)
(* AnchorInv for runs that the command line waits for.                     *)
(***************************************************************************)
CONSTANTS
    Scopes, Iterations, Labels, Metrics, Over, Dataset, Offered, Serial, Drop, F1Drop, Rise,
    MaxVersion

VARIABLES pinned, completed, pc, job, seen, verdict

Base == INSTANCE Baselines WITH Clients <- Scopes, row <- pinned

Cell == [tp : Nat, fp : Nat, fn : Nat]

Headlines == {Metrics[i].primary : i \in Iterations}

Figures == [primary : Headlines, value : Int, error_rate : Int, confusion : [Labels -> Cell]]

PinnedRow == [iteration : Iterations, version : Nat, metrics : Figures, by : {"auto", "set"}]

Verdict == [iteration : Iterations, against : Iterations, regressed : BOOLEAN]

ClientAt == {"idle", "check", "load", "put", "write", "set_load", "set_put", "set_write"}

BaseConstants ==
    /\ \A i \in Iterations : Metrics[i] \in Figures
    /\ Drop \in Nat /\ F1Drop \in Nat /\ Rise \in Nat
    /\ None \notin Int \cup PinnedRow \cup Verdict

BaseType ==
    /\ pinned \in PinnedRow \cup {None}
    /\ completed \subseteq Iterations
    /\ pc \in [Scopes -> ClientAt]
    /\ job \in [Scopes -> Iterations \cup {None}]
    /\ seen \in [Scopes -> Nat]
    /\ verdict \in Verdict \cup {None}

(* Whoever is at work has an iteration to pin.                               *)
JobsAreRuns == \A c \in Scopes : pc[c] # "idle" => job[c] \in Iterations

(* The row holds the metrics of the iteration it names, and the last verdict *)
(* is the gate's on two iterations.                                          *)
RowIsItsRun == pinned # None => pinned.metrics = Metrics[pinned.iteration]
VerdictIsTheGates ==
    verdict # None =>
        (verdict.regressed <=>
            Base!evaluate_regression(Metrics[verdict.against], Metrics[verdict.iteration]))

BaseInv == BaseType /\ JobsAreRuns /\ RowIsItsRun /\ VerdictIsTheGates

(* One client at a time: the automatic path goes on as long as no row is there, and *)
(* whoever puts the row has seen the version that is there.                         *)
SawVersion(c) == seen[c] = IF pinned = None THEN 0 ELSE pinned.version

TurnsInv ==
    /\ \A c, d \in Scopes : pc[c] # "idle" /\ pc[d] # "idle" => c = d
    /\ \A c \in Scopes : pc[c] \in {"load", "put", "write"} => pinned = None
    /\ \A c \in Scopes : pc[c] \in {"put", "write", "set_put", "set_write"} => SawVersion(c)

(* A run that completed over the dataset left a row or somebody on the way to one. *)
AnchorInv ==
    (\E i \in completed : Over[i] = Dataset) =>
        pinned # None \/ \E c \in Scopes : pc[c] # "idle"

Awaited == Offered \cap {"http", "timeout"} = {}

-----------------------------------------------------------------------------
LEMMA BaseInit ==
    ASSUME BaseConstants, Base!Init
    PROVE  BaseInv /\ TurnsInv /\ AnchorInv
BY DEF Base!Init, BaseInv, BaseType, ClientAt, JobsAreRuns, RowIsItsRun, VerdictIsTheGates, TurnsInv, AnchorInv

LEMMA ClassFigure ==
    ASSUME NEW m \in Figures, NEW l \in Labels
    PROVE  Base!per_class_f1(m, l) \in Int \cup {None}
<1>1. m.confusion[l] \in Cell
  BY DEF Figures
<1>2. PICK c \in Cell : c = m.confusion[l]
  BY <1>1
<1>3. /\ c.tp \in Nat /\ c.fp \in Nat /\ c.fn \in Nat
  BY DEF Cell
<1>4. c.tp # 0 => (200 * c.tp) \div (2 * c.tp + c.fp + c.fn) \in Int
  BY <1>3
<1>. QED  BY <1>2, <1>4 DEF Base!per_class_f1

LEMMA CompletesStep ==
    ASSUME BaseConstants, BaseInv, NEW c \in Scopes, NEW i \in Iterations, Base!RunCompletes(c, i)
    PROVE  BaseInv'
BY DEF BaseInv, BaseType, ClientAt, JobsAreRuns, RowIsItsRun, VerdictIsTheGates, Base!RunCompletes, Base!Idle, Base!Step

LEMMA LooksStep ==
    ASSUME BaseConstants, BaseInv, NEW c \in Scopes,
           Base!maybe_autoset_baseline(c) \/ Base!load_baseline(c)
    PROVE  BaseInv'
<1>1. CASE Base!maybe_autoset_baseline(c)
  BY <1>1 DEF BaseInv, BaseType, ClientAt, JobsAreRuns, RowIsItsRun, VerdictIsTheGates,
     Base!maybe_autoset_baseline, Base!Step
<1>2. CASE Base!load_baseline(c)
  <2>1. (IF pinned = None THEN 0 ELSE pinned.version) \in Nat
    BY DEF BaseInv, BaseType, PinnedRow
  <2>2. seen' \in [Scopes -> Nat]
    BY <1>2, <2>1 DEF BaseInv, BaseType, Base!load_baseline
  <2>. QED  BY <1>2, <2>2 DEF BaseInv, BaseType, ClientAt, JobsAreRuns, RowIsItsRun, VerdictIsTheGates,
     Base!load_baseline, Base!Step
<1>. QED  BY <1>1, <1>2

LEMMA AsksStep ==
    ASSUME BaseConstants, BaseInv, NEW c \in Scopes, NEW i \in Iterations,
           Base!set_dataset_baseline(c, i)
    PROVE  BaseInv'
BY DEF BaseInv, BaseType, ClientAt, JobsAreRuns, RowIsItsRun, VerdictIsTheGates,
   Base!set_dataset_baseline, Base!Idle, Base!Step

(* What is put is the row of the iteration the client had to pin.            *)
LEMMA NewRow ==
    ASSUME BaseConstants, BaseInv, NEW c \in Scopes, pc[c] # "idle"
    PROVE  /\ Base!Row(c) \in PinnedRow
           /\ Base!Row(c).metrics = Metrics[Base!Row(c).iteration]
           /\ Base!Row(c).version = seen[c] + 1
           /\ pc[c] # "write" => Base!Row(c).by = "set"
<1>1. job[c] \in Iterations /\ seen[c] \in Nat /\ Metrics[job[c]] \in Figures
  BY DEF BaseInv, BaseType, ClientAt, JobsAreRuns, BaseConstants
<1>. QED  BY <1>1 DEF Base!Row, PinnedRow

LEMMA PutStep ==
    ASSUME BaseConstants, BaseInv, NEW c \in Scopes, Base!put_entity(c)
    PROVE  BaseInv'
<1>1. CASE Base!Leave(c)
  BY <1>1 DEF BaseInv, BaseType, ClientAt, JobsAreRuns, RowIsItsRun, VerdictIsTheGates,
     Base!put_entity, Base!Leave, Base!Step
<1>2. CASE /\ Base!Step(c, IF pc[c] = "put" THEN "write" ELSE "set_write")
           /\ UNCHANGED <<job, seen>>
  BY <1>2 DEF BaseInv, BaseType, ClientAt, JobsAreRuns, RowIsItsRun, VerdictIsTheGates,
     Base!put_entity, Base!Step
<1>. QED  BY <1>1, <1>2 DEF Base!put_entity

LEMMA WriteStep ==
    ASSUME BaseConstants, BaseInv, NEW c \in Scopes, Base!upsert(c)
    PROVE  BaseInv'
<1>1. pc[c] # "idle" /\ pinned' = Base!Row(c)
  BY DEF Base!upsert
<1>2. pinned' \in PinnedRow \cup {None} /\ RowIsItsRun'
  BY <1>1, NewRow DEF RowIsItsRun
<1>3. /\ job' = [job EXCEPT ![c] = None] /\ seen' = [seen EXCEPT ![c] = 0]
      /\ pc' = [pc EXCEPT ![c] = "idle"] /\ UNCHANGED <<completed, verdict>>
  BY DEF Base!upsert, Base!Leave, Base!Step
<1>4. BaseType' /\ JobsAreRuns'
  BY <1>2, <1>3 DEF BaseInv, BaseType, ClientAt, JobsAreRuns
<1>5. VerdictIsTheGates'
  BY <1>3 DEF BaseInv, VerdictIsTheGates
<1>. QED  BY <1>2, <1>4, <1>5 DEF BaseInv

LEMMA ChecksStep ==
    ASSUME BaseConstants, BaseInv, NEW c \in Scopes, NEW i \in Iterations,
           Base!run_regression_check(c, i)
    PROVE  BaseInv'
<1>1. pinned # None /\ UNCHANGED <<pinned, completed, pc, job, seen>>
  BY DEF Base!run_regression_check
<1>2. pinned \in PinnedRow /\ pinned.iteration \in Iterations /\ pinned.metrics = Metrics[pinned.iteration]
  BY <1>1 DEF BaseInv, BaseType, RowIsItsRun, PinnedRow
<1>. DEFINE answer == Base!evaluate_regression(pinned.metrics, Metrics[i])
<1>3. verdict' = [iteration |-> i, against |-> pinned.iteration, regressed |-> answer]
  BY DEF Base!run_regression_check
<1>4. answer \in BOOLEAN
  BY DEF Base!evaluate_regression
<1>5. answer <=> Base!evaluate_regression(Metrics[pinned.iteration], Metrics[i])
  BY <1>2
<1>. HIDE DEF answer
<1>6. verdict' \in Verdict
  BY <1>2, <1>3, <1>4 DEF Verdict
<1>7. /\ verdict'.against = pinned.iteration /\ verdict'.iteration = i
      /\ verdict'.regressed = answer
  BY <1>3
<1>8. VerdictIsTheGates'
  BY <1>5, <1>7 DEF VerdictIsTheGates
<1>. QED  BY <1>1, <1>6, <1>8 DEF BaseInv, BaseType, JobsAreRuns, RowIsItsRun

LEMMA BaseNext ==
    ASSUME BaseConstants, BaseInv, [Base!Next]_Base!vars
    PROVE  BaseInv'
<1>1. CASE UNCHANGED Base!vars
  BY <1>1 DEF Base!vars, BaseInv, BaseType, JobsAreRuns, RowIsItsRun, VerdictIsTheGates
<1>2. CASE Base!Next
  BY <1>2, CompletesStep, LooksStep, AsksStep, PutStep, WriteStep, ChecksStep DEF Base!Next
<1>. QED  BY <1>1, <1>2

-----------------------------------------------------------------------------
(* Only the upsert changes the row, and it takes none away.                  *)
LEMMA OnlyWritesWrite ==
    ASSUME [Base!Next]_Base!vars
    PROVE  pinned' = pinned \/ \E c \in Scopes : Base!upsert(c)
BY DEF Base!Next, Base!vars, Base!maybe_autoset_baseline, Base!load_baseline, Base!put_entity,
   Base!RunCompletes, Base!set_dataset_baseline, Base!run_regression_check

LEMMA KeepsRow ==
    ASSUME BaseConstants, BaseInv, [Base!Next]_Base!vars, pinned # None
    PROVE  pinned' # None
<1>1. ASSUME NEW c \in Scopes, Base!upsert(c) PROVE pinned' # None
  <2>1. pc[c] # "idle" /\ pinned' = Base!Row(c)
    BY <1>1 DEF Base!upsert
  <2>. QED  BY <2>1, NewRow DEF BaseConstants
<1>. QED  BY <1>1, OnlyWritesWrite

(* Nobody writes between the look of a client that has its turn and its write, which so raises *)
(* the version by one.                                                                         *)
LEMMA KeepsVersion ==
    ASSUME BaseConstants, BaseInv, TurnsInv, [Base!Next]_Base!vars
    PROVE  Base!VersionKeptOrRaised
<1>1. SUFFICES ASSUME pinned # None
               PROVE  pinned' # None /\ pinned'.version >= pinned.version
  BY DEF Base!VersionKeptOrRaised
<1>2. pinned.version \in Nat
  BY <1>1 DEF BaseInv, BaseType, PinnedRow
<1>3. ASSUME NEW c \in Scopes, Base!upsert(c)
      PROVE  pinned'.version >= pinned.version
  <2>1. pc[c] \in {"write", "set_write"} /\ pinned' = Base!Row(c)
    BY <1>3 DEF Base!upsert
  <2>2. seen[c] = pinned.version
    BY <1>1, <2>1 DEF TurnsInv, SawVersion
  <2>3. pinned'.version = seen[c] + 1
    BY <2>1, NewRow
  <2>. QED  BY <1>2, <2>2, <2>3
<1>4. pinned' = pinned => pinned'.version >= pinned.version
  BY <1>2
<1>. QED  BY <1>1, <1>3, <1>4, KeepsRow, OnlyWritesWrite

(* What a step does to the row and to who is at work.                        *)
LEMMA AnchorNext ==
    ASSUME BaseConstants, Awaited, BaseInv, AnchorInv, [Base!Next]_Base!vars
    PROVE  AnchorInv'
<1>0. pc \in [Scopes -> ClientAt]
  BY DEF BaseInv, BaseType
<1>1. pinned # None => pinned' # None
  BY KeepsRow
<1>2. CASE UNCHANGED Base!vars
  BY <1>2 DEF Base!vars, AnchorInv
<1>3. ASSUME NEW c \in Scopes, Base!maybe_autoset_baseline(c) PROVE AnchorInv'
  <2>1. /\ pinned' = pinned /\ completed' = completed
        /\ pc' = [pc EXCEPT ![c] = IF pinned = None THEN "load" ELSE "idle"]
    BY <1>3 DEF Base!maybe_autoset_baseline, Base!Step
  <2>2. pinned = None => pc'[c] # "idle"
    BY <1>0, <2>1
  <2>. QED  BY <2>1, <2>2 DEF AnchorInv
<1>4. ASSUME NEW c \in Scopes, Base!load_baseline(c) PROVE AnchorInv'
  <2>1. pinned' = pinned /\ completed' = completed /\ pc'[c] # "idle"
    BY <1>0, <1>4 DEF Base!load_baseline, Base!Step
  <2>. QED  BY <2>1 DEF AnchorInv
<1>5. ASSUME NEW c \in Scopes, Base!put_entity(c) PROVE AnchorInv'
  <2>1. pinned' = pinned /\ completed' = completed
    BY <1>5 DEF Base!put_entity
  <2>2. pinned = None => pc'[c] # "idle"
    BY <1>0, <1>5 DEF Base!put_entity, Base!Step
  <2>. QED  BY <2>1, <2>2 DEF AnchorInv
<1>9. ASSUME NEW c \in Scopes, Base!upsert(c) PROVE AnchorInv'
  <2>1. pc[c] # "idle" /\ pinned' = Base!Row(c)
    BY <1>9 DEF Base!upsert
  <2>2. pinned' # None
    BY <2>1, NewRow DEF BaseConstants
  <2>. QED  BY <2>2 DEF AnchorInv
<1>6. ASSUME NEW c \in Scopes, NEW i \in Iterations, Base!RunCompletes(c, i) PROVE AnchorInv'
  <2>1. CASE Over[i] = Dataset
    <3>1. pc' = [pc EXCEPT ![c] = "check"]
      BY <1>6, <2>1 DEF Base!RunCompletes, Awaited, Base!Step
    <3>2. pc'[c] # "idle"
      BY <1>0, <3>1
    <3>. QED  BY <3>2 DEF AnchorInv
  <2>2. CASE Over[i] # Dataset
    <3>1. UNCHANGED pc /\ pinned' = pinned /\ completed' = completed \cup {i}
      BY <1>6, <2>2 DEF Base!RunCompletes
    <3>. QED  BY <2>2, <3>1 DEF AnchorInv
  <2>. QED  BY <2>1, <2>2
<1>7. ASSUME NEW c \in Scopes, NEW i \in Iterations, Base!set_dataset_baseline(c, i) PROVE AnchorInv'
  <2>1. pinned' = pinned /\ completed' = completed /\ pc'[c] # "idle"
    BY <1>0, <1>7 DEF Base!set_dataset_baseline, Base!Step
  <2>. QED  BY <2>1 DEF AnchorInv
<1>8. ASSUME NEW c \in Scopes, NEW i \in Iterations, Base!run_regression_check(c, i) PROVE AnchorInv'
  BY <1>8 DEF Base!run_regression_check, AnchorInv
<1>. QED  BY <1>2, <1>3, <1>4, <1>5, <1>6, <1>7, <1>8, <1>9 DEF Base!Next

LEMMA TurnsNext ==
    ASSUME BaseConstants, Serial, BaseInv, TurnsInv, [Base!Next]_Base!vars
    PROVE  TurnsInv'
<1>0. pc \in [Scopes -> ClientAt]
  BY DEF BaseInv, BaseType
<1>1. CASE UNCHANGED Base!vars
  BY <1>1 DEF Base!vars, TurnsInv, SawVersion
<1>2. ASSUME NEW c \in Scopes, Base!maybe_autoset_baseline(c) PROVE TurnsInv'
  BY <1>0, <1>2 DEF Base!maybe_autoset_baseline, Base!Step, TurnsInv, SawVersion
<1>3. ASSUME NEW c \in Scopes, Base!load_baseline(c) PROVE TurnsInv'
  <2>1. /\ pc[c] \in {"load", "set_load"} /\ pinned' = pinned
        /\ pc' = [pc EXCEPT ![c] = IF pc[c] = "load" THEN "put" ELSE "set_put"]
        /\ seen' = [seen EXCEPT ![c] = IF pinned = None THEN 0 ELSE pinned.version]
    BY <1>3 DEF Base!load_baseline, Base!Step
  <2>2. seen'[c] = IF pinned = None THEN 0 ELSE pinned.version
    BY <2>1 DEF BaseInv, BaseType
  <2>3. \A d \in Scopes \ {c} : pc'[d] = "idle"
    BY <1>0, <2>1 DEF TurnsInv
  <2>4. pc[c] = "set_load" => pc'[c] = "set_put"
    BY <1>0, <2>1
  <2>. QED  BY <2>1, <2>2, <2>3, <2>4 DEF TurnsInv, SawVersion
<1>4. ASSUME NEW c \in Scopes, Base!Leave(c), pc[c] # "idle" PROVE TurnsInv'
  <2>1. pc' = [pc EXCEPT ![c] = "idle"]
    BY <1>4 DEF Base!Leave, Base!Step
  <2>2. \A d \in Scopes : pc'[d] = "idle"
    BY <1>0, <1>4, <2>1 DEF TurnsInv
  <2>. QED  BY <2>2 DEF TurnsInv
<1>7. ASSUME NEW c \in Scopes, Base!put_entity(c), ~Base!Leave(c) PROVE TurnsInv'
  <2>1. /\ pc[c] \in {"put", "set_put"} /\ UNCHANGED <<pinned, seen>>
        /\ pc' = [pc EXCEPT ![c] = IF pc[c] = "put" THEN "write" ELSE "set_write"]
    BY <1>7 DEF Base!put_entity, Base!Step
  <2>2. \A d \in Scopes \ {c} : pc'[d] = "idle"
    BY <1>0, <2>1 DEF TurnsInv
  <2>3. pc[c] = "set_put" => pc'[c] = "set_write"
    BY <1>0, <2>1
  <2>. QED  BY <2>1, <2>2, <2>3 DEF TurnsInv, SawVersion
<1>5. ASSUME NEW c \in Scopes, NEW i \in Iterations,
             Base!RunCompletes(c, i) \/ Base!set_dataset_baseline(c, i) PROVE TurnsInv'
  <2>1. \A d \in Scopes : pc[d] = "idle"
    BY <1>5 DEF Base!RunCompletes, Base!set_dataset_baseline, Base!Idle
  <2>2. PICK to \in {"idle", "check", "set_load"} : pc' = [pc EXCEPT ![c] = to]
    <3>1. pc = [pc EXCEPT ![c] = "idle"]
      BY <1>0, <2>1
    <3>. QED  BY <1>5, <3>1 DEF Base!RunCompletes, Base!set_dataset_baseline, Base!Step
  <2>. QED  BY <1>0, <2>1, <2>2 DEF TurnsInv
<1>6. ASSUME NEW c \in Scopes, NEW i \in Iterations, Base!run_regression_check(c, i) PROVE TurnsInv'
  BY <1>6 DEF Base!run_regression_check, TurnsInv, SawVersion
<1>. QED  BY <1>1, <1>2, <1>3, <1>4, <1>5, <1>6, <1>7 DEF Base!Next, Base!put_entity, Base!upsert

LEMMA ByHandOnly ==
    ASSUME BaseConstants, BaseInv, TurnsInv, [Base!Next]_Base!vars
    PROVE  Base!OverwrittenByHand
<1>1. SUFFICES ASSUME pinned # None, pinned' # pinned PROVE pinned'.by = "set"
  BY DEF Base!OverwrittenByHand
<1>2. PICK c \in Scopes : Base!upsert(c)
  BY <1>1, OnlyWritesWrite
<1>3. pc[c] \in {"write", "set_write"} /\ pinned' = Base!Row(c)
  BY <1>2 DEF Base!upsert
<1>4. pc[c] # "write"
  BY <1>1 DEF TurnsInv
<1>. QED  BY <1>3, <1>4, NewRow

-----------------------------------------------------------------------------
(* The gate.                                                                 *)
LEMMA GatePasses ==
    ASSUME BaseConstants, BaseInv
    PROVE  Base!SelfCheckPasses
<1>1. SUFFICES ASSUME pinned # None
               PROVE  ~Base!evaluate_regression(pinned.metrics, Metrics[pinned.iteration])
  BY DEF Base!SelfCheckPasses
<1>2. pinned \in PinnedRow
  BY <1>1 DEF BaseInv, BaseType
<1>3. PICK m \in Figures : m = pinned.metrics /\ m = Metrics[pinned.iteration]
  BY <1>1, <1>2 DEF PinnedRow, BaseInv, RowIsItsRun
<1>4. m.value \in Int /\ m.error_rate \in Int
  BY DEF Figures
<1>5. ~Base!PrimaryRegressed(m, m) /\ ~Base!ErrorRegressed(m, m)
  BY <1>4 DEF Base!PrimaryRegressed, Base!ErrorRegressed, BaseConstants
<1>6. ASSUME NEW l \in Labels PROVE ~Base!LabelRegressed(m, m, l)
  <2>1. PICK f \in Int \cup {None} : f = Base!per_class_f1(m, l)
    BY ClassFigure
  <2>2. f \in Int => ~(f < f - F1Drop)
    BY DEF BaseConstants
  <2>. QED  BY <2>1, <2>2 DEF Base!LabelRegressed
<1>. QED  BY <1>3, <1>5, <1>6 DEF Base!evaluate_regression

LEMMA GateRises ==
    ASSUME BaseConstants, BaseInv
    PROVE  Base!GateIsMonotone
<1>1. SUFFICES ASSUME NEW i \in completed, NEW j \in completed,
                      pinned # None, Base!NoWorse(Metrics[i], Metrics[j]),
                      \A l \in Labels : (Base!per_class_f1(Metrics[i], l) = None)
                                           = (Base!per_class_f1(Metrics[j], l) = None),
                      ~Base!evaluate_regression(pinned.metrics, Metrics[j])
               PROVE  ~Base!evaluate_regression(pinned.metrics, Metrics[i])
  BY DEF Base!GateIsMonotone
<1>2. PICK a \in Figures, b \in Figures, m \in Figures :
         a = Metrics[i] /\ b = Metrics[j] /\ m = pinned.metrics
  BY <1>1 DEF BaseInv, BaseType, PinnedRow, BaseConstants
<1>3. /\ a.value \in Int /\ a.error_rate \in Int /\ b.value \in Int /\ b.error_rate \in Int
      /\ m.value \in Int /\ m.error_rate \in Int /\ Drop \in Nat /\ Rise \in Nat /\ F1Drop \in Nat
  BY DEF Figures, BaseConstants
<1>4. /\ a.primary = b.primary /\ a.value >= b.value /\ a.error_rate <= b.error_rate
      /\ ~Base!PrimaryRegressed(m, b) /\ ~Base!ErrorRegressed(m, b)
  BY <1>1, <1>2 DEF Base!NoWorse, Base!evaluate_regression
<1>5. ~Base!PrimaryRegressed(m, a) /\ ~Base!ErrorRegressed(m, a)
  BY <1>3, <1>4 DEF Base!PrimaryRegressed, Base!ErrorRegressed
<1>6. ASSUME NEW l \in Labels PROVE ~Base!LabelRegressed(m, a, l)
  <2>1. PICK f \in Int \cup {None}, g \in Int \cup {None}, h \in Int \cup {None} :
          /\ f = Base!per_class_f1(m, l) /\ g = Base!per_class_f1(b, l)
          /\ h = Base!per_class_f1(a, l)
    BY ClassFigure
  <2>2. (h = None <=> g = None) /\ (g # None => h >= g)
    BY <1>1, <1>2, <2>1 DEF Base!NoWorse
  <2>3. ~(f # None /\ g # None /\ g < f - F1Drop)
    BY <1>1, <1>2, <2>1 DEF Base!evaluate_regression, Base!LabelRegressed
  <2>4. ~(f # None /\ h # None /\ h < f - F1Drop)
    BY <1>3, <2>1, <2>2, <2>3
  <2>. QED  BY <2>1, <2>4 DEF Base!LabelRegressed
<1>. QED  BY <1>2, <1>5, <1>6 DEF Base!evaluate_regression

LEMMA GateSeesClasses ==
    ASSUME BaseConstants, BaseInv
    PROVE  Base!ClassDropFails
<1>1. SUFFICES ASSUME verdict # None, ~verdict.regressed, NEW l \in Labels,
                      Base!per_class_f1(Metrics[verdict.against], l) # None,
                      Base!per_class_f1(Metrics[verdict.iteration], l) # None
               PROVE  Base!per_class_f1(Metrics[verdict.iteration], l)
                        >= Base!per_class_f1(Metrics[verdict.against], l) - F1Drop
  BY DEF Base!ClassDropFails
<1>2. PICK a \in Figures, b \in Figures :
         a = Metrics[verdict.against] /\ b = Metrics[verdict.iteration]
  BY <1>1 DEF BaseInv, BaseType, Verdict, BaseConstants
<1>3. PICK f \in Int \cup {None}, g \in Int \cup {None} :
         f = Base!per_class_f1(a, l) /\ g = Base!per_class_f1(b, l)
  BY ClassFigure
<1>4. ~Base!LabelRegressed(a, b, l)
  BY <1>1, <1>2 DEF BaseInv, VerdictIsTheGates, Base!evaluate_regression
<1>5. ~(g < f - F1Drop) /\ f \in Int /\ g \in Int
  BY <1>1, <1>2, <1>3, <1>4 DEF Base!LabelRegressed
<1>. QED  BY <1>2, <1>3, <1>5 DEF BaseConstants

LEMMA AnchorGives == ASSUME AnchorInv PROVE Base!CompletedRunIsAnchored
BY DEF AnchorInv, Base!CompletedRunIsAnchored

(* However many clients read and write the row of a dataset, the gate passes the run the row was  *)
(* copied from and whatever is no worse than a run it passed, and it fails a class that fell      *)
(* (set_baseline, evaluate_regression).                                                           *)
THEOREM GateIsSound ==
    ASSUME BaseConstants
    PROVE  Base!Spec => [](Base!SelfCheckPasses /\ Base!GateIsMonotone /\ Base!ClassDropFails)
<1>1. Base!Init => BaseInv
  BY BaseInit
<1>2. BaseInv /\ [Base!Next]_Base!vars => BaseInv'
  BY BaseNext
<1>3. BaseInv => Base!SelfCheckPasses /\ Base!GateIsMonotone /\ Base!ClassDropFails
  BY GatePasses, GateRises, GateSeesClasses
<1>. QED  BY <1>1, <1>2, <1>3, PTL DEF Base!Spec

(* A dataset some awaited run has completed over has a baseline once nobody is at work, whoever   *)
(* lost a race for it (maybe_autoset_baseline).                                                   *)
THEOREM RunsAreAnchored ==
    ASSUME BaseConstants, Awaited
    PROVE  Base!Spec => []Base!CompletedRunIsAnchored
<1>. DEFINE I == BaseInv /\ AnchorInv
<1>1. Base!Init => I
  BY BaseInit
<1>2. I /\ [Base!Next]_Base!vars => I'
  BY BaseNext, AnchorNext
<1>3. I => Base!CompletedRunIsAnchored
  BY AnchorGives
<1>. QED  BY <1>1, <1>2, <1>3, PTL DEF Base!Spec

(* With one client at a time a baseline is replaced by an explicit request only, and no write     *)
(* takes its version back (maybe_autoset_baseline: "never silently overwritten"; put_entity).     *)
THEOREM ReplacedByHand ==
    ASSUME BaseConstants, Serial
    PROVE  Base!Spec => Base!AutoNeverOverwrites /\ Base!VersionsNeverFall
<1>. DEFINE I == BaseInv /\ TurnsInv
<1>1. Base!Init => I
  BY BaseInit
<1>2. I /\ [Base!Next]_Base!vars => I'
  BY BaseNext, TurnsNext
<1>3. I /\ [Base!Next]_Base!vars => [Base!OverwrittenByHand]_Base!vars
  BY ByHandOnly
<1>4. I /\ [Base!Next]_Base!vars => [Base!VersionKeptOrRaised]_Base!vars
  BY KeepsVersion
<1>. QED  BY <1>1, <1>2, <1>3, <1>4, PTL DEF Base!Spec, Base!AutoNeverOverwrites, Base!VersionsNeverFall
=============================================================================
