------------------------ MODULE SessionSafetyProofs ------------------------
(***************************************************************************)
(* The safety of a governed session for any tickets, plans and repository:  *)
(* the decision gate, the plan a decision is taken on, what /continue does  *)
(* with open gates and requested rework, and the authority to implement.    *)
(*                                                                         *)
(* None of these is inductive.  DecisionGateClosed: /ticket re-executes the *)
(* kernel without looking at the Gates map again, so what the map says of   *)
(* the conditional gates must already agree with what the kernel's          *)
(* prerequisites ask; and a Phase-6 session must not advertise a lower      *)
(* phase, which a rejection could only do if its decision survived until    *)
(* Phase 6.  The others take why the kernel comes to a gate (GateReasons)   *)
(* and what one /continue can do to a session (Shape); each has its         *)
(* strengthening where it is proved: RecordSound, ReworkSound, Backed.      *)
(***************************************************************************)
EXTENDS GovernanceSessionProofs

\* The conditional gates hold values of theirs, and once P5.5 is settled, P5.4
\* and P5.6 are closed whenever can_promote_to_phase6 does not ask for more.
GatesSettled(gates, f) ==
    /\ gates["P5.4-BusinessRules"] \in {"pending", "compliant", "gap-detected", "not-applicable"}
    /\ gates["P5.6-RollbackSafety"] \in {"pending", "approved", "rejected", "not-applicable"}
    /\ gates["P5.6-RollbackSafety"] = "rejected" => RollbackSafetyApplies(f)
    /\ gates["P5.5-TechnicalDebt"] # "pending" =>
          /\ (BusinessRulesExecuted(f) => P54Status(gates, f) \in TerminalValues("P5.4-BusinessRules"))
                => gates["P5.4-BusinessRules"] \in TerminalValues("P5.4-BusinessRules")
          /\ ~RollbackSafetyApplies(f)
                => gates["P5.6-RollbackSafety"] \in TerminalValues("P5.6-RollbackSafety")

\* The strengthened invariant, of a session s.
DecisionSound(s, f) ==
    /\ AtEvidenceGate(s) => s.phase = "6" /\ CanPromote(s.gates, f) /\ OpenGates(s.gates) = {}
    /\ s.phase = "6" => s.next = "6"
    /\ s.decision = "reject" => s.phase \in {"4", "5"} /\ ~s.evidence
    /\ GatesSettled(s.gates, f)

DecisionInv == DecisionSound(st, facts)

-----------------------------------------------------------------------------
(* The Gates map. *)

\* A settled map that allows Phase 6 has no open gate left.
LEMMA PromotableIsClosed ==
    ASSUME NEW gates, NEW f, GatesSettled(gates, f), CanPromote(gates, f)
    PROVE  OpenGates(gates) = {}
<1>1. /\ gates["P5-Architecture"] \in TerminalValues("P5-Architecture")
      /\ gates["P5.3-TestQuality"] \in TerminalValues("P5.3-TestQuality")
      /\ gates["P5.5-TechnicalDebt"] \in TerminalValues("P5.5-TechnicalDebt")
  BY DEF CanPromote, TerminalValues
<1>2. gates["P5.5-TechnicalDebt"] # "pending"
  BY <1>1 DEF TerminalValues
<1>3. gates["P5.4-BusinessRules"] \in TerminalValues("P5.4-BusinessRules")
  BY <1>2 DEF CanPromote, GatesSettled
<1>4. gates["P5.6-RollbackSafety"] \in TerminalValues("P5.6-RollbackSafety")
  BY <1>2 DEF CanPromote, GatesSettled
<1>5. \A g \in P5Gates : gates[g] \in TerminalValues(g)
  BY <1>1, <1>3, <1>4 DEF P5Gates
<1> QED
  BY <1>5 DEF OpenGates

\* _auto_propagate_gates keeps a settled map settled and a promotable one
\* promotable.
LEMMA PropagateKeeps ==
    ASSUME NEW gates \in GateMap, NEW r, NEW f
    PROVE  /\ GatesSettled(gates, f) => GatesSettled(Propagate(gates, r), f)
           /\ CanPromote(gates, f) => CanPromote(Propagate(gates, r), f)
<1> DEFINE g == Propagate(gates, r)
<1>1. /\ g["P5.4-BusinessRules"] = gates["P5.4-BusinessRules"]
      /\ g["P5.5-TechnicalDebt"] = gates["P5.5-TechnicalDebt"]
      /\ g["P5.6-RollbackSafety"] = gates["P5.6-RollbackSafety"]
      /\ gates["P5-Architecture"] = "approved" => g["P5-Architecture"] = "approved"
      /\ gates["P5.3-TestQuality"] # "pending" => g["P5.3-TestQuality"] = gates["P5.3-TestQuality"]
  BY DEF Propagate, P5Gates
<1> HIDE DEF g
<1>2. P54Status(g, f) = P54Status(gates, f)
  BY <1>1 DEF P54Status
<1>3. GatesSettled(gates, f) => GatesSettled(g, f)
  BY <1>1, <1>2 DEF GatesSettled
<1>4. CanPromote(gates, f) => CanPromote(g, f)
  BY <1>1, <1>2 DEF CanPromote, TerminalValues
<1> QED
  BY <1>3, <1>4 DEF g

\* So does sync_conditional_p5_gate_states.
LEMMA SyncKeeps ==
    ASSUME NEW s \in SessionState, facts \in Facts, GatesSettled(s.gates, facts)
    PROVE  /\ GatesSettled(SyncGates(s).gates, facts)
           /\ CanPromote(s.gates, facts) => CanPromote(SyncGates(s).gates, facts)
<1> DEFINE old == s.gates
           new == SyncGates(s).gates
<1>1. /\ new["P5-Architecture"] = old["P5-Architecture"]
      /\ new["P5.3-TestQuality"] = old["P5.3-TestQuality"]
      /\ new["P5.4-BusinessRules"] =
            IF /\ old["P5.4-BusinessRules"] \in {"pending", "gap-detected"}
               /\ P54Status(old, facts) # "pending"
            THEN P54Status(old, facts) ELSE old["P5.4-BusinessRules"]
      /\ new["P5.5-TechnicalDebt"] =
            IF old["P5.5-TechnicalDebt"] = "pending" THEN P55Status(old, facts)
            ELSE old["P5.5-TechnicalDebt"]
      /\ new["P5.6-RollbackSafety"] =
            IF old["P5.6-RollbackSafety"] = "pending" THEN P56Status(old, facts)
            ELSE old["P5.6-RollbackSafety"]
  BY DEF SyncGates, P5Gates, SessionState
<1>2. GatesSettled(old, facts)
  OBVIOUS
<1> HIDE DEF old, new
<1>3. /\ new["P5.4-BusinessRules"] \in {"pending", "compliant", "gap-detected", "not-applicable"}
      /\ P54Status(old, facts) # "pending"
            => new["P5.4-BusinessRules"] \in {P54Status(old, facts), "compliant", "not-applicable"}
  BY <1>1, <1>2 DEF GatesSettled, P54Status, Facts, BusinessRulesExecuted
<1>4. /\ new["P5.6-RollbackSafety"] \in {"pending", "approved", "rejected", "not-applicable"}
      /\ new["P5.6-RollbackSafety"] = "rejected" => RollbackSafetyApplies(facts)
      /\ ~RollbackSafetyApplies(facts)
            => new["P5.6-RollbackSafety"] \in {"approved", "not-applicable"}
  BY <1>1, <1>2 DEF GatesSettled, P56Status, Facts, RollbackSafetyApplies
<1>5. (BusinessRulesExecuted(facts) => P54Status(new, facts) \in TerminalValues("P5.4-BusinessRules"))
         => new["P5.4-BusinessRules"] \in TerminalValues("P5.4-BusinessRules")
  BY <1>1, <1>2, <1>3 DEF GatesSettled, P54Status, Facts, BusinessRulesExecuted, TerminalValues
<1>6. GatesSettled(new, facts)
  BY <1>3, <1>4, <1>5 DEF GatesSettled, TerminalValues
<1>7. P54Status(old, facts) \in TerminalValues("P5.4-BusinessRules")
         => P54Status(new, facts) \in TerminalValues("P5.4-BusinessRules")
  BY <1>1, <1>2 DEF GatesSettled, P54Status, Facts, BusinessRulesExecuted, TerminalValues
<1>8. CanPromote(old, facts) => CanPromote(new, facts)
  BY <1>1, <1>7 DEF CanPromote, TerminalValues
<1> QED
  BY <1>6, <1>8 DEF old, new

-----------------------------------------------------------------------------
(* The steps of /continue. *)

\* The review loop touches none of the fields the invariant speaks of, nor
\* does the synchronisation of the gates touch any but the map.
LEMMA LoopKeeps ==
    ASSUME NEW s1 \in ReviewLoop(st), st \in SessionState
    PROVE  /\ s1.phase = st.phase /\ s1.next = st.next /\ s1.gate = st.gate
           /\ s1.gates = st.gates /\ s1.evidence = st.evidence /\ s1.decision = st.decision
<1>1. ASSUME NEW v
      PROVE  /\ AfterLoop(st, v).phase = st.phase /\ AfterLoop(st, v).next = st.next
             /\ AfterLoop(st, v).gate = st.gate /\ AfterLoop(st, v).gates = st.gates
             /\ AfterLoop(st, v).evidence = st.evidence
             /\ AfterLoop(st, v).decision = st.decision
  BY DEF AfterLoop, SessionState
<1> QED
  BY <1>1 DEF ReviewLoop

LEMMA SyncFrame ==
    ASSUME NEW s \in SessionState
    PROVE  /\ SyncGates(s).phase = s.phase /\ SyncGates(s).next = s.next
           /\ SyncGates(s).gate = s.gate /\ SyncGates(s).evidence = s.evidence
           /\ SyncGates(s).decision = s.decision
  BY DEF SyncGates, SessionState

\* What a session looks like once a result of the kernel is materialised.
LEMMA MaterializeFrame ==
    ASSUME NEW s \in SessionState, NEW r
    PROVE  /\ Materialize(s, r).phase = r.phase /\ Materialize(s, r).next = r.next
           /\ Materialize(s, r).gate = r.gate
           /\ Materialize(s, r).gates = Propagate(s.gates, r)
           /\ Materialize(s, r).decision \in {"none", s.decision}
           /\ r.phase # "6" => Materialize(s, r).decision = "none"
<1> DEFINE k == WithKernelResult(s, r)
<1>1. /\ k.phase = r.phase /\ k.next = r.next /\ k.gate = r.gate
      /\ k.gates = Propagate(s.gates, r) /\ k.decision = s.decision
      /\ DOMAIN k = DOMAIN s
  BY DEF WithKernelResult, SessionState
<1>2. {"phase", "next", "gate", "gates", "decision"} \subseteq DOMAIN s
  BY DEF SessionState
<1> HIDE DEF k
<1> QED
  BY <1>1, <1>2 DEF Materialize, k

\* Before it is normalised: as DecisionSound, but that gates may be open, and
\* no rejection is left.
Materialized(s, f) ==
    /\ AtEvidenceGate(s) => s.phase = "6" /\ CanPromote(s.gates, f)
    /\ s.phase = "6" => s.next = "6"
    /\ s.decision # "reject"
    /\ GatesSettled(s.gates, f)

LEMMA MaterializeSound ==
    ASSUME TypeOK, DecisionInv, NEW s1 \in ReviewLoop(st),
           NEW r \in Execute(Requested(st), SyncGates(s1), PlanReady(s1), facts)
    PROVE  Materialized(SyncGates(Materialize(SyncGates(s1), r)), facts)
<1> DEFINE q == SyncGates(s1)
           m == Materialize(q, r)
<1>1. st \in SessionState /\ facts \in Facts /\ s1 \in SessionState /\ q \in SessionState
  BY ReviewLoopType, SyncGatesType DEF TypeOK
<1>2. /\ q.phase = st.phase /\ q.next = st.next /\ q.gate = st.gate
      /\ q.evidence = st.evidence /\ q.decision = st.decision
  BY <1>1, LoopKeeps, SyncFrame
<1>3. GatesSettled(q.gates, facts)
  BY <1>1, LoopKeeps, SyncKeeps DEF DecisionInv, DecisionSound
<1>4. Requested(st) \in Tokens /\ q.phase \in Tokens
  BY <1>1 DEF Requested, SessionState
<1>5. r \in Execute(Requested(st), q, PlanReady(s1), facts)
  OBVIOUS
<1> HIDE DEF q
<1>6. WellFormed(r) /\ ResultFacts(Requested(st), q, facts, r)
  BY <1>4, <1>5, ExecuteReturns
<1>7. /\ m.phase = r.phase /\ m.next = r.next /\ m.gate = r.gate
      /\ m.gates = Propagate(q.gates, r)
      /\ m.decision \in {"none", q.decision}
      /\ r.phase # "6" => m.decision = "none"
  BY <1>1, MaterializeFrame
<1>8. m \in SessionState
  BY <1>1, <1>6, MaterializeType
<1> HIDE DEF m
<1>9. r.phase = "6" => r.next = "6"
  BY <1>2, <1>6 DEF ResultFacts, DecisionInv, DecisionSound, AtEvidenceGate
<1>10. m.decision # "reject"
  <2> SUFFICES ASSUME m.decision = "reject" PROVE FALSE
    OBVIOUS
  <2>1. st.decision = "reject" /\ r.phase = "6"
    BY <1>2, <1>7
  <2>2. st.phase \in {"4", "5"} /\ Requested(st) = st.phase
    BY <2>1 DEF DecisionInv, DecisionSound, Requested
  <2> QED
    BY <1>2, <1>6, <2>1, <2>2 DEF ResultFacts
<1>11. r.gate = "Evidence-Presentation-Gate" => r.phase = "6" /\ CanPromote(q.gates, facts)
  <2> SUFFICES ASSUME r.gate = "Evidence-Presentation-Gate"
               PROVE  r.phase = "6" /\ CanPromote(q.gates, facts)
    OBVIOUS
  <2>1. st.phase = "6" => Requested(st) = "6"
    BY DEF Requested, DecisionInv, DecisionSound
  <2> QED
    BY <1>2, <1>6, <2>1 DEF ResultFacts
<1>12. /\ GatesSettled(m.gates, facts)
       /\ CanPromote(q.gates, facts) => CanPromote(m.gates, facts)
  BY <1>1, <1>3, <1>7, PropagateKeeps DEF SessionState, GateMap
<1>13. /\ GatesSettled(SyncGates(m).gates, facts)
       /\ CanPromote(m.gates, facts) => CanPromote(SyncGates(m).gates, facts)
  BY <1>1, <1>8, <1>12, SyncKeeps
<1> QED
  BY <1>7, <1>8, <1>9, <1>10, <1>11, <1>12, <1>13, SyncFrame
     DEF Materialized, AtEvidenceGate, m, q

\* The normalizer, and the presentation of the review package after it.
LEMMA NormalizeSound ==
    ASSUME NEW s \in SessionState, Materialized(s, facts), NEW u \in Normalize(s)
    PROVE  DecisionSound(u, facts)
<1>1. CASE s.phase # "6"
  BY <1>1 DEF Normalize, Materialized, DecisionSound
<1>2. CASE s.phase = "6" /\ NormalizerOpenGates(s) = {}
  <2>1. u = CompleteStaleReview(s)
    BY <1>2 DEF Normalize
  <2>2. /\ u.phase = s.phase /\ u.next = s.next /\ u.gate = s.gate
        /\ u.gates = s.gates /\ u.decision = s.decision
    BY <2>1 DEF CompleteStaleReview, SessionState
  <2>3. OpenGates(u.gates) = {}
    BY <1>2, <2>2 DEF NormalizerOpenGates
  <2> QED
    BY <2>2, <2>3 DEF Materialized, DecisionSound, AtEvidenceGate
<1>3. CASE s.phase = "6" /\ NormalizerOpenGates(s) # {}
  <2>1. PICK g \in NormalizerOpenGates(s) : u = ResetToGate(s, g)
    BY <1>3 DEF Normalize
  <2>2. g \in P5Gates
    BY DEF NormalizerOpenGates, OpenGates, P5Gates
  <2>3. /\ u.phase = PhaseOfGate(g) /\ u.gate = CorrectedGate(g)
        /\ u.gates = s.gates /\ u.decision = s.decision
    BY <2>1 DEF ResetToGate, SessionState
  <2>4. PhaseOfGate(g) # "6" /\ CorrectedGate(g) # "Evidence-Presentation-Gate"
    BY <2>2 DEF PhaseOfGate, CorrectedGate, P5Gates
  <2> QED
    BY <2>3, <2>4 DEF Materialized, DecisionSound, AtEvidenceGate
<1> QED
  BY <1>1, <1>2, <1>3

LEMMA PresentFrame ==
    ASSUME NEW s \in SessionState, DecisionSound(s, facts)
    PROVE  DecisionSound(Present(s), facts)
<1>1. /\ Present(s).phase = s.phase /\ Present(s).next = s.next /\ Present(s).gate = s.gate
      /\ Present(s).gates = s.gates /\ Present(s).decision = s.decision
      /\ Present(s).evidence = s.evidence
  BY DEF Present, SessionState
<1> QED
  BY <1>1 DEF DecisionSound, AtEvidenceGate

LEMMA OutcomeSound ==
    ASSUME TypeOK, DecisionInv, NEW o \in ContinueOutcomes
    PROVE  DecisionSound(o.st, facts)
<1>1. PICK s1 \in ReviewLoop(st) :
         \E r \in Execute(Requested(st), SyncGates(s1), PlanReady(s1), facts) :
           \E s2 \in Normalize(SyncGates(Materialize(SyncGates(s1), r))) : o.st = Present(s2)
  BY OutcomeSteps
<1>2. PICK r \in Execute(Requested(st), SyncGates(s1), PlanReady(s1), facts) :
         \E s2 \in Normalize(SyncGates(Materialize(SyncGates(s1), r))) : o.st = Present(s2)
  BY <1>1
<1>3. PICK s2 \in Normalize(SyncGates(Materialize(SyncGates(s1), r))) : o.st = Present(s2)
  BY <1>2
<1>4. SyncGates(s1) \in SessionState
  BY ReviewLoopType, SyncGatesType DEF TypeOK
<1>5. Requested(st) \in Tokens /\ SyncGates(s1).phase \in Tokens
  BY <1>4 DEF Requested, TypeOK, SessionState
<1>6. WellFormed(r)
  BY <1>5, ExecuteReturns
<1>7. SyncGates(Materialize(SyncGates(s1), r)) \in SessionState
  BY <1>4, <1>6, MaterializeType, SyncGatesType DEF TypeOK
<1>8. Materialized(SyncGates(Materialize(SyncGates(s1), r)), facts)
  BY MaterializeSound
<1>9. s2 \in SessionState /\ DecisionSound(s2, facts)
  BY <1>7, <1>8, NormalizeType, NormalizeSound
<1> QED
  BY <1>3, <1>9, PresentFrame

LEMMA ContinueSound ==
    ASSUME TypeOK, DecisionInv, Continue \/ ContinueInterrupted PROVE DecisionInv'
<1>1. \A o \in ContinueOutcomes : DecisionSound(o.st, facts)
  BY OutcomeSound
<1>2. ASSUME NEW o \in ContinueOutcomes PROVE DecisionSound(AutoApprove(o.st), facts)
  <2>1. o.st \in SessionState
    BY OutcomeType
  <2>2. /\ AutoApprove(o.st).phase = o.st.phase /\ AutoApprove(o.st).next = o.st.next
        /\ AutoApprove(o.st).gate = "Workflow-Complete"
        /\ AutoApprove(o.st).decision = "approve"
        /\ AutoApprove(o.st).gates = o.st.gates
    BY <2>1 DEF AutoApprove, SessionState
  <2> QED
    BY <1>1, <2>2 DEF DecisionSound, AtEvidenceGate
<1>3. CASE Continue
  BY <1>1, <1>2, <1>3 DEF Continue, ContinueWith, DecisionInv
<1>4. CASE ContinueInterrupted
  BY <1>1, <1>4 DEF ContinueInterrupted, DecisionInv
<1> QED
  BY <1>3, <1>4

-----------------------------------------------------------------------------
(* The other rails. *)

\* A rail that executes its own phase once more and keeps the Gates map.
LEMMA ReexecuteSound ==
    ASSUME NEW s \in SessionState, NEW f, NEW ready, NEW r \in Execute(s.phase, s, ready, f),
           GatesSettled(s.gates, f),
           AtEvidenceGate(s) => s.phase = "6",
           s.decision = "reject" => s.phase \in {"4", "5"} /\ ~s.evidence
    PROVE  DecisionSound(WithKernelResult(s, r), f)
<1> DEFINE k == WithKernelResult(s, r)
<1>1. s.phase \in Tokens
  BY DEF SessionState
<1>2. WellFormed(r) /\ ResultFacts(s.phase, s, f, r)
  BY <1>1, ExecuteReturns
<1>3. /\ k.phase = r.phase /\ k.next = r.next /\ k.gate = r.gate
      /\ k.gates = Propagate(s.gates, r)
      /\ k.decision = s.decision /\ k.evidence = s.evidence
  BY DEF WithKernelResult, SessionState
<1> HIDE DEF k
<1>4. /\ GatesSettled(k.gates, f)
      /\ CanPromote(s.gates, f) => CanPromote(k.gates, f)
  BY <1>3, PropagateKeeps DEF SessionState, GateMap
<1>5. AtEvidenceGate(k) => k.phase = "6" /\ CanPromote(k.gates, f)
  BY <1>2, <1>3, <1>4 DEF ResultFacts, AtEvidenceGate
<1>6. AtEvidenceGate(k) => OpenGates(k.gates) = {}
  BY <1>4, <1>5, PromotableIsClosed
<1>7. k.phase = "6" => k.next = "6"
  BY <1>2, <1>3 DEF ResultFacts
<1>8. k.decision = "reject" => k.phase \in {"4", "5"} /\ ~k.evidence
  BY <1>2, <1>3 DEF ResultFacts
<1> QED
  BY <1>4, <1>5, <1>6, <1>7, <1>8 DEF DecisionSound, k

\* Consuming a rework moves the session to a phase below 6 and forgets the
\* decision.
LEMMA ConsumeKeeps ==
    ASSUME NEW s \in SessionState, DecisionSound(s, facts),
           NEW phase \in {"4", "5"}, NEW gate, gate # "Evidence-Presentation-Gate"
    PROVE  LET c == ConsumeRework(s, phase, gate) IN
           /\ c.gates = s.gates /\ c.evidence = s.evidence
           /\ AtEvidenceGate(c) => c.phase = "6"
           /\ c.decision = "reject" => c.phase \in {"4", "5"} /\ ~c.evidence
<1> DEFINE u == [s EXCEPT !.p6state = "unset", !.decision = "none", !.consumed = TRUE,
                          !.phase = phase, !.next = phase, !.gate = gate]
<1>1. /\ u.gates = s.gates /\ u.evidence = s.evidence /\ u.gate = gate /\ u.decision = "none"
  BY DEF SessionState
<1>2. ConsumeRework(s, phase, gate) = u \/ ConsumeRework(s, phase, gate) = s
  BY DEF ConsumeRework
<1> HIDE DEF u
<1> QED
  BY <1>1, <1>2 DEF DecisionSound, AtEvidenceGate

LEMMA TicketSound ==
    ASSUME TypeOK, DecisionInv, NEW t \in Tickets, Ticket(t) PROVE DecisionInv'
<1> DEFINE c == ConsumeRework(st, "4", "Ticket-Input-Gate")
           s == [c EXCEPT !.ticket = t]
<1>1. c \in SessionState
  BY ConsumeReworkType, RailGates DEF TypeOK, Tokens
<1>2. /\ c.gates = st.gates
      /\ AtEvidenceGate(c) => c.phase = "6"
      /\ c.decision = "reject" => c.phase \in {"4", "5"} /\ ~c.evidence
  BY ConsumeKeeps DEF TypeOK, DecisionInv
<1> HIDE DEF c
<1>3. /\ s \in SessionState
      /\ s.phase = c.phase /\ s.gate = c.gate /\ s.gates = c.gates
      /\ s.decision = c.decision /\ s.evidence = c.evidence
  BY <1>1 DEF SessionState
<1>4. PICK r \in Execute(s.phase, s, PlanReady(s), facts) :
         st' = WithKernelResult(s, r) /\ facts' = facts
  BY DEF Ticket, c
<1> HIDE DEF s
<1>5. GatesSettled(s.gates, facts)
  BY <1>2, <1>3 DEF DecisionInv, DecisionSound
<1>6. DecisionSound(WithKernelResult(s, r), facts)
  BY <1>2, <1>3, <1>4, <1>5, ReexecuteSound DEF AtEvidenceGate
<1> QED
  BY <1>4, <1>6 DEF DecisionInv

LEMMA PlanSound ==
    ASSUME TypeOK, DecisionInv, NEW p \in Plans, Plan(p) \/ PlanInterrupted(p)
    PROVE  DecisionInv'
<1>1. CASE Plan(p)
  <2> DEFINE c == ConsumeRework(st, "5", "Plan-Record-Preparation-Gate")
             s == [c EXCEPT !.p5met = TRUE, !.contracts = TRUE]
  <2>1. c \in SessionState
    BY ConsumeReworkType, RailGates DEF TypeOK, Tokens
  <2>2. /\ c.gates = st.gates
        /\ AtEvidenceGate(c) => c.phase = "6"
        /\ c.decision = "reject" => c.phase \in {"4", "5"} /\ ~c.evidence
    BY ConsumeKeeps DEF TypeOK, DecisionInv
  <2>3. c.phase = "5"
    BY <1>1 DEF Plan, RecordPlan, PlanAllowed
  <2> HIDE DEF c
  <2>4. /\ s \in SessionState
        /\ s.phase = c.phase /\ s.gate = c.gate /\ s.gates = c.gates
        /\ s.decision = c.decision /\ s.evidence = c.evidence
    BY <2>1 DEF SessionState
  <2>5. PICK r \in Execute("5", s, TRUE, facts) :
           st' = [WithKernelResult(s, r) EXCEPT !.planSeen = TRUE] /\ facts' = facts
    BY <1>1 DEF Plan, RecordPlan, PlanWritten, c
  <2> HIDE DEF s
  <2>6. GatesSettled(s.gates, facts)
    BY <2>2, <2>4 DEF DecisionInv, DecisionSound
  <2>7. "5" \in Tokens /\ s.phase = "5"
    BY <2>3, <2>4 DEF Tokens
  <2>8. DecisionSound(WithKernelResult(s, r), facts)
    BY <2>2, <2>4, <2>5, <2>6, <2>7, ReexecuteSound DEF AtEvidenceGate
  <2>9. WithKernelResult(s, r) \in SessionState
    BY <2>4, <2>5, <2>7, ExecuteReturns, WithKernelResultType
  <2> DEFINE k == WithKernelResult(s, r)
  <2> HIDE DEF k
  <2>10. k \in SessionState /\ DecisionSound(k, facts) /\ st' = [k EXCEPT !.planSeen = TRUE]
    BY <2>5, <2>8, <2>9 DEF k
  <2>11. DecisionSound(st', facts)
    BY <2>10 DEF SessionState, DecisionSound, AtEvidenceGate
  <2> QED
    BY <2>5, <2>11 DEF DecisionInv
<1>2. CASE PlanInterrupted(p)
  BY <1>2 DEF PlanInterrupted, RecordPlan, DecisionInv
<1> QED
  BY <1>1, <1>2

\* The operator's decisions, which leave the Evidence Presentation Gate, and
\* /implement, which stays away from it.
LEMMA DecisionSteps ==
    ASSUME TypeOK, DecisionInv,
           Approve \/ RequestChanges \/ Reject
             \/ \E outcome \in ImplementOutcomes : Implement(outcome)
    PROVE  DecisionInv'
<1>1. CASE Approve
  <2>1. /\ st'.phase = st.phase /\ st'.next = st.next /\ st'.gate = "Workflow-Complete"
        /\ st'.gates = st.gates /\ st'.decision = "approve" /\ facts' = facts
    BY <1>1 DEF Approve, TypeOK, SessionState
  <2> QED
    BY <2>1 DEF DecisionInv, DecisionSound, AtEvidenceGate
<1>2. CASE RequestChanges
  <2>1. /\ st'.phase = st.phase /\ st'.next = "6" /\ st'.gate = "Rework-Clarification-Gate"
        /\ st'.gates = st.gates /\ st'.decision = "changes_requested" /\ facts' = facts
    BY <1>2 DEF RequestChanges, TypeOK, SessionState
  <2> QED
    BY <2>1 DEF DecisionInv, DecisionSound, AtEvidenceGate
<1>3. CASE Reject
  <2>1. /\ st'.phase = "4" /\ st'.gate = "Ticket-Input-Gate" /\ st'.evidence = FALSE
        /\ st'.gates = st.gates /\ facts' = facts
    BY <1>3 DEF Reject, TypeOK, SessionState
  <2> QED
    BY <2>1 DEF DecisionInv, DecisionSound, AtEvidenceGate
<1>4. ASSUME NEW outcome \in ImplementOutcomes, Implement(outcome) PROVE DecisionInv'
  <2>1. /\ st'.phase = st.phase /\ st'.next = "6" /\ st'.gate # "Evidence-Presentation-Gate"
        /\ st'.gates = st.gates /\ st'.decision = st.decision
        /\ st'.evidence = st.evidence /\ facts' = facts
    BY <1>4 DEF Implement, TypeOK, SessionState
  <2> QED
    BY <2>1 DEF DecisionInv, DecisionSound, AtEvidenceGate
<1> QED
  BY <1>1, <1>2, <1>3, <1>4

\* A map with every gate pending is settled whatever the repository shows.
LEMMA PendingIsSettled == \A f : GatesSettled([g \in P5Gates |-> "pending"], f)
  BY DEF GatesSettled, P5Gates

LEMMA NewWorkSound == ASSUME TypeOK, DecisionInv, NewWork PROVE DecisionInv'
<1>1. /\ st'.phase = "4" /\ st'.gate = "Ticket-Input-Gate" /\ st'.evidence = FALSE
      /\ st'.gates = [g \in P5Gates |-> "pending"]
  BY DEF NewWork, TypeOK, SessionState
<1> QED
  BY <1>1, PendingIsSettled DEF DecisionInv, DecisionSound, AtEvidenceGate

LEMMA DecisionInvariant == Spec => []DecisionInv
<1>1. Init => DecisionInv
  BY PendingIsSettled DEF Init, FreshState, DecisionInv, DecisionSound, AtEvidenceGate
<1>2. TypeOK /\ DecisionInv /\ [Next]_vars => DecisionInv'
  <2> SUFFICES ASSUME TypeOK, DecisionInv, [Next]_vars PROVE DecisionInv'
    OBVIOUS
  <2>1. CASE UNCHANGED vars
    BY <2>1 DEF vars, DecisionInv
  <2>2. CASE Next
    BY <2>2, ContinueSound, TicketSound, PlanSound, DecisionSteps, NewWorkSound DEF Next, Rails
  <2> QED
    BY <2>1, <2>2
<1> QED
  BY <1>1, <1>2, SessionTypeCorrect, PTL DEF Spec

\* The Evidence Presentation Gate, the only place where a decision on the plan
\* is taken, is shown by no rail with a Phase-5 gate open, whatever tickets
\* and plans there are and whatever the repository holds.
THEOREM DecisionOnlyBehindClosedGates == Spec => []DecisionGateClosed
<1>1. DecisionInv => DecisionGateClosed
  BY DEF DecisionInv, DecisionSound, DecisionGateClosed
<1> QED
  BY <1>1, DecisionInvariant, PTL

-----------------------------------------------------------------------------
(* What the edges of Phase 6 stand for. *)

\* A started, blocked or approved implementation is told before anything else.
Unstarted(s) == ~s.wf /\ ~s.started /\ s.exec # "blocked"

\* Why the kernel may come to a gate: the Evidence Presentation Gate only when
\* no rework is pending, the Rework Clarification Gate only when one is or has
\* just been asked for, and the approval of the pipeline only at the Evidence
\* Presentation Gate.
GateReasons(t, s, f, e) ==
    /\ e.gate = "Evidence-Presentation-Gate" => Unstarted(s) /\ ~ReworkPending(s)
    /\ e.gate = "Rework-Clarification-Gate" =>
          /\ t = "6" /\ Unstarted(s)
          /\ ReworkPending(s) \/ (AtEvidenceGate(s) /\ s.decision = "changes_requested")
    /\ e.when = "pipeline-auto-approve" =>
          e = AutoEdge /\ t = "6" /\ AtEvidenceGate(s) /\ Unstarted(s)
    /\ e.when = "ticket_present" => s.ticket # NoTicket
    /\ PhaseRank[e.next] >= PhaseRank[t] \/ e.when = "review_rejected"
    /\ t = "4" => e.next = "4" \/ e.when = "ticket_present"
    /\ t # "4" => e.next # "4" \/ e.when = "review_rejected"
    /\ t = "6" /\ Unstarted(s) /\ ReworkPending(s) =>
          e.gate = "Rework-Clarification-Gate" \/ (AtEvidenceGate(s) /\ s.decision = "approve")

\* The ranks as numbers.
LEMMA Ranks ==
    /\ PhaseRank["4"] = 40 /\ PhaseRank["5"] = 50 /\ PhaseRank["5.3"] = 53
    /\ PhaseRank["5.4"] = 54 /\ PhaseRank["5.5"] = 55 /\ PhaseRank["5.6"] = 56
    /\ PhaseRank["6"] = 60
  BY DEF PhaseRank, Tokens

\* Below Phase 6 the gates and targets of the edges say it all.
LEMMA EarlyReasons ==
    ASSUME NEW t \in Tokens \ {"6"}, NEW s, NEW ready, NEW f, NEW i \in DOMAIN Transitions[t],
           Passes(Transitions[t][i].when, s, ready, f)
    PROVE  GateReasons(t, s, f, Transitions[t][i])
<1> USE Ranks DEF GateReasons, Edge, Tokens, Passes, AutoEdge
<1>1. CASE t = "4"
  <2>1. Transitions[t] = FromTicket
    BY <1>1 DEF Transitions
  <2>2. CASE i = 1
    <3>1. Transitions[t][i] = Edge("ticket_present", "5", "Plan-Record-Preparation-Gate")
      BY <2>1, <2>2 DEF FromTicket
    <3>2. s.ticket # NoTicket
      BY <3>1
    <3> QED
      BY <1>1, <3>1, <3>2
  <2>3. CASE i = 2
    <3>1. Transitions[t][i] = Edge("default", "4", "Ticket-Input-Gate")
      BY <2>1, <2>3 DEF FromTicket
    <3> QED
      BY <1>1, <3>1
  <2> QED
    BY <2>1, <2>2, <2>3 DEF FromTicket
<1>2. CASE t = "5"
  <2>1. Transitions[t] = FromArchitecture
    BY <1>2 DEF Transitions
  <2> QED
    BY <2>1, <1>2 DEF FromArchitecture
<1>3. CASE t = "5.3"
  <2>1. Transitions[t] = FromTestQuality
    BY <1>3 DEF Transitions
  <2> QED
    BY <2>1, <1>3 DEF FromTestQuality
<1>4. CASE t = "5.4"
  <2>1. Transitions[t] = FromBusinessRules
    BY <1>4 DEF Transitions
  <2> QED
    BY <2>1, <1>4 DEF FromBusinessRules
<1>5. CASE t = "5.5"
  <2>1. Transitions[t] = FromTechnicalDebt
    BY <1>5 DEF Transitions
  <2> QED
    BY <2>1, <1>5 DEF FromTechnicalDebt
<1>6. CASE t = "5.6"
  <2>1. Transitions[t] = FromRollbackSafety
    BY <1>6 DEF Transitions
  <2> QED
    BY <2>1, <1>6 DEF FromRollbackSafety
<1> QED
  BY <1>1, <1>2, <1>3, <1>4, <1>5, <1>6

\* In Phase 6 an edge is taken because those before it are not.
LEMMA ReviewReasons ==
    ASSUME NEW s, NEW ready, NEW f, NEW i \in DOMAIN FromReview,
           Passes(FromReview[i].when, s, ready, f),
           \A j \in 1 .. (i - 1) : ~Passes(FromReview[j].when, s, ready, f)
    PROVE  GateReasons("6", s, f, FromReview[i])
<1>1. /\ FromReview[1] = Edge("implementation_blocked", "6", "Implementation-Blocked")
      /\ FromReview[2] = Edge("implementation_started", "6", "Implementation-Started")
      /\ FromReview[3] = Edge("workflow_approved", "6", "Workflow-Complete")
      /\ FromReview[4] = Edge("review_changes_requested", "6", "Rework-Clarification-Gate")
      /\ FromReview[5] = Edge("rework_clarification_pending", "6", "Rework-Clarification-Gate")
      /\ FromReview[6] = Edge("review_rejected", "4", "Ticket-Input-Gate")
      /\ FromReview[7] = Edge("implementation_review_pending", "6", "Implementation-Internal-Review")
      /\ FromReview[8] = Edge("implementation_review_complete", "6", "Evidence-Presentation-Gate")
      /\ FromReview[9] = Edge("default", "6", "Implementation-Internal-Review")
      /\ DOMAIN FromReview = 1 .. 9
  BY DEF FromReview
<1>2. /\ i \notin {1} => s.exec # "blocked"
      /\ i \notin {1, 2} => ~s.started
      /\ i \notin {1, 2, 3} => ~s.wf
      /\ i \notin {1, 2, 3, 4} => ~(AtEvidenceGate(s) /\ s.decision = "changes_requested")
      /\ i \notin {1, 2, 3, 4, 5} => ~ReworkPending(s)
  <2>1. \A j \in {1, 2, 3, 4, 5} : i \notin 1 .. j => ~Passes(FromReview[j].when, s, ready, f)
    BY <1>1
  <2>2. /\ ~Passes(FromReview[1].when, s, ready, f) => s.exec # "blocked"
        /\ ~Passes(FromReview[2].when, s, ready, f) => ~s.started
        /\ ~Passes(FromReview[3].when, s, ready, f) => ~s.wf
        /\ ~Passes(FromReview[4].when, s, ready, f)
              => ~(AtEvidenceGate(s) /\ s.decision = "changes_requested")
        /\ ~Passes(FromReview[5].when, s, ready, f) => ~ReworkPending(s)
    BY <1>1 DEF Edge, Passes
  <2> QED
    BY <2>1, <2>2
<1>3. /\ i = 1 => s.exec = "blocked"
      /\ i = 2 => s.started
      /\ i = 3 => s.wf \/ (AtEvidenceGate(s) /\ s.decision = "approve")
      /\ i = 4 => AtEvidenceGate(s) /\ s.decision = "changes_requested"
      /\ i = 5 => ReworkPending(s)
  <2>1. /\ Passes(FromReview[1].when, s, ready, f) => s.exec = "blocked"
        /\ Passes(FromReview[2].when, s, ready, f) => s.started
        /\ Passes(FromReview[3].when, s, ready, f)
              => s.wf \/ (AtEvidenceGate(s) /\ s.decision = "approve")
        /\ Passes(FromReview[4].when, s, ready, f)
              => AtEvidenceGate(s) /\ s.decision = "changes_requested"
        /\ Passes(FromReview[5].when, s, ready, f) => ReworkPending(s)
    BY <1>1 DEF Edge, Passes
  <2> QED
    BY <2>1
<1>4. CASE i \in {1, 2, 3}
  BY <1>1, <1>3, <1>4, Ranks DEF GateReasons, Edge, Unstarted
<1>5. CASE i \in {4, 5}
  BY <1>1, <1>2, <1>3, <1>5, Ranks DEF GateReasons, Edge, Unstarted
<1>6. CASE i \in {6, 7, 8, 9}
  BY <1>1, <1>2, <1>6, Ranks DEF GateReasons, Edge, Unstarted
<1> QED
  BY <1>1, <1>4, <1>5, <1>6

\* The reasons of every edge that is taken.
LEMMA SelectedReasons ==
    ASSUME NEW t \in Tokens, NEW s, NEW ready, NEW f, NEW e \in Selected(t, s, ready, f)
    PROVE  GateReasons(t, s, f, e)
<1>1. PICK i \in DOMAIN Transitions[t] :
         /\ Passes(Transitions[t][i].when, s, ready, f)
         /\ \A j \in 1 .. (i - 1) : ~Passes(Transitions[t][j].when, s, ready, f)
         /\ e = IF /\ Transitions[t][i].when = "implementation_review_complete"
                   /\ PipelineAutoApproveEligible(s, f)
                THEN AutoEdge ELSE Transitions[t][i]
  BY DEF Selected
<1>2. GateReasons(t, s, f, Transitions[t][i])
  <2>1. CASE t = "6"
    <3>1. Transitions[t] = FromReview
      BY <2>1 DEF Transitions, Tokens
    <3> QED
      BY <1>1, <2>1, <3>1, ReviewReasons
  <2>2. CASE t # "6"
    BY <1>1, <2>2, EarlyReasons
  <2> QED
    BY <2>1, <2>2
<1>3. CASE e = Transitions[t][i]
  BY <1>2, <1>3
<1>4. CASE /\ e = AutoEdge /\ PipelineAutoApproveEligible(s, f)
           /\ Transitions[t][i].when = "implementation_review_complete"
  <2>1. t = "6"
    BY <1>4, EdgeTable DEF EdgesOf, EdgeFacts
  <2>2. Transitions[t][i].gate = "Evidence-Presentation-Gate"
    <3>1. i \in 1 .. 9 /\ Transitions[t] = FromReview
      BY <1>1, <2>1 DEF Transitions, Tokens, FromReview
    <3> QED
      BY <1>4, <3>1 DEF FromReview, Edge
  <2>3. Unstarted(s) /\ ~ReworkPending(s) /\ AtEvidenceGate(s)
    BY <1>2, <1>4, <2>2 DEF GateReasons, PipelineAutoApproveEligible
  <2> QED
    BY <1>4, <2>1, <2>3, Ranks DEF GateReasons, AutoEdge, Edge
<1> QED
  BY <1>1, <1>3, <1>4

\* The same of a result of execute().
ResultReasons(requested, s, f, r) ==
    /\ r.gate = "Evidence-Presentation-Gate" => Unstarted(s) /\ ~ReworkPending(s)
    /\ r.gate = "Rework-Clarification-Gate" =>
          /\ r.phase = "6" /\ Unstarted(s)
          /\ ReworkPending(s) \/ (AtEvidenceGate(s) /\ s.decision = "changes_requested")
    /\ r.by = "pipeline-auto-approve" =>
          /\ r.gate = "Pipeline-Auto-Approved" /\ r.phase = "6"
          /\ AtEvidenceGate(s) /\ Unstarted(s) /\ CanPromote(s.gates, f)
    /\ PhaseRank[r.phase] >= PhaseRank[s.phase] \/ (AtEvidenceGate(s) /\ s.decision = "reject")
    /\ s.phase = "4" /\ requested = "4" => r.phase = "4" \/ s.ticket # NoTicket
    /\ r.phase = "4" => r.next = "4"
    /\ s.phase = "6" /\ requested = "6" =>
          /\ r.phase = "6"
          /\ CanPromote(s.gates, f) /\ Unstarted(s) /\ ReworkPending(s) =>
                \/ r.gate = "Rework-Clarification-Gate"
                \/ AtEvidenceGate(s) /\ s.decision = "approve"
          /\ ~CanPromote(s.gates, f) => r.status = "BLOCKED"

\* A phase that is reached by executing t is no lower than t.
LEMMA ExecuteAtReasons ==
    ASSUME NEW t \in Tokens, NEW s, s.phase \in Tokens, NEW ready, NEW f,
           NEW r \in ExecuteAt(t, s, ready, f),
           \/ PhaseRank[t] >= PhaseRank[s.phase]
           \/ AtEvidenceGate(s) /\ s.decision = "reject"
    PROVE  ResultReasons(t, s, f, r)
<1>1. CASE t = "6" /\ ~CanPromote(s.gates, f)
  <2>1. r = KernelResult("BLOCKED", "6", "6", "Implementation-QA-Prerequisite-Gate", "blocked", TRUE)
    BY <1>1 DEF ExecuteAt, Blocked, Stays
  <2> QED
    BY <2>1, <1>1 DEF KernelResult, ResultReasons
<1>2. CASE ~(t = "6" /\ ~CanPromote(s.gates, f))
  <2>1. PICK e \in Selected(t, s, ready, f) :
           r = KernelResult("OK", IF Stays(t) THEN t ELSE e.next, e.next, e.gate, e.when, Stays(t))
    BY <1>2 DEF ExecuteAt
  <2>2. GateReasons(t, s, f, e) /\ EdgeFacts(t, e)
    BY SelectedReasons, SelectedEdge
  <2>3. e.when = "review_rejected" => AtEvidenceGate(s) /\ s.decision = "reject"
    BY SelectedEdge
  <2>4. \A u \in Tokens : PhaseRank[u] \in Nat
    BY DEF PhaseRank, Tokens
  <2>5. /\ r.gate = e.gate /\ r.by = e.when /\ r.next = e.next
        /\ r.phase = IF Stays(t) THEN t ELSE e.next
    BY <2>1 DEF KernelResult
  <2>6. \/ PhaseRank[r.phase] >= PhaseRank[s.phase]
        \/ AtEvidenceGate(s) /\ s.decision = "reject"
    <3>1. \/ PhaseRank[r.phase] >= PhaseRank[t]
          \/ AtEvidenceGate(s) /\ s.decision = "reject"
      BY <2>2, <2>3, <2>4, <2>5 DEF GateReasons
    <3>2. r.phase \in Tokens
      BY <2>2, <2>5 DEF EdgeFacts
    <3> QED
      BY <2>4, <3>1, <3>2
  <2>7. /\ r.phase = "4" => r.next = "4"
        /\ t = "4" => r.phase = "4" \/ s.ticket # NoTicket
        /\ t = "6" => r.phase = "6"
    BY <2>2, <2>5 DEF GateReasons, Stays
  <2>8. r.by = "pipeline-auto-approve" =>
          /\ r.gate = "Pipeline-Auto-Approved" /\ r.phase = "6"
          /\ AtEvidenceGate(s) /\ Unstarted(s) /\ CanPromote(s.gates, f)
    BY <1>2, <2>2, <2>5 DEF GateReasons, Stays, AutoEdge, Edge
  <2>9. r.gate = "Rework-Clarification-Gate" =>
          /\ r.phase = "6" /\ Unstarted(s)
          /\ ReworkPending(s) \/ (AtEvidenceGate(s) /\ s.decision = "changes_requested")
    BY <2>2, <2>5, <2>7 DEF GateReasons
  <2>10. t = "6" => CanPromote(s.gates, f)
    BY <1>2
  <2> QED
    BY <2>2, <2>5, <2>6, <2>7, <2>8, <2>9, <2>10 DEF ResultReasons, GateReasons
<1> QED
  BY <1>1, <1>2

\* A request, honoured or not, ends with the reasons of the phase that was executed.
LEMMA ExecuteReasons ==
    ASSUME NEW requested \in Tokens, NEW s, s.phase \in Tokens, NEW ready, NEW f,
           NEW r \in Execute(requested, s, ready, f)
    PROVE  ResultReasons(requested, s, f, r)
<1>1. \A u \in Tokens : PhaseRank[u] \in Nat
  BY DEF PhaseRank, Tokens
<1>2. CASE /\ r \in ExecuteAt(requested, s, ready, f)
           /\ ~(PhaseRank[requested] < PhaseRank[s.phase])
  <2>1. PhaseRank[requested] >= PhaseRank[s.phase]
    BY <1>1, <1>2
  <2> QED
    BY <1>2, <2>1, ExecuteAtReasons
<1>3. ASSUME r \in ExecuteAt(requested, s, ready, f),
             NEW e \in Selected(s.phase, s, ready, f), e.next = requested
      PROVE  ResultReasons(requested, s, f, r)
  <2>1. GateReasons(s.phase, s, f, e)
    BY SelectedReasons
  <2>2. e.when = "review_rejected" => AtEvidenceGate(s) /\ s.decision = "reject"
    BY SelectedEdge
  <2>3. \/ PhaseRank[requested] >= PhaseRank[s.phase]
        \/ AtEvidenceGate(s) /\ s.decision = "reject"
    BY <1>3, <2>1, <2>2 DEF GateReasons
  <2> QED
    BY <1>3, <2>3, ExecuteAtReasons
<1>4. ASSUME requested # s.phase, PhaseRank[requested] < PhaseRank[s.phase],
             NEW e \in Selected(s.phase, s, ready, f),
             r = KernelResult("OK", s.phase, e.next, e.gate, "monotonic", Stays(s.phase))
      PROVE  ResultReasons(requested, s, f, r)
  <2>1. GateReasons(s.phase, s, f, e)
    BY SelectedReasons
  <2>2. s.phase # "4"
    BY <1>4, Ranks DEF Tokens
  <2>3. PhaseRank[s.phase] >= PhaseRank[s.phase]
    BY <1>1
  <2> QED
    BY <1>4, <2>1, <2>2, <2>3 DEF KernelResult, ResultReasons, GateReasons
<1>5. CASE r = Blocked(s.phase, DefaultGate(s.phase)) /\ requested # s.phase
  <2>1. /\ DefaultGate(s.phase) # "Evidence-Presentation-Gate"
        /\ DefaultGate(s.phase) # "Rework-Clarification-Gate"
    BY DEF DefaultGate, Tokens
  <2>2. PhaseRank[s.phase] >= PhaseRank[s.phase]
    BY <1>1
  <2> QED
    BY <1>5, <2>1, <2>2 DEF Blocked, KernelResult, ResultReasons
<1> QED
  BY <1>2, <1>3, <1>4, <1>5, ExecuteCases

-----------------------------------------------------------------------------
(* The shape of an outcome of /continue. *)

\* What no part of /continue touches.
AsBefore(s, u) ==
    u.ticket = s.ticket /\ u.consumed = s.consumed /\ u.started = s.started /\ u.exec = s.exec

\* The parts of /continue one by one: what each leaves as it was.
LEMMA LoopFrame ==
    ASSUME NEW s1 \in ReviewLoop(st), st \in SessionState
    PROVE  /\ AsBefore(st, s1) /\ s1.wf = st.wf /\ s1.pkg = st.pkg
           /\ s1.p6state \in {st.p6state, "6.execution", "6.complete"}
<1>1. ASSUME NEW v
      PROVE  /\ AsBefore(st, AfterLoop(st, v)) /\ AfterLoop(st, v).wf = st.wf
             /\ AfterLoop(st, v).pkg = st.pkg
             /\ AfterLoop(st, v).p6state \in {"6.execution", "6.complete"}
  BY DEF AfterLoop, SessionState, AsBefore
<1> QED
  BY <1>1 DEF ReviewLoop, AsBefore

LEMMA SyncRun ==
    ASSUME NEW s \in SessionState
    PROVE  /\ AsBefore(s, SyncGates(s)) /\ SyncGates(s).wf = s.wf
           /\ SyncGates(s).p6state = s.p6state
  BY DEF SyncGates, SessionState, AsBefore

\* What the synchronisation makes of a Gates map depends on the map alone.
LEMMA SyncIsOfGates ==
    ASSUME NEW s \in SessionState, NEW u \in SessionState, s.gates = u.gates
    PROVE  SyncGates(s).gates = SyncGates(u).gates
<1> DEFINE Synced(gates) ==
             [g \in P5Gates |->
                LET now == gates[g] IN
                CASE g = "P5.4-BusinessRules" /\ now \in {"pending", "gap-detected"}
                        /\ P54Status(gates, facts) # "pending" -> P54Status(gates, facts)
                  [] g = "P5.5-TechnicalDebt" /\ now = "pending" -> P55Status(gates, facts)
                  [] g = "P5.6-RollbackSafety" /\ now = "pending" -> P56Status(gates, facts)
                  [] OTHER -> now]
<1>1. "gates" \in DOMAIN s /\ "gates" \in DOMAIN u
  BY DEF SessionState
<1>2. SyncGates(s).gates = Synced(s.gates)
  BY <1>1 DEF SyncGates
<1>3. SyncGates(u).gates = Synced(u.gates)
  BY <1>1 DEF SyncGates
<1> HIDE DEF Synced
<1> QED
  BY <1>2, <1>3

LEMMA KernelRun ==
    ASSUME NEW s \in SessionState, NEW r
    PROVE  LET k == WithKernelResult(s, r) IN
           /\ AsBefore(s, k) /\ k.wf = s.wf /\ k.p6state = s.p6state /\ k.pkg = s.pkg
           /\ k.decision = s.decision /\ k.evidence = s.evidence
           /\ k.phase = r.phase /\ k.next = r.next /\ k.gate = r.gate
           /\ k.gates = Propagate(s.gates, r)
           /\ DOMAIN k = DOMAIN s
  BY DEF WithKernelResult, SessionState, AsBefore

LEMMA MaterializeRun ==
    ASSUME NEW s \in SessionState, NEW r
    PROVE  LET m == Materialize(s, r) IN
           AsBefore(s, m) /\ m.wf = s.wf /\ m.p6state = s.p6state
<1> DEFINE k == WithKernelResult(s, r)
<1>1. /\ AsBefore(s, k) /\ k.wf = s.wf /\ k.p6state = s.p6state
      /\ DOMAIN k = DOMAIN s
  BY KernelRun
<1>2. {"ticket", "consumed", "started", "exec", "wf", "p6state"} \subseteq DOMAIN s
  BY DEF SessionState
<1> HIDE DEF k
<1> QED
  BY <1>1, <1>2 DEF Materialize, k, AsBefore

\* The normalizer leaves the session where the kernel put it, with every gate
\* closed when that is Phase 6, ...
Kept(s, u) ==
    /\ u.phase = s.phase /\ u.next = s.next /\ u.gate = s.gate /\ u.wf = s.wf
    /\ u.p6state \in {s.p6state, "6.complete"}
    /\ u.phase = "6" => NormalizerOpenGates(s) = {}

\* ... or takes it from Phase 6 to the phase of a gate it finds open.
TakenBack(s, u) ==
    /\ s.phase = "6" /\ ~u.wf /\ u.p6state = "unset"
    /\ \E g \in NormalizerOpenGates(s) :
          u.phase = PhaseOfGate(g) /\ u.next = PhaseOfGate(g) /\ u.gate = CorrectedGate(g)

\* It does one or the other.
LEMMA NormalizeShape ==
    ASSUME NEW s \in SessionState, NEW u \in Normalize(s)
    PROVE  /\ AsBefore(s, u) /\ u.gates = s.gates /\ u.decision = s.decision
           /\ Kept(s, u) \/ TakenBack(s, u)
<1>1. CASE s.phase # "6"
  BY <1>1 DEF Normalize, AsBefore, Kept
<1>2. CASE s.phase = "6" /\ NormalizerOpenGates(s) = {}
  <2>1. u = CompleteStaleReview(s)
    BY <1>2 DEF Normalize
  <2>2. /\ AsBefore(s, u) /\ u.gates = s.gates /\ u.decision = s.decision
        /\ u.phase = s.phase /\ u.next = s.next /\ u.gate = s.gate /\ u.wf = s.wf
        /\ u.p6state \in {s.p6state, "6.complete"}
    BY <2>1 DEF CompleteStaleReview, SessionState, AsBefore
  <2> QED
    BY <1>2, <2>2 DEF Kept
<1>3. CASE s.phase = "6" /\ NormalizerOpenGates(s) # {}
  <2>1. PICK g \in NormalizerOpenGates(s) : u = ResetToGate(s, g)
    BY <1>3 DEF Normalize
  <2> DEFINE v == [s EXCEPT !.phase = PhaseOfGate(g), !.next = PhaseOfGate(g),
                            !.gate = CorrectedGate(g), !.p6state = "unset"]
  <2>2. /\ AsBefore(s, v) /\ v.gates = s.gates /\ v.decision = s.decision
        /\ v.phase = PhaseOfGate(g) /\ v.next = PhaseOfGate(g) /\ v.gate = CorrectedGate(g)
        /\ v.p6state = "unset" /\ DOMAIN v = DOMAIN s
    BY DEF SessionState, AsBefore
  <2>3. u = [v EXCEPT !.revComplete = FALSE, !.blkComplete = FALSE, !.wf = FALSE]
    BY <2>1 DEF ResetToGate
  <2>4. "wf" \in DOMAIN s
    BY DEF SessionState
  <2> HIDE DEF v
  <2>5. /\ AsBefore(s, u) /\ u.gates = s.gates /\ u.decision = s.decision
        /\ u.phase = PhaseOfGate(g) /\ u.next = PhaseOfGate(g) /\ u.gate = CorrectedGate(g)
        /\ u.p6state = "unset" /\ u.wf = FALSE
    BY <2>2, <2>3, <2>4 DEF AsBefore
  <2> QED
    BY <1>3, <2>5 DEF TakenBack
<1> QED
  BY <1>1, <1>2, <1>3

\* A fresh package is one that was just presented.
JustPresented(u) ==
    u.pkg.fresh => /\ AtEvidenceGate(u) /\ u.phase = "6"
                   /\ u.pkg.plan = planRecord /\ u.pkg.ticket = u.ticket

LEMMA PresentShape ==
    ASSUME NEW s \in SessionState
    PROVE  LET u == Present(s) IN
           /\ AsBefore(s, u) /\ u.gates = s.gates /\ u.decision = s.decision
           /\ u.phase = s.phase /\ u.next = s.next /\ u.gate = s.gate /\ u.wf = s.wf
           /\ u.p6state = s.p6state
           /\ JustPresented(u)
<1>1. s.pkg \in Package
  BY DEF SessionState
<1>2. [s.pkg EXCEPT !.fresh = FALSE].fresh = FALSE
  BY <1>1 DEF Package
<1>3. [s EXCEPT !.pkg.fresh = FALSE] = [s EXCEPT !.pkg = [s.pkg EXCEPT !.fresh = FALSE]]
  OBVIOUS
<1>4. ASSUME NEW pkg
      PROVE  LET u == [s EXCEPT !.pkg = pkg] IN
             /\ AsBefore(s, u) /\ u.gates = s.gates /\ u.decision = s.decision
             /\ u.phase = s.phase /\ u.next = s.next /\ u.gate = s.gate /\ u.wf = s.wf
             /\ u.p6state = s.p6state /\ u.pkg = pkg /\ u.ticket = s.ticket
  BY DEF SessionState, AsBefore
<1>5. CASE s.phase = "6" /\ AtEvidenceGate(s)
  <2> DEFINE pkg == [plan |-> planRecord, ticket |-> s.ticket, fresh |-> TRUE]
  <2>1. pkg.plan = planRecord /\ pkg.ticket = s.ticket
    OBVIOUS
  <2>2. Present(s) = [s EXCEPT !.pkg = pkg]
    BY <1>5 DEF Present
  <2> HIDE DEF pkg
  <2> QED
    BY <1>4, <1>5, <2>1, <2>2 DEF JustPresented, AtEvidenceGate
<1>6. CASE ~(s.phase = "6" /\ AtEvidenceGate(s))
  <2> DEFINE pkg == [s.pkg EXCEPT !.fresh = FALSE]
  <2>1. Present(s) = [s EXCEPT !.pkg = pkg]
    BY <1>3, <1>6 DEF Present
  <2>2. ~pkg.fresh
    BY <1>2
  <2> HIDE DEF pkg
  <2> QED
    BY <1>4, <2>1, <2>2 DEF JustPresented
<1> QED
  BY <1>5, <1>6

\* The whole of it: the session the kernel was asked about (q), its answer (r),
\* and the session before it is normalised (m).
Shape(o, q, ready, r, m) ==
    /\ q \in SessionState /\ m \in SessionState
    /\ r \in Execute(Requested(st), q, ready, facts)
    /\ q.phase = st.phase /\ q.next = st.next /\ q.gate = st.gate
    /\ q.evidence = st.evidence /\ q.decision = st.decision /\ q.wf = st.wf
    /\ AsBefore(st, q)
    /\ q.p6state \in {st.p6state, "6.execution", "6.complete"}
    /\ q.gates = SyncGates(st).gates
    /\ m.phase = r.phase /\ m.next = r.next /\ m.gate = r.gate /\ m.wf = st.wf
    /\ m.p6state = q.p6state
    /\ m.gates = SyncGates(Materialize(q, r)).gates
    /\ o.by = r.by
    /\ AsBefore(st, o.st)
    /\ o.st.gates = m.gates
    /\ o.st.decision \in {"none", st.decision}
    /\ r.phase # "6" => o.st.decision = "none"
    /\ Kept(m, o.st) \/ TakenBack(m, o.st)
    /\ JustPresented(o.st)

\* Every outcome of /continue has that shape.
LEMMA OutcomeShape ==
    ASSUME TypeOK, NEW o \in ContinueOutcomes
    PROVE  \E q, ready, r, m : Shape(o, q, ready, r, m)
<1>1. PICK s1 \in ReviewLoop(st) :
         \E r \in Execute(Requested(st), SyncGates(s1), PlanReady(s1), facts) :
           \E s2 \in Normalize(SyncGates(Materialize(SyncGates(s1), r))) :
             o = [by |-> r.by, ran |-> s1 # st, st |-> Present(s2)]
  BY OutcomeSteps
<1>2. PICK r \in Execute(Requested(st), SyncGates(s1), PlanReady(s1), facts) :
         \E s2 \in Normalize(SyncGates(Materialize(SyncGates(s1), r))) :
           o = [by |-> r.by, ran |-> s1 # st, st |-> Present(s2)]
  BY <1>1
<1>3. PICK s2 \in Normalize(SyncGates(Materialize(SyncGates(s1), r))) :
         o = [by |-> r.by, ran |-> s1 # st, st |-> Present(s2)]
  BY <1>2
<1> DEFINE q == SyncGates(s1)
           n == Materialize(q, r)
           m == SyncGates(n)
<1>4. st \in SessionState /\ facts \in Facts /\ s1 \in SessionState /\ q \in SessionState
  BY ReviewLoopType, SyncGatesType DEF TypeOK
<1>5. q.gates = SyncGates(st).gates
  BY <1>4, LoopKeeps, SyncIsOfGates
<1>6. /\ q.phase = st.phase /\ q.next = st.next /\ q.gate = st.gate
      /\ q.evidence = st.evidence /\ q.decision = st.decision /\ q.wf = st.wf
      /\ AsBefore(st, q)
      /\ q.p6state \in {st.p6state, "6.execution", "6.complete"}
  BY <1>4, LoopKeeps, LoopFrame, SyncFrame, SyncRun DEF AsBefore
<1> HIDE DEF q
<1>7. Requested(st) \in Tokens /\ q.phase \in Tokens
  BY <1>4 DEF Requested, SessionState
<1>8. WellFormed(r)
  BY <1>2, <1>7, ExecuteReturns DEF q
<1>9. n \in SessionState
  BY <1>4, <1>8, MaterializeType
<1>10. /\ n.phase = r.phase /\ n.next = r.next /\ n.gate = r.gate
       /\ n.decision \in {"none", q.decision}
       /\ r.phase # "6" => n.decision = "none"
       /\ AsBefore(q, n) /\ n.wf = q.wf /\ n.p6state = q.p6state
  BY <1>4, MaterializeFrame, MaterializeRun
<1> HIDE DEF n
<1>11. m \in SessionState
  BY <1>4, <1>9, SyncGatesType
<1>12. /\ m.phase = r.phase /\ m.next = r.next /\ m.gate = r.gate
       /\ m.decision = n.decision
       /\ AsBefore(q, m) /\ m.wf = q.wf /\ m.p6state = q.p6state
  BY <1>9, <1>10, SyncFrame, SyncRun DEF AsBefore
<1>13. s2 \in Normalize(m)
  BY <1>3 DEF m, n, q
<1> HIDE DEF m
<1>14. /\ s2 \in SessionState
       /\ AsBefore(m, s2) /\ s2.gates = m.gates /\ s2.decision = m.decision
       /\ Kept(m, s2) \/ TakenBack(m, s2)
  BY <1>11, <1>13, NormalizeType, NormalizeShape
<1>15. o.by = r.by /\ o.st = Present(s2)
  BY <1>3
<1>16. /\ AsBefore(m, o.st) /\ o.st.gates = m.gates /\ o.st.decision = m.decision
       /\ Kept(m, o.st) \/ TakenBack(m, o.st)
       /\ JustPresented(o.st)
  BY <1>14, <1>15, PresentShape DEF AsBefore, Kept, TakenBack
<1>17. Shape(o, q, PlanReady(s1), r, m)
  <2>1. r \in Execute(Requested(st), q, PlanReady(s1), facts)
    BY <1>2 DEF q
  <2>2. m.gates = SyncGates(Materialize(q, r)).gates
    BY DEF m, n
  <2> QED
    BY <1>4, <1>5, <1>6, <1>10, <1>11, <1>12, <1>15, <1>16, <2>1, <2>2 DEF Shape, AsBefore
<1> QED
  BY <1>17

-----------------------------------------------------------------------------
(* The plan a decision is taken on. *)

\* DecisionOnCurrentPlan is not inductive either: a new version may be recorded
\* while a package is fresh, in Phase 5 or when rework consumes the request for
\* changes.  Neither is at the Evidence Presentation Gate, and neither comes
\* back to it but by a /continue, which presents again.
RecordSound ==
    /\ st.p6state = "6.rework" => ~st.consumed /\ ~AtEvidenceGate(st)
    /\ st.pkg.fresh /\ st.pkg.plan # planRecord => st.phase \in {"4", "5"} \/ ReworkActive(st)

\* The rails one by one.
LEMMA ContinueKeepsRecord ==
    ASSUME TypeOK, RecordSound, Continue \/ ContinueInterrupted PROVE RecordSound'
<1>1. ASSUME NEW o \in ContinueOutcomes
      PROVE  /\ o.st.p6state = "6.rework" => ~o.st.consumed /\ ~AtEvidenceGate(o.st)
             /\ o.st.pkg.fresh => o.st.pkg.plan = planRecord
  <2>1. PICK q, ready, r, m : Shape(o, q, ready, r, m)
    BY OutcomeShape
  <2>2. Requested(st) \in Tokens /\ q.phase \in Tokens
    BY <2>1 DEF Shape, Requested, TypeOK, SessionState
  <2>3. ResultReasons(Requested(st), q, facts, r)
    BY <2>1, <2>2, ExecuteReasons DEF Shape
  <2>4. o.st.p6state = "6.rework" => /\ q.p6state = "6.rework" /\ st.p6state = "6.rework"
                                     /\ o.st.gate = r.gate
    BY <2>1 DEF Shape, Kept, TakenBack
  <2>5. o.st.consumed = st.consumed /\ q.consumed = st.consumed
    BY <2>1 DEF Shape, AsBefore
  <2>6. o.st.p6state = "6.rework" => ~o.st.consumed /\ ReworkPending(q)
    BY <2>4, <2>5 DEF RecordSound, ReworkPending
  <2>7. o.st.p6state = "6.rework" => ~AtEvidenceGate(o.st)
    BY <2>3, <2>4, <2>6 DEF ResultReasons, AtEvidenceGate
  <2>8. o.st.pkg.fresh => o.st.pkg.plan = planRecord
    BY <2>1 DEF Shape, JustPresented
  <2> QED
    BY <2>6, <2>7, <2>8
<1>2. ASSUME NEW o \in ContinueOutcomes
      PROVE  AutoApprove(o.st).p6state = "6.complete" /\ AutoApprove(o.st).pkg = o.st.pkg
  <2>1. o.st \in SessionState
    BY OutcomeType
  <2> QED
    BY <2>1 DEF AutoApprove, SessionState
<1>3. CASE Continue
  <2>1. PICK o \in ContinueOutcomes :
           st' \in {o.st, AutoApprove(o.st)} /\ planRecord' = planRecord
    BY <1>3 DEF Continue, ContinueWith
  <2> QED
    BY <1>1, <1>2, <2>1 DEF RecordSound
<1>4. CASE ContinueInterrupted
  <2>1. PICK o \in ContinueOutcomes : st' = o.st /\ planRecord' = planRecord
    BY <1>4 DEF ContinueInterrupted
  <2> QED
    BY <1>1, <2>1 DEF RecordSound
<1> QED
  BY <1>3, <1>4

\* What is left of a session when its rework is consumed.
LEMMA ConsumeRun ==
    ASSUME NEW s \in SessionState, NEW phase, NEW gate
    PROVE  LET c == ConsumeRework(s, phase, gate) IN
           /\ c.pkg = s.pkg /\ c.wf = s.wf /\ c.started = s.started /\ c.exec = s.exec
           /\ c.ticket = s.ticket /\ c.gates = s.gates /\ c.evidence = s.evidence
           /\ \/ c.p6state = "unset" /\ c.decision = "none" /\ c.consumed /\ c.phase = phase
                  /\ c.next = phase /\ c.gate = gate /\ ReworkActive(s)
              \/ c = s /\ ~ReworkActive(s)
<1> DEFINE u == [s EXCEPT !.p6state = "unset", !.decision = "none", !.consumed = TRUE,
                          !.phase = phase, !.next = phase, !.gate = gate]
<1>1. /\ u.pkg = s.pkg /\ u.wf = s.wf /\ u.started = s.started /\ u.exec = s.exec
      /\ u.ticket = s.ticket /\ u.gates = s.gates /\ u.evidence = s.evidence
  BY DEF SessionState
<1>2. /\ u.p6state = "unset" /\ u.decision = "none" /\ u.consumed /\ u.phase = phase
      /\ u.next = phase /\ u.gate = gate
  BY DEF SessionState
<1>3. ConsumeRework(s, phase, gate) = IF ReworkActive(s) THEN u ELSE s
  BY DEF ConsumeRework
<1> HIDE DEF u
<1> QED
  BY <1>1, <1>2, <1>3

LEMMA TicketKeepsRecord ==
    ASSUME TypeOK, RecordSound, NEW t \in Tickets, Ticket(t) PROVE RecordSound'
<1> DEFINE c == ConsumeRework(st, "4", "Ticket-Input-Gate")
           s == [c EXCEPT !.ticket = t]
<1>1. st \in SessionState /\ c \in SessionState
  BY ConsumeReworkType, RailGates DEF TypeOK, Tokens
<1>2. /\ c.pkg = st.pkg
      /\ (c.p6state = "unset" /\ c.phase = "4") \/ (c = st /\ ~ReworkActive(st))
  BY <1>1, ConsumeRun
<1> HIDE DEF c
<1>3. /\ s \in SessionState
      /\ s.phase = c.phase /\ s.p6state = c.p6state /\ s.pkg = c.pkg
  BY <1>1 DEF SessionState
<1>4. PICK r \in Execute(s.phase, s, PlanReady(s), facts) :
         st' = WithKernelResult(s, r) /\ planRecord' = planRecord
  BY DEF Ticket, c
<1> HIDE DEF s
<1>5. s.phase \in Tokens
  BY <1>3 DEF SessionState
<1>6. ResultFacts(s.phase, s, facts, r)
  BY <1>4, <1>5, ExecuteReturns
<1>7. /\ st'.p6state = s.p6state /\ st'.pkg = s.pkg /\ st'.phase = r.phase
  BY <1>3, <1>4, KernelRun
<1>8. st'.p6state # "6.rework"
  BY <1>2, <1>3, <1>7 DEF ReworkActive
<1>9. st'.pkg.fresh /\ st'.pkg.plan # planRecord' => st'.phase \in {"4", "5"}
  BY <1>2, <1>3, <1>4, <1>6, <1>7 DEF RecordSound, ResultFacts
<1> QED
  BY <1>8, <1>9 DEF RecordSound

LEMMA PlanKeepsRecord ==
    ASSUME TypeOK, RecordSound, NEW p \in Plans, Plan(p) \/ PlanInterrupted(p)
    PROVE  RecordSound'
<1> DEFINE c == ConsumeRework(st, "5", "Plan-Record-Preparation-Gate")
           s == [c EXCEPT !.p5met = TRUE, !.contracts = TRUE]
<1>1. st \in SessionState /\ c \in SessionState
  BY ConsumeReworkType, RailGates DEF TypeOK, Tokens
<1>2. /\ c.phase = "5"
      /\ c.p6state = "unset" \/ (c = st /\ ~ReworkActive(st))
      /\ ReworkActive(st) \/ st.phase = "5"
  BY <1>1, ConsumeRun DEF Plan, PlanInterrupted, RecordPlan, PlanAllowed
<1>3. CASE Plan(p)
  <2> HIDE DEF c
  <2>1. /\ s \in SessionState
        /\ s.phase = c.phase /\ s.p6state = c.p6state
    BY <1>1 DEF SessionState
  <2>2. PICK r \in Execute("5", s, TRUE, facts) :
           st' = [WithKernelResult(s, r) EXCEPT !.planSeen = TRUE]
    BY <1>3 DEF Plan, PlanWritten, c
  <2> HIDE DEF s
  <2>3. "5" \in Tokens /\ s.phase = "5"
    BY <1>2, <2>1 DEF Tokens
  <2>4. ResultFacts("5", s, facts, r)
    BY <2>2, <2>3, ExecuteReturns
  <2>5. /\ WithKernelResult(s, r).p6state = s.p6state
        /\ WithKernelResult(s, r).phase = r.phase
        /\ DOMAIN WithKernelResult(s, r) = DOMAIN s
    BY <2>1, KernelRun
  <2>6. st'.p6state = s.p6state /\ st'.phase = r.phase
    BY <2>1, <2>2, <2>5 DEF SessionState
  <2> QED
    BY <1>2, <2>1, <2>3, <2>4, <2>6 DEF ResultFacts, RecordSound, ReworkActive
<1>4. CASE PlanInterrupted(p)
  BY <1>2, <1>4 DEF PlanInterrupted, RecordSound
<1> QED
  BY <1>3, <1>4

LEMMA OthersKeepRecord ==
    ASSUME TypeOK, DecisionInv, RecordSound,
           \/ Approve \/ RequestChanges \/ Reject
           \/ \E outcome \in ImplementOutcomes : Implement(outcome)
           \/ NewWork
    PROVE  RecordSound'
<1>1. ASSUME Decidable
      PROVE  st.pkg.plan = planRecord
  <2>1. st.phase = "6" /\ AtEvidenceGate(st) /\ st.pkg.fresh
    BY <1>1 DEF Decidable, PackageReady
  <2>2. ~ReworkActive(st)
    BY <2>1 DEF RecordSound, ReworkActive, AtEvidenceGate
  <2> QED
    BY <2>1, <2>2 DEF RecordSound
<1>2. CASE Approve
  <2>1. st'.p6state = "6.complete" /\ st'.pkg = st.pkg /\ planRecord' = planRecord
    BY <1>2 DEF Approve, TypeOK, SessionState
  <2> QED
    BY <1>1, <1>2, <2>1 DEF Approve, RecordSound
<1>3. CASE RequestChanges
  <2>1. /\ st'.gate = "Rework-Clarification-Gate" /\ st'.consumed = FALSE
        /\ st'.pkg = st.pkg /\ planRecord' = planRecord
    BY <1>3 DEF RequestChanges, TypeOK, SessionState
  <2> QED
    BY <1>1, <1>3, <2>1 DEF RequestChanges, RecordSound, AtEvidenceGate
<1>4. CASE Reject
  <2>1. st'.p6state = "unset" /\ st'.phase = "4"
    BY <1>4 DEF Reject, TypeOK, SessionState
  <2> QED
    BY <2>1 DEF RecordSound
<1>5. ASSUME NEW outcome \in ImplementOutcomes, Implement(outcome) PROVE RecordSound'
  <2>1. /\ st'.phase = st.phase /\ st'.p6state = st.p6state /\ st'.consumed = st.consumed
        /\ st'.gate \in {"Implementation-Review-Complete", "Implementation-Blocked"}
        /\ st'.pkg = st.pkg /\ planRecord' = planRecord
    BY <1>5 DEF Implement, TypeOK, SessionState
  <2>2. st.gate # "Rework-Clarification-Gate"
    BY <1>5 DEF Implement, ImplementAllowed
  <2> QED
    BY <2>1, <2>2 DEF RecordSound, ReworkActive, AtEvidenceGate
<1>6. CASE NewWork
  <2> DEFINE pkg == [st.pkg EXCEPT !.fresh = FALSE]
  <2>1. st.pkg \in Package
    BY DEF TypeOK, SessionState
  <2>2. ~pkg.fresh
    BY <2>1 DEF Package
  <2>3. /\ st'.pkg = pkg /\ st'.p6state = st.p6state /\ st'.consumed = st.consumed
        /\ st'.gate = "Ticket-Input-Gate"
    BY <1>6 DEF NewWork, TypeOK, SessionState
  <2> QED
    BY <2>2, <2>3 DEF RecordSound, AtEvidenceGate
<1> QED
  BY <1>2, <1>3, <1>4, <1>5, <1>6

LEMMA RecordInvariant == Spec => []RecordSound
<1>1. Init => RecordSound
  BY DEF Init, FreshState, RecordSound
<1>2. TypeOK /\ DecisionInv /\ RecordSound /\ [Next]_vars => RecordSound'
  <2> SUFFICES ASSUME TypeOK, DecisionInv, RecordSound, [Next]_vars PROVE RecordSound'
    OBVIOUS
  <2>1. CASE UNCHANGED vars
    BY <2>1 DEF vars, RecordSound
  <2>2. CASE Next
    BY <2>2, ContinueKeepsRecord, TicketKeepsRecord, PlanKeepsRecord, OthersKeepRecord
       DEF Next, Rails
  <2> QED
    BY <2>1, <2>2
<1> QED
  BY <1>1, <1>2, SessionTypeCorrect, DecisionInvariant, PTL DEF Spec

\* What the operator decides on is the plan on record: no order of the rails,
\* /new-work and a stopped /plan among them, makes a receipt outlive its draft.
THEOREM DecidedPlanIsCurrent == Spec => []DecisionOnCurrentPlan
<1>1. RecordSound => DecisionOnCurrentPlan
  BY DEF RecordSound, DecisionOnCurrentPlan, Decidable, PackageReady, ReworkActive, AtEvidenceGate
<1> QED
  BY <1>1, RecordInvariant, PTL

-----------------------------------------------------------------------------
(* What /continue does with gates and rework. *)

\* What the Gates map says of the business rules is what was found: a closed
\* P5.4 was not opened behind its back.
GatesTold(gates, f) ==
    /\ gates["P5.4-BusinessRules"] = "compliant" => f.businessRules = "compliant"
    /\ gates["P5.4-BusinessRules"] = "not-applicable" => ~BusinessRulesExecuted(f)

\* Rework is clarified in Phase 6 before anything is implemented; the decision
\* that asked for it is gone once it is consumed.
ReworkSound ==
    /\ GatesTold(st.gates, facts)
    /\ st.gate = "Rework-Clarification-Gate" => st.phase = "6" /\ ~st.consumed /\ Unstarted(st)
    /\ AtEvidenceGate(st) => Unstarted(st)
    /\ st.decision = "changes_requested" => ~st.consumed

\* Neither the propagation nor the synchronisation tells the map otherwise.
LEMMA PropagateTells ==
    ASSUME NEW gates, NEW r, NEW f, GatesTold(gates, f) PROVE GatesTold(Propagate(gates, r), f)
  BY DEF Propagate, P5Gates, GatesTold

LEMMA SyncTells ==
    ASSUME NEW s \in SessionState, facts \in Facts, GatesTold(s.gates, facts)
    PROVE  GatesTold(SyncGates(s).gates, facts)
<1> DEFINE old == s.gates
           new == SyncGates(s).gates
<1>1. new["P5.4-BusinessRules"] =
            IF /\ old["P5.4-BusinessRules"] \in {"pending", "gap-detected"}
               /\ P54Status(old, facts) # "pending"
            THEN P54Status(old, facts) ELSE old["P5.4-BusinessRules"]
  BY DEF SyncGates, P5Gates, SessionState
<1>2. GatesTold(old, facts)
  OBVIOUS
<1> HIDE DEF old, new
<1>3. GatesTold(new, facts)
  BY <1>1, <1>2 DEF GatesTold, P54Status, BusinessRulesExecuted, Facts
<1> QED
  BY <1>3 DEF new

\* A map that was synchronised stays as it is when it is synchronised again.
LEMMA SyncTwice ==
    ASSUME NEW s \in SessionState, NEW u \in SessionState, facts \in Facts,
           u.gates = SyncGates(s).gates
    PROVE  SyncGates(u).gates = u.gates
<1> DEFINE old == s.gates
           new == u.gates
           again == SyncGates(u).gates
<1>1. /\ new["P5.4-BusinessRules"] =
            IF /\ old["P5.4-BusinessRules"] \in {"pending", "gap-detected"}
               /\ P54Status(old, facts) # "pending"
            THEN P54Status(old, facts) ELSE old["P5.4-BusinessRules"]
      /\ new["P5.5-TechnicalDebt"] =
            IF old["P5.5-TechnicalDebt"] = "pending" THEN P55Status(old, facts)
            ELSE old["P5.5-TechnicalDebt"]
      /\ new["P5.6-RollbackSafety"] =
            IF old["P5.6-RollbackSafety"] = "pending" THEN P56Status(old, facts)
            ELSE old["P5.6-RollbackSafety"]
  BY DEF SyncGates, P5Gates, SessionState
<1>2. /\ again["P5-Architecture"] = new["P5-Architecture"]
      /\ again["P5.3-TestQuality"] = new["P5.3-TestQuality"]
      /\ again["P5.4-BusinessRules"] =
            IF /\ new["P5.4-BusinessRules"] \in {"pending", "gap-detected"}
               /\ P54Status(new, facts) # "pending"
            THEN P54Status(new, facts) ELSE new["P5.4-BusinessRules"]
      /\ again["P5.5-TechnicalDebt"] =
            IF new["P5.5-TechnicalDebt"] = "pending" THEN P55Status(new, facts)
            ELSE new["P5.5-TechnicalDebt"]
      /\ again["P5.6-RollbackSafety"] =
            IF new["P5.6-RollbackSafety"] = "pending" THEN P56Status(new, facts)
            ELSE new["P5.6-RollbackSafety"]
  BY DEF SyncGates, P5Gates, SessionState
<1>3. new \in GateMap /\ again \in GateMap
  BY SyncGatesType DEF SessionState, GateMap
<1> HIDE DEF old, new, again
<1>4. again["P5.4-BusinessRules"] = new["P5.4-BusinessRules"]
  BY <1>1, <1>2 DEF P54Status, Facts, BusinessRulesExecuted
<1>5. again["P5.5-TechnicalDebt"] = new["P5.5-TechnicalDebt"]
  BY <1>1, <1>2 DEF P55Status
<1>6. again["P5.6-RollbackSafety"] = new["P5.6-RollbackSafety"]
  BY <1>1, <1>2 DEF P56Status
<1>7. again = new
  BY <1>2, <1>3, <1>4, <1>5, <1>6 DEF GateMap, P5Gates
<1> QED
  BY <1>7 DEF again, new

\* A result that is not OK propagates nothing.
LEMMA BlockedPropagates ==
    ASSUME NEW gates \in GateMap, NEW r, r.status = "BLOCKED" PROVE Propagate(gates, r) = gates
  BY DEF Propagate, GateMap

\* Closed gates stay closed.
LEMMA ClosedStay ==
    ASSUME NEW s \in SessionState, OpenGates(s.gates) = {}, NEW r
    PROVE  OpenGates(Propagate(s.gates, r)) = {} /\ OpenGates(SyncGates(s).gates) = {}
<1>1. \A g \in P5Gates : s.gates[g] \in TerminalValues(g)
  BY DEF OpenGates
<1>2. \A g \in P5Gates : s.gates[g] \notin {"pending", "gap-detected"}
  BY <1>1 DEF TerminalValues, P5Gates
<1>3. \A g \in P5Gates : Propagate(s.gates, r)[g] = s.gates[g]
  BY <1>2 DEF Propagate
<1>4. \A g \in P5Gates : SyncGates(s).gates[g] = s.gates[g]
  BY <1>2 DEF SyncGates, SessionState
<1> QED
  BY <1>1, <1>3, <1>4 DEF OpenGates

\* Closed gates that were told so let Phase 6 begin.
LEMMA ClosedIsPromotable ==
    ASSUME NEW gates, NEW f, OpenGates(gates) = {}, GatesTold(gates, f) PROVE CanPromote(gates, f)
<1>1. \A g \in P5Gates : gates[g] \in TerminalValues(g)
  BY DEF OpenGates
<1>2. BusinessRulesExecuted(f) => P54Status(gates, f) \in TerminalValues("P5.4-BusinessRules")
  BY <1>1 DEF GatesTold, P54Status, TerminalValues, P5Gates, BusinessRulesExecuted
<1> QED
  BY <1>1, <1>2 DEF CanPromote, TerminalValues, P5Gates

\* What a Shape implies of its parts, with the kernel's reasons.
LEMMA ShapeFacts ==
    ASSUME TypeOK, NEW o \in ContinueOutcomes, NEW q, NEW ready, NEW r, NEW m,
           Shape(o, q, ready, r, m)
    PROVE  /\ Requested(st) \in Tokens
           /\ WellFormed(r)
           /\ ResultFacts(Requested(st), q, facts, r)
           /\ ResultReasons(Requested(st), q, facts, r)
           /\ Materialize(q, r) \in SessionState
           /\ Materialize(q, r).gates = Propagate(q.gates, r)
           /\ (Unstarted(q) <=> Unstarted(st)) /\ (AtEvidenceGate(q) <=> AtEvidenceGate(st))
           /\ o.st \in SessionState
<1>1. Requested(st) \in Tokens /\ q.phase \in Tokens
  BY DEF Shape, Requested, TypeOK, SessionState
<1>2. WellFormed(r) /\ ResultFacts(Requested(st), q, facts, r)
  BY <1>1, ExecuteReturns DEF Shape
<1>3. ResultReasons(Requested(st), q, facts, r)
  BY <1>1, ExecuteReasons DEF Shape
<1>4. /\ Materialize(q, r) \in SessionState
      /\ Materialize(q, r).gates = Propagate(q.gates, r)
  BY <1>2, MaterializeType, MaterializeFrame DEF Shape
<1>5. (Unstarted(q) <=> Unstarted(st)) /\ (AtEvidenceGate(q) <=> AtEvidenceGate(st))
  BY DEF Shape, AsBefore, Unstarted, AtEvidenceGate
<1> QED
  BY <1>1, <1>2, <1>3, <1>4, <1>5, OutcomeType

\* So the map is told the same all along /continue.
LEMMA ShapeTells ==
    ASSUME TypeOK, GatesTold(st.gates, facts), NEW o \in ContinueOutcomes,
           NEW q, NEW ready, NEW r, NEW m, Shape(o, q, ready, r, m)
    PROVE  GatesTold(q.gates, facts) /\ GatesTold(m.gates, facts)
<1>1. st \in SessionState /\ facts \in Facts
  BY DEF TypeOK
<1>2. GatesTold(q.gates, facts)
  BY <1>1, SyncTells DEF Shape
<1>3. GatesTold(Materialize(q, r).gates, facts) /\ Materialize(q, r) \in SessionState
  BY <1>2, ShapeFacts, PropagateTells
<1> QED
  BY <1>1, <1>2, <1>3, SyncTells DEF Shape

\* The gates a session is taken back to.
LEMMA Corrected ==
    ASSUME NEW s, NEW g \in NormalizerOpenGates(s)
    PROVE  /\ g \in P5Gates
           /\ CorrectedGate(g) \notin {"Rework-Clarification-Gate", "Evidence-Presentation-Gate"}
           /\ PhaseOfGate(g) \notin {"4", "6"}
<1>1. g \in P5Gates
  BY DEF NormalizerOpenGates, OpenGates, P5Gates
<1> QED
  BY <1>1 DEF CorrectedGate, PhaseOfGate, P5Gates

\* The second write of an approval by the pipeline.
LEMMA AutoApproveRun ==
    ASSUME NEW s \in SessionState
    PROVE  LET u == AutoApprove(s) IN
           /\ AsBefore(s, u) /\ u.phase = s.phase /\ u.next = s.next /\ u.gates = s.gates
           /\ u.pkg = s.pkg
           /\ u.decision = "approve" /\ u.wf /\ u.gate = "Workflow-Complete"
           /\ u.p6state = "6.complete"
<1> DEFINE v == [s EXCEPT !.decision = "approve", !.wf = TRUE, !.gate = "Workflow-Complete",
                          !.p6state = "6.complete"]
<1>1. /\ AsBefore(s, v) /\ v.phase = s.phase /\ v.next = s.next /\ v.gates = s.gates
      /\ v.pkg = s.pkg
      /\ v.decision = "approve" /\ v.wf /\ v.gate = "Workflow-Complete"
      /\ v.p6state = "6.complete"
  BY DEF SessionState, AsBefore
<1>2. AutoApprove(s) = [v EXCEPT !.revComplete = TRUE, !.blkComplete = TRUE, !.review = "completed"]
  BY DEF AutoApprove
<1> HIDE DEF v
<1> QED
  BY <1>1, <1>2 DEF AsBefore

\* A step of /continue is an outcome, or the approval that follows it.
LEMMA ContinueStep ==
    ASSUME Continue \/ ContinueInterrupted
    PROVE  \E o \in ContinueOutcomes :
             /\ planRecord' = planRecord /\ facts' = facts
             /\ \/ st' = o.st /\ approved \subseteq approved'
                \/ /\ o.by = "pipeline-auto-approve" /\ st' = AutoApprove(o.st)
                   /\ approved' = approved \cup {<<planRecord, st.ticket>>}
<1>1. ASSUME NEW o \in ContinueOutcomes, ContinueWith(o)
      PROVE  /\ planRecord' = planRecord /\ facts' = facts
             /\ \/ st' = o.st /\ approved \subseteq approved'
                \/ /\ o.by = "pipeline-auto-approve" /\ st' = AutoApprove(o.st)
                   /\ approved' = approved \cup {<<planRecord, st.ticket>>}
  BY <1>1 DEF ContinueWith
<1> QED
  BY <1>1 DEF Continue, ContinueInterrupted

\* The rails one by one.
LEMMA ContinueKeepsRework ==
    ASSUME TypeOK, ReworkSound, Continue \/ ContinueInterrupted PROVE ReworkSound'
<1>1. ASSUME NEW o \in ContinueOutcomes
      PROVE  /\ o.st \in SessionState /\ GatesTold(o.st.gates, facts)
             /\ o.st.gate = "Rework-Clarification-Gate" =>
                   o.st.phase = "6" /\ ~o.st.consumed /\ Unstarted(o.st)
             /\ AtEvidenceGate(o.st) => Unstarted(o.st)
             /\ o.st.decision = "changes_requested" => ~o.st.consumed
  <2>1. PICK q, ready, r, m : Shape(o, q, ready, r, m)
    BY OutcomeShape
  <2>2. ResultReasons(Requested(st), q, facts, r) /\ (Unstarted(q) <=> Unstarted(st))
    BY <2>1, ShapeFacts
  <2>3. o.st \in SessionState /\ GatesTold(o.st.gates, facts)
    BY <2>1, OutcomeType, ShapeTells DEF Shape, ReworkSound
  <2>4. o.st.decision = "changes_requested" => ~o.st.consumed
    BY <2>1 DEF Shape, AsBefore, ReworkSound
  <2>5. CASE Kept(m, o.st)
    <3>1. o.st.gate = r.gate /\ o.st.phase = r.phase /\ (Unstarted(o.st) <=> Unstarted(st))
      BY <2>1, <2>5 DEF Shape, Kept, AsBefore, Unstarted
    <3>2. ReworkPending(q) => ~o.st.consumed
      BY <2>1 DEF Shape, AsBefore, ReworkPending
    <3>3. q.decision = "changes_requested" => ~o.st.consumed
      BY <2>1 DEF Shape, AsBefore, ReworkSound
    <3> QED
      BY <2>2, <2>3, <2>4, <3>1, <3>2, <3>3 DEF ResultReasons, AtEvidenceGate
  <2>6. CASE TakenBack(m, o.st)
    BY <2>3, <2>4, <2>6, Corrected DEF TakenBack, AtEvidenceGate
  <2> QED
    BY <2>1, <2>5, <2>6 DEF Shape
<1>2. PICK o \in ContinueOutcomes : facts' = facts /\ st' \in {o.st, AutoApprove(o.st)}
  BY ContinueStep
<1>3. CASE st' = o.st
  BY <1>1, <1>2, <1>3 DEF ReworkSound
<1>4. CASE st' = AutoApprove(o.st)
  <2>1. /\ st'.gates = o.st.gates /\ st'.gate = "Workflow-Complete"
        /\ st'.decision = "approve"
    BY <1>1, <1>4, AutoApproveRun
  <2> QED
    BY <1>1, <1>2, <2>1 DEF ReworkSound, AtEvidenceGate
<1> QED
  BY <1>2, <1>3, <1>4

\* A rail that executes its own phase again, once rework is consumed.
LEMMA ReexecuteKeepsRework ==
    ASSUME ReworkSound, NEW s \in SessionState,
           s.gates = st.gates, s.decision = "changes_requested" => ~s.consumed,
           NEW ready, NEW r \in Execute(s.phase, s, ready, facts),
           NEW u, u.gates = Propagate(s.gates, r), u.gate = r.gate, u.phase = r.phase,
           u.decision = s.decision, u.consumed = s.consumed, u.wf = s.wf,
           u.started = s.started, u.exec = s.exec
    PROVE  /\ GatesTold(u.gates, facts)
           /\ u.gate = "Rework-Clarification-Gate" =>
                 u.phase = "6" /\ ~u.consumed /\ Unstarted(u)
           /\ AtEvidenceGate(u) => Unstarted(u)
           /\ u.decision = "changes_requested" => ~u.consumed
<1>1. s.phase \in Tokens
  BY DEF SessionState
<1>2. ResultFacts(s.phase, s, facts, r) /\ ResultReasons(s.phase, s, facts, r)
  BY <1>1, ExecuteReturns, ExecuteReasons
<1>3. GatesTold(u.gates, facts)
  BY PropagateTells DEF ReworkSound
<1>4. Unstarted(u) <=> Unstarted(s)
  BY DEF Unstarted
<1>5. u.decision = "changes_requested" => ~u.consumed
  BY DEF ReworkSound
<1>6. u.gate = "Rework-Clarification-Gate" => u.phase = "6" /\ ~u.consumed /\ Unstarted(u)
  <2> SUFFICES ASSUME u.gate = "Rework-Clarification-Gate"
               PROVE  u.phase = "6" /\ ~u.consumed /\ Unstarted(u)
    OBVIOUS
  <2>1. /\ r.phase = "6" /\ Unstarted(s)
        /\ ReworkPending(s) \/ s.decision = "changes_requested"
    BY <1>2 DEF ResultReasons
  <2>2. ~u.consumed
    BY <1>5, <2>1 DEF ReworkPending
  <2> QED
    BY <1>4, <2>1, <2>2
<1>7. AtEvidenceGate(u) => Unstarted(u)
  BY <1>2, <1>4 DEF ResultReasons, AtEvidenceGate
<1> QED
  BY <1>3, <1>5, <1>6, <1>7

LEMMA TicketKeepsRework ==
    ASSUME TypeOK, ReworkSound, NEW t \in Tickets, Ticket(t) PROVE ReworkSound'
<1> DEFINE c == ConsumeRework(st, "4", "Ticket-Input-Gate")
           s == [c EXCEPT !.ticket = t]
<1>1. st \in SessionState /\ c \in SessionState
  BY ConsumeReworkType, RailGates DEF TypeOK, Tokens
<1>2. c.gates = st.gates /\ (c.decision = "changes_requested" => ~c.consumed)
  BY <1>1, ConsumeRun DEF ReworkSound
<1> HIDE DEF c
<1>3. /\ s \in SessionState
      /\ s.phase = c.phase /\ s.gate = c.gate /\ s.gates = c.gates /\ s.p6state = c.p6state
      /\ s.decision = c.decision /\ s.consumed = c.consumed /\ s.wf = c.wf
      /\ s.started = c.started /\ s.exec = c.exec
  BY <1>1 DEF SessionState
<1>4. PICK r \in Execute(s.phase, s, PlanReady(s), facts) :
         st' = WithKernelResult(s, r) /\ facts' = facts
  BY DEF Ticket, c
<1> HIDE DEF s
<1>5. /\ st'.gates = Propagate(s.gates, r) /\ st'.gate = r.gate /\ st'.phase = r.phase
      /\ st'.decision = s.decision /\ st'.consumed = s.consumed /\ st'.wf = s.wf
      /\ st'.started = s.started /\ st'.exec = s.exec
  BY <1>3, <1>4, KernelRun DEF AsBefore
<1>6. /\ GatesTold(st'.gates, facts)
      /\ st'.gate = "Rework-Clarification-Gate" =>
            st'.phase = "6" /\ ~st'.consumed /\ Unstarted(st')
      /\ AtEvidenceGate(st') => Unstarted(st')
      /\ st'.decision = "changes_requested" => ~st'.consumed
  BY <1>2, <1>3, <1>4, <1>5, ReexecuteKeepsRework
<1> QED
  BY <1>4, <1>6 DEF ReworkSound

LEMMA PlanKeepsRework ==
    ASSUME TypeOK, ReworkSound, NEW p \in Plans, Plan(p) \/ PlanInterrupted(p)
    PROVE  ReworkSound'
<1> DEFINE c == ConsumeRework(st, "5", "Plan-Record-Preparation-Gate")
           s == [c EXCEPT !.p5met = TRUE, !.contracts = TRUE]
<1>1. st \in SessionState /\ c \in SessionState
  BY ConsumeReworkType, RailGates DEF TypeOK, Tokens
<1>2. c.gates = st.gates /\ (c.decision = "changes_requested" => ~c.consumed)
  BY <1>1, ConsumeRun DEF ReworkSound
<1>3. c.phase = "5" /\ facts' = facts
  BY DEF Plan, PlanInterrupted, RecordPlan, PlanAllowed
<1>4. CASE Plan(p)
  <2> HIDE DEF c
  <2>1. /\ s \in SessionState
        /\ s.phase = c.phase /\ s.gate = c.gate /\ s.gates = c.gates /\ s.p6state = c.p6state
        /\ s.decision = c.decision /\ s.consumed = c.consumed /\ s.wf = c.wf
        /\ s.started = c.started /\ s.exec = c.exec
    BY <1>1 DEF SessionState
  <2>2. PICK r \in Execute("5", s, TRUE, facts) :
           st' = [WithKernelResult(s, r) EXCEPT !.planSeen = TRUE]
    BY <1>4 DEF Plan, PlanWritten, c
  <2> HIDE DEF s
  <2> DEFINE k == WithKernelResult(s, r)
  <2>3. /\ k.gates = Propagate(s.gates, r) /\ k.gate = r.gate /\ k.phase = r.phase
        /\ k.decision = s.decision /\ k.consumed = s.consumed /\ k.wf = s.wf
        /\ k.started = s.started /\ k.exec = s.exec
    BY <2>1, KernelRun DEF AsBefore
  <2>4. st' = [k EXCEPT !.planSeen = TRUE]
    BY <2>2
  <2>5. DOMAIN k = DOMAIN s
    BY <2>1, KernelRun
  <2> HIDE DEF k
  <2>6. /\ st'.gates = k.gates /\ st'.gate = k.gate /\ st'.phase = k.phase
        /\ st'.decision = k.decision /\ st'.consumed = k.consumed /\ st'.wf = k.wf
        /\ st'.started = k.started /\ st'.exec = k.exec
    BY <2>1, <2>4, <2>5 DEF SessionState
  <2>7. r \in Execute(s.phase, s, TRUE, facts)
    BY <1>3, <2>1, <2>2
  <2>8. /\ GatesTold(st'.gates, facts)
        /\ st'.gate = "Rework-Clarification-Gate" =>
              st'.phase = "6" /\ ~st'.consumed /\ Unstarted(st')
        /\ AtEvidenceGate(st') => Unstarted(st')
        /\ st'.decision = "changes_requested" => ~st'.consumed
    BY <1>2, <2>1, <2>3, <2>6, <2>7, ReexecuteKeepsRework
  <2> QED
    BY <1>3, <2>8 DEF ReworkSound
<1>5. CASE PlanInterrupted(p)
  BY <1>3, <1>5 DEF PlanInterrupted, ReworkSound
<1> QED
  BY <1>4, <1>5

LEMMA OthersKeepRework ==
    ASSUME TypeOK, ReworkSound,
           \/ Approve \/ RequestChanges \/ Reject
           \/ \E outcome \in ImplementOutcomes : Implement(outcome)
           \/ NewWork
    PROVE  ReworkSound'
<1> USE DEF TypeOK, SessionState, AtEvidenceGate
<1>1. CASE Approve
  <2>1. /\ st'.gates = st.gates /\ facts' = facts /\ st'.gate = "Workflow-Complete"
        /\ st'.decision = "approve"
    BY <1>1 DEF Approve
  <2> QED
    BY <2>1 DEF ReworkSound
<1>2. CASE RequestChanges
  <2> DEFINE v == [st EXCEPT !.decision = "changes_requested", !.next = "6",
                             !.gate = "Rework-Clarification-Gate", !.p6state = "6.rework",
                             !.consumed = FALSE]
  <2>1. /\ v.gates = st.gates /\ v.phase = st.phase /\ v.consumed = FALSE
        /\ v.started = st.started /\ v.exec = st.exec /\ DOMAIN v = DOMAIN st
        /\ v.gate = "Rework-Clarification-Gate"
    OBVIOUS
  <2>2. /\ st' = [v EXCEPT !.revComplete = FALSE, !.blkComplete = FALSE,
                           !.review = "changes-requested", !.iter = 0, !.wf = FALSE]
        /\ facts' = facts /\ st.phase = "6" /\ Unstarted(st)
    BY <1>2 DEF RequestChanges, Decidable, ReworkSound
  <2> HIDE DEF v
  <2>3. /\ st'.gates = st.gates /\ st'.phase = "6" /\ st'.consumed = FALSE
        /\ st'.started = st.started /\ st'.exec = st.exec /\ st'.wf = FALSE
        /\ st'.gate = "Rework-Clarification-Gate"
    BY <2>1, <2>2
  <2> QED
    BY <2>2, <2>3 DEF ReworkSound, Unstarted
<1>3. CASE Reject
  <2>1. /\ st'.gates = st.gates /\ facts' = facts /\ st'.gate = "Ticket-Input-Gate"
        /\ st'.decision = "reject"
    BY <1>3 DEF Reject
  <2> QED
    BY <2>1 DEF ReworkSound
<1>4. ASSUME NEW outcome \in ImplementOutcomes, Implement(outcome) PROVE ReworkSound'
  <2>1. /\ st'.gates = st.gates /\ facts' = facts
        /\ st'.gate \in {"Implementation-Review-Complete", "Implementation-Blocked"}
        /\ st'.decision = st.decision /\ st'.consumed = st.consumed
    BY <1>4 DEF Implement
  <2> QED
    BY <2>1 DEF ReworkSound
<1>5. CASE NewWork
  <2>1. /\ st'.gates = [g \in P5Gates |-> "pending"] /\ st'.gate = "Ticket-Input-Gate"
        /\ st'.decision = st.decision /\ st'.consumed = st.consumed
    BY <1>5 DEF NewWork
  <2>2. GatesTold(st'.gates, facts')
    BY <2>1 DEF GatesTold, P5Gates
  <2> QED
    BY <2>1, <2>2 DEF ReworkSound
<1> QED
  BY <1>1, <1>2, <1>3, <1>4, <1>5

LEMMA ReworkInvariant == Spec => []ReworkSound
<1>1. Init => ReworkSound
  BY DEF Init, FreshState, ReworkSound, GatesTold, P5Gates, AtEvidenceGate
<1>2. TypeOK /\ ReworkSound /\ [Next]_vars => ReworkSound'
  <2> SUFFICES ASSUME TypeOK, ReworkSound, [Next]_vars PROVE ReworkSound'
    OBVIOUS
  <2>1. CASE UNCHANGED vars
    BY <2>1 DEF vars, ReworkSound
  <2>2. CASE Next
    BY <2>2, ContinueKeepsRework, TicketKeepsRework, PlanKeepsRework, OthersKeepRework
       DEF Next, Rails
  <2> QED
    BY <2>1, <2>2
<1> QED
  BY <1>1, <1>2, SessionTypeCorrect, PTL DEF Spec

\* /continue never leaves a Phase 6 with an open gate on disk, whatever the
\* kernel answered and whatever was on disk before.
THEOREM NoMixedState == Spec => ContinueLeavesNoMixedState
<1>1. ASSUME TypeOK, Continue, st'.phase = "6" PROVE OpenGates(st'.gates) = {}
  <2>1. PICK o \in ContinueOutcomes : st' \in {o.st, AutoApprove(o.st)}
    BY <1>1, ContinueStep
  <2>2. o.st.phase = "6" /\ st'.gates = o.st.gates
    BY <1>1, <2>1, OutcomeType, AutoApproveRun
  <2>3. PICK q, ready, r, m : Shape(o, q, ready, r, m)
    BY <1>1, OutcomeShape
  <2>4. Kept(m, o.st)
    BY <2>2, <2>3, Corrected DEF Shape, TakenBack
  <2> QED
    BY <2>2, <2>3, <2>4 DEF Shape, Kept, NormalizerOpenGates
<1>2. TypeOK /\ [Next]_vars
        => [st'.phase = "6" /\ OpenGates(st'.gates) # {} => ~Continue]_vars
  BY <1>1
<1> QED
  BY <1>2, SessionTypeCorrect, PTL DEF Spec, ContinueLeavesNoMixedState

\* /continue takes a session back only to the phase of a gate that is open on
\* disk: the P5.4 the normalizer opens while rework is clarified is open there.
THEOREM RegressesToOpenGate == Spec => ContinueRegressesToOpenGate
<1>1. ASSUME TypeOK, DecisionInv, ReworkSound, Continue,
             PhaseRank[st'.phase] < PhaseRank[st.phase]
      PROVE  \E g \in OpenGates(st'.gates) : st'.phase = PhaseOfGate(g)
  <2>1. PICK o \in ContinueOutcomes : st' \in {o.st, AutoApprove(o.st)}
    BY <1>1, ContinueStep
  <2>2. o.st.phase = st'.phase /\ st'.gates = o.st.gates
    BY <1>1, <2>1, OutcomeType, AutoApproveRun
  <2>3. PICK q, ready, r, m : Shape(o, q, ready, r, m)
    BY <1>1, OutcomeShape
  <2>4. CASE Kept(m, o.st)
    <3>1. \/ PhaseRank[r.phase] >= PhaseRank[st.phase]
          \/ AtEvidenceGate(st) /\ st.decision = "reject"
      BY <1>1, <2>3, ShapeFacts DEF Shape, ResultReasons
    <3>2. ~(AtEvidenceGate(st) /\ st.decision = "reject")
      BY <1>1 DEF DecisionInv, DecisionSound
    <3>3. r.phase \in Tokens /\ st.phase \in Tokens /\ st'.phase = r.phase
      BY <1>1, <2>2, <2>3, <2>4, ShapeFacts DEF Shape, Kept, WellFormed, TypeOK, SessionState
    <3>4. \A t \in Tokens : PhaseRank[t] \in Nat
      BY DEF PhaseRank, Tokens
    <3> QED
      BY <1>1, <3>1, <3>2, <3>3, <3>4
  <2>5. CASE TakenBack(m, o.st)
    <3>1. PICK g \in NormalizerOpenGates(m) : st'.phase = PhaseOfGate(g)
      BY <2>2, <2>5 DEF TakenBack
    <3>2. GatesTold(m.gates, facts)
      BY <1>1, <2>3, ShapeTells DEF ReworkSound
    <3>3. g \in OpenGates(m.gates)
      <4>1. CASE g \in OpenGates(m.gates)
        BY <4>1
      <4>2. CASE /\ g = "P5.4-BusinessRules" /\ BusinessRulesExecuted(facts)
                 /\ P54Status(m.gates, facts) \in {"gap-detected", "pending"}
        <5>1. m.gates["P5.4-BusinessRules"] \notin {"compliant", "not-applicable"}
          BY <3>2, <4>2 DEF GatesTold, P54Status
        <5> QED
          BY <4>2, <5>1 DEF OpenGates, TerminalValues, P5Gates
      <4> QED
        BY <3>1, <4>1, <4>2 DEF NormalizerOpenGates
    <3> QED
      BY <2>2, <2>3, <3>1, <3>3 DEF Shape
  <2> QED
    BY <2>3, <2>4, <2>5 DEF Shape
<1>2. TypeOK /\ DecisionInv /\ ReworkSound /\ [Next]_vars
        => [PhaseRank[st'.phase] < PhaseRank[st.phase] /\ Continue =>
              \E g \in OpenGates(st'.gates) : st'.phase = PhaseOfGate(g)]_vars
  BY <1>1
<1> QED
  BY <1>2, SessionTypeCorrect, DecisionInvariant, ReworkInvariant, PTL
     DEF Spec, ContinueRegressesToOpenGate

\* Requested changes are not talked away: /continue keeps the session at the
\* clarification, also when the kernel refuses to execute Phase 6.
THEOREM ReworkStaysRequested == Spec => ReworkNotContinuedAway
<1>1. ASSUME TypeOK, DecisionInv, ReworkSound, Continue,
             st.gate = "Rework-Clarification-Gate", st'.phase = "6"
      PROVE  st'.gate = st.gate
  <2>1. PICK o \in ContinueOutcomes :
           \/ st' = o.st
           \/ o.by = "pipeline-auto-approve" /\ st' = AutoApprove(o.st)
    BY <1>1, ContinueStep
  <2>2. o.st.phase = "6"
    BY <1>1, <2>1, OutcomeType, AutoApproveRun
  <2>3. PICK q, ready, r, m : Shape(o, q, ready, r, m)
    BY <1>1, OutcomeShape
  <2>4. Kept(m, o.st)
    BY <2>2, <2>3, Corrected DEF Shape, TakenBack
  <2>5. st.phase = "6" /\ ~st.consumed /\ Unstarted(st) /\ Requested(st) = "6"
    BY <1>1 DEF ReworkSound, DecisionInv, DecisionSound, Requested
  <2>6. /\ ResultReasons("6", q, facts, r) /\ Unstarted(q) /\ ReworkPending(q)
        /\ ~AtEvidenceGate(q) /\ q.phase = "6"
    BY <1>1, <2>3, <2>5, ShapeFacts DEF Shape, AsBefore, ReworkPending, AtEvidenceGate
  <2>7. CanPromote(q.gates, facts)
    <3> SUFFICES ASSUME ~CanPromote(q.gates, facts) PROVE FALSE
      OBVIOUS
    <3>1. r.status = "BLOCKED"
      BY <2>6 DEF ResultReasons
    <3>2. q.gates \in GateMap /\ st \in SessionState /\ facts \in Facts
      BY <1>1, <2>3 DEF Shape, SessionState, GateMap, TypeOK
    <3>3. Materialize(q, r).gates = q.gates /\ Materialize(q, r) \in SessionState
      BY <1>1, <2>3, <3>1, <3>2, ShapeFacts, BlockedPropagates
    <3>4. m.gates = q.gates
      BY <2>3, <3>2, <3>3, SyncTwice DEF Shape
    <3>5. OpenGates(q.gates) = {}
      BY <2>2, <2>4, <3>4 DEF Kept, NormalizerOpenGates
    <3>6. GatesTold(q.gates, facts)
      BY <1>1, <2>3, ShapeTells DEF ReworkSound
    <3> QED
      BY <3>5, <3>6, ClosedIsPromotable
  <2>8. r.gate = "Rework-Clarification-Gate" /\ o.st.gate = r.gate
    BY <2>3, <2>4, <2>6, <2>7 DEF Shape, Kept, ResultReasons
  <2>9. o.by # "pipeline-auto-approve"
    BY <2>3, <2>6 DEF Shape, ResultReasons
  <2> QED
    BY <1>1, <2>1, <2>8, <2>9
<1>2. TypeOK /\ DecisionInv /\ ReworkSound /\ [Next]_vars
        => [st.gate = "Rework-Clarification-Gate" /\ st'.gate # st.gate /\ st'.phase = "6"
              => ~Continue]_vars
  BY <1>1
<1> QED
  BY <1>2, SessionTypeCorrect, DecisionInvariant, ReworkInvariant, PTL
     DEF Spec, ReworkNotContinuedAway

-----------------------------------------------------------------------------
(* The authority to implement. *)

\* AuthorityBacked, for the rails of one work run, needs that a session above
\* Phase 4 has a ticket (the pair that is approved names one), that a decision
\* to approve is never there without the authorisation, and that no rework is
\* open beside it: consuming one would send the session back to plan and leave
\* the authorisation.
Backed ==
    /\ st.phase = "4" => st.next = "4"
    /\ st.phase # "4" => st.ticket # NoTicket
    /\ st.pkg.fresh => st.pkg.ticket # NoTicket
    /\ st.decision = "approve" => st.wf
    /\ st.wf => /\ st.phase = "6" /\ OpenGates(st.gates) = {} /\ ~ReworkActive(st)
                /\ ApprovedPlan(planRecord)

\* What /continue writes first, of a session whose authority was backed.
LEMMA OutcomeBacked ==
    ASSUME TypeOK, DecisionInv, Backed, NEW o \in ContinueOutcomes
    PROVE  /\ o.st.phase = "4" => o.st.next = "4"
           /\ o.st.phase # "4" => o.st.ticket # NoTicket
           /\ o.st.pkg.fresh => o.st.pkg.ticket # NoTicket
           /\ o.st.decision = "approve" => o.st.wf
           /\ o.st.wf => /\ st.wf /\ o.st.phase = "6" /\ OpenGates(o.st.gates) = {}
                         /\ ~ReworkActive(o.st)
           /\ o.by = "pipeline-auto-approve" =>
                 /\ st.phase = "6" /\ o.st.phase = "6" /\ OpenGates(o.st.gates) = {}
<1>1. PICK q, ready, r, m : Shape(o, q, ready, r, m)
  BY OutcomeShape
<1>2. /\ ResultReasons(Requested(st), q, facts, r) /\ WellFormed(r)
      /\ (Unstarted(q) <=> Unstarted(st)) /\ (AtEvidenceGate(q) <=> AtEvidenceGate(st))
      /\ Materialize(q, r) \in SessionState
      /\ Materialize(q, r).gates = Propagate(q.gates, r)
      /\ o.st \in SessionState
  BY <1>1, ShapeFacts
<1>3. st \in SessionState /\ facts \in Facts /\ q \in SessionState /\ m \in SessionState
  BY <1>1 DEF TypeOK, Shape
<1>4. r.phase # "4" => o.st.ticket # NoTicket
  <2>1. CASE st.phase # "4"
    BY <1>1, <2>1 DEF Shape, AsBefore, Backed
  <2>2. CASE st.phase = "4"
    <3>1. Requested(st) = "4"
      BY <2>2 DEF Requested, Backed
    <3> QED
      BY <1>1, <1>2, <2>2, <3>1 DEF Shape, AsBefore, ResultReasons
  <2> QED
    BY <2>1, <2>2
<1>5. TakenBack(m, o.st) => r.phase = "6" /\ o.st.phase # "4"
  BY <1>1, Corrected DEF Shape, TakenBack
<1>6. Kept(m, o.st) => o.st.phase = r.phase /\ o.st.next = r.next /\ o.st.gate = r.gate
  BY <1>1 DEF Shape, Kept
<1>7. o.st.phase = "4" => o.st.next = "4"
  BY <1>1, <1>2, <1>5, <1>6 DEF Shape, ResultReasons
<1>8. o.st.phase # "4" => o.st.ticket # NoTicket
  BY <1>1, <1>4, <1>5, <1>6 DEF Shape
<1>9. o.st.pkg.fresh => o.st.pkg.ticket # NoTicket
  BY <1>1, <1>8 DEF Shape, JustPresented
<1>10. ASSUME st.wf PROVE Kept(m, o.st) /\ r.gate # "Rework-Clarification-Gate"
  <2>1. OpenGates(q.gates) = {}
    BY <1>1, <1>3, <1>10, ClosedStay DEF Shape, Backed
  <2>2. OpenGates(Materialize(q, r).gates) = {}
    BY <1>2, <1>3, <2>1, ClosedStay
  <2>3. OpenGates(m.gates) = {}
    BY <1>1, <1>2, <2>2, ClosedStay DEF Shape
  <2>4. r.gate # "Rework-Clarification-Gate"
    BY <1>2, <1>10 DEF ResultReasons, Unstarted
  <2>5. NormalizerOpenGates(m) = {}
    BY <1>1, <2>3, <2>4 DEF Shape, NormalizerOpenGates
  <2> QED
    BY <1>1, <2>4, <2>5 DEF Shape, TakenBack
<1>11. o.st.decision = "approve" => o.st.wf
  BY <1>1, <1>10 DEF Shape, Kept, Backed
<1>12. ASSUME o.st.wf
       PROVE  st.wf /\ o.st.phase = "6" /\ OpenGates(o.st.gates) = {} /\ ~ReworkActive(o.st)
  <2>1. st.wf /\ Kept(m, o.st)
    BY <1>1, <1>12 DEF Shape, Kept, TakenBack
  <2>2. st.phase = "6" /\ ~ReworkActive(st) /\ Requested(st) = "6"
    BY <2>1 DEF Backed, Requested, DecisionInv, DecisionSound
  <2>3. o.st.phase = "6" /\ o.st.gate = r.gate
    BY <1>1, <1>2, <1>6, <2>1, <2>2 DEF Shape, ResultReasons
  <2>4. OpenGates(o.st.gates) = {}
    BY <1>1, <2>1, <2>3 DEF Shape, Kept, NormalizerOpenGates
  <2>5. o.st.p6state # "6.rework"
    BY <1>1, <2>1, <2>2 DEF Shape, Kept, ReworkActive
  <2> QED
    BY <1>10, <2>1, <2>3, <2>4, <2>5 DEF ReworkActive
<1>13. ASSUME o.by = "pipeline-auto-approve"
       PROVE  st.phase = "6" /\ o.st.phase = "6" /\ OpenGates(o.st.gates) = {}
  <2>1. /\ r.gate = "Pipeline-Auto-Approved" /\ r.phase = "6"
        /\ AtEvidenceGate(st) /\ CanPromote(q.gates, facts)
    BY <1>1, <1>2, <1>13 DEF Shape, ResultReasons
  <2>2. GatesSettled(q.gates, facts) /\ q.gates \in GateMap
    BY <1>1, <1>3, SyncKeeps DEF Shape, DecisionInv, DecisionSound, SessionState, GateMap
  <2>3. /\ GatesSettled(Materialize(q, r).gates, facts)
        /\ CanPromote(Materialize(q, r).gates, facts)
    BY <1>2, <2>1, <2>2, PropagateKeeps
  <2>4. GatesSettled(m.gates, facts) /\ CanPromote(m.gates, facts)
    BY <1>1, <1>2, <1>3, <2>3, SyncKeeps DEF Shape
  <2>5. NormalizerOpenGates(m) = {}
    BY <1>1, <2>1, <2>4, PromotableIsClosed DEF Shape, NormalizerOpenGates
  <2>6. Kept(m, o.st)
    BY <1>1, <2>5 DEF Shape, TakenBack
  <2>7. o.st.phase = "6" /\ OpenGates(o.st.gates) = {}
    BY <1>1, <2>1, <2>5, <2>6 DEF Shape, Kept, NormalizerOpenGates
  <2> QED
    BY <2>1, <2>7 DEF DecisionInv, DecisionSound
<1> QED
  BY <1>7, <1>8, <1>9, <1>11, <1>12, <1>13

\* The rails one by one.
LEMMA ContinueKeepsBacked ==
    ASSUME TypeOK, DecisionInv, Backed, Continue \/ ContinueInterrupted PROVE Backed'
<1>1. PICK o \in ContinueOutcomes :
         /\ planRecord' = planRecord
         /\ \/ st' = o.st /\ approved \subseteq approved'
            \/ /\ o.by = "pipeline-auto-approve" /\ st' = AutoApprove(o.st)
               /\ approved' = approved \cup {<<planRecord, st.ticket>>}
  BY ContinueStep
<1>2. CASE st' = o.st /\ approved \subseteq approved'
  <2>1. st.wf => ApprovedPlan(planRecord)'
    BY <1>1, <1>2 DEF Backed, ApprovedPlan
  <2> QED
    BY <1>1, <1>2, <2>1, OutcomeBacked DEF Backed
<1>3. CASE /\ o.by = "pipeline-auto-approve" /\ st' = AutoApprove(o.st)
           /\ approved' = approved \cup {<<planRecord, st.ticket>>}
  <2>1. /\ st'.phase = o.st.phase /\ st'.next = o.st.next /\ st'.ticket = o.st.ticket
        /\ st'.pkg = o.st.pkg /\ st'.gates = o.st.gates
        /\ st'.wf /\ st'.gate = "Workflow-Complete" /\ st'.p6state = "6.complete"
    BY <1>3, OutcomeType, AutoApproveRun DEF AsBefore
  <2>2. st.ticket \in Tickets
    BY <1>3, OutcomeBacked DEF Backed, TypeOK, SessionState
  <2>3. ApprovedPlan(planRecord)'
    BY <1>1, <1>3, <2>2 DEF ApprovedPlan
  <2> QED
    BY <1>1, <1>3, <2>1, <2>3, OutcomeBacked DEF Backed, ReworkActive
<1> QED
  BY <1>1, <1>2, <1>3

LEMMA TicketKeepsBacked ==
    ASSUME TypeOK, Backed, NEW t \in Tickets, Ticket(t) PROVE Backed'
<1> DEFINE c == ConsumeRework(st, "4", "Ticket-Input-Gate")
           s == [c EXCEPT !.ticket = t]
<1>1. st \in SessionState /\ c \in SessionState
  BY ConsumeReworkType, RailGates DEF TypeOK, Tokens
<1>2. /\ \/ c.decision = "none" /\ ReworkActive(st)
         \/ c = st /\ ~ReworkActive(st)
      /\ c.gates = st.gates /\ c.wf = st.wf /\ c.pkg = st.pkg
  BY <1>1, ConsumeRun
<1> HIDE DEF c
<1>3. /\ s \in SessionState /\ s.ticket = t
      /\ s.phase = c.phase /\ s.gate = c.gate /\ s.gates = c.gates /\ s.p6state = c.p6state
      /\ s.decision = c.decision /\ s.wf = c.wf /\ s.pkg = c.pkg
  BY <1>1 DEF SessionState
<1>4. PICK r \in Execute(s.phase, s, PlanReady(s), facts) :
         /\ st' = WithKernelResult(s, r)
         /\ planRecord' = planRecord /\ approved' = approved
  BY DEF Ticket, c
<1> HIDE DEF s
<1>5. /\ st'.gates = Propagate(s.gates, r) /\ st'.gate = r.gate /\ st'.phase = r.phase
      /\ st'.next = r.next /\ st'.ticket = t /\ st'.p6state = s.p6state
      /\ st'.decision = s.decision /\ st'.wf = s.wf /\ st'.pkg = s.pkg
  BY <1>3, <1>4, KernelRun DEF AsBefore
<1>6. s.phase \in Tokens
  BY <1>3 DEF SessionState
<1>7. ResultReasons(s.phase, s, facts, r)
  BY <1>4, <1>6, ExecuteReasons
<1>8. t # NoTicket
  BY SessionAssumption
<1>9. ASSUME st'.wf
      PROVE  st'.phase = "6" /\ OpenGates(st'.gates) = {} /\ ~ReworkActive(st')
  <2>1. st.wf /\ c = st
    BY <1>2, <1>3, <1>5, <1>9 DEF Backed
  <2>2. s.phase = "6" /\ OpenGates(s.gates) = {} /\ s.p6state # "6.rework" /\ ~Unstarted(s)
    BY <1>3, <2>1 DEF Backed, ReworkActive, Unstarted
  <2>3. st'.phase = "6" /\ st'.gate # "Rework-Clarification-Gate"
    BY <1>5, <1>7, <2>2 DEF ResultReasons
  <2>4. OpenGates(st'.gates) = {}
    BY <1>3, <1>5, <2>2, ClosedStay
  <2> QED
    BY <1>5, <2>2, <2>3, <2>4 DEF ReworkActive
<1>10. st'.decision = "approve" => st'.wf
  BY <1>2, <1>3, <1>5 DEF Backed
<1>11. st'.wf => ApprovedPlan(planRecord)'
  BY <1>2, <1>3, <1>4, <1>5 DEF Backed, ApprovedPlan
<1>12. /\ st'.phase = "4" => st'.next = "4"
       /\ st'.phase # "4" => st'.ticket # NoTicket
       /\ st'.pkg.fresh => st'.pkg.ticket # NoTicket
  BY <1>2, <1>3, <1>5, <1>7, <1>8 DEF ResultReasons, Backed
<1> QED
  BY <1>9, <1>10, <1>11, <1>12 DEF Backed

LEMMA PlanKeepsBacked ==
    ASSUME TypeOK, Backed, NEW p \in Plans, Plan(p) \/ PlanInterrupted(p)
    PROVE  Backed'
<1> DEFINE c == ConsumeRework(st, "5", "Plan-Record-Preparation-Gate")
           s == [c EXCEPT !.p5met = TRUE, !.contracts = TRUE]
<1>1. st \in SessionState /\ c \in SessionState
  BY ConsumeReworkType, RailGates DEF TypeOK, Tokens
<1>2. /\ \/ c.decision = "none" /\ ReworkActive(st)
         \/ c = st /\ ~ReworkActive(st)
      /\ c.wf = st.wf /\ c.pkg = st.pkg /\ c.ticket = st.ticket
  BY <1>1, ConsumeRun
<1>3. c.phase = "5" /\ c.ticket # NoTicket
  BY DEF Plan, PlanInterrupted, RecordPlan, PlanAllowed
<1>4. ~st.wf /\ st.decision # "approve"
  BY <1>2, <1>3 DEF Backed
<1>5. CASE Plan(p)
  <2> HIDE DEF c
  <2>1. /\ s \in SessionState
        /\ s.phase = c.phase /\ s.ticket = c.ticket
        /\ s.decision = c.decision /\ s.wf = c.wf /\ s.pkg = c.pkg
    BY <1>1 DEF SessionState
  <2>2. PICK r \in Execute("5", s, TRUE, facts) :
           st' = [WithKernelResult(s, r) EXCEPT !.planSeen = TRUE]
    BY <1>5 DEF Plan, PlanWritten, c
  <2> HIDE DEF s
  <2> DEFINE k == WithKernelResult(s, r)
  <2>3. /\ k.phase = r.phase /\ k.next = r.next /\ k.ticket = s.ticket
        /\ k.decision = s.decision /\ k.wf = s.wf /\ k.pkg = s.pkg
        /\ DOMAIN k = DOMAIN s
    BY <2>1, KernelRun DEF AsBefore
  <2>4. st' = [k EXCEPT !.planSeen = TRUE]
    BY <2>2
  <2> HIDE DEF k
  <2>5. /\ st'.phase = k.phase /\ st'.next = k.next /\ st'.ticket = k.ticket
        /\ st'.decision = k.decision /\ st'.wf = k.wf /\ st'.pkg = k.pkg
    BY <2>1, <2>3, <2>4 DEF SessionState
  <2>6. ResultReasons("5", s, facts, r)
    <3>1. "5" \in Tokens /\ s.phase = "5"
      BY <1>3, <2>1 DEF Tokens
    <3> QED
      BY <2>2, <3>1, ExecuteReasons
  <2>7. ~st'.wf /\ st'.decision # "approve"
    BY <1>2, <1>4, <2>1, <2>3, <2>5
  <2>8. /\ st'.phase = "4" => st'.next = "4"
        /\ st'.ticket # NoTicket
        /\ st'.pkg.fresh => st'.pkg.ticket # NoTicket
    BY <1>2, <1>3, <2>1, <2>3, <2>5, <2>6 DEF ResultReasons, Backed
  <2> QED
    BY <2>7, <2>8 DEF Backed
<1>6. CASE PlanInterrupted(p)
  BY <1>4, <1>6 DEF PlanInterrupted, Backed
<1> QED
  BY <1>5, <1>6

LEMMA DecisionsKeepBacked ==
    ASSUME TypeOK, DecisionInv, RecordSound, Backed,
           \/ Approve \/ RequestChanges \/ Reject
           \/ \E outcome \in ImplementOutcomes : Implement(outcome)
    PROVE  Backed'
<1>1. CASE Approve
  <2> DEFINE v == [st EXCEPT !.decision = "approve", !.wf = TRUE, !.gate = "Workflow-Complete",
                             !.p6state = "6.complete"]
  <2>1. /\ v.phase = st.phase /\ v.next = st.next /\ v.ticket = st.ticket /\ v.pkg = st.pkg
        /\ v.gates = st.gates /\ v.gate = "Workflow-Complete" /\ v.p6state = "6.complete"
        /\ v.wf /\ DOMAIN v = DOMAIN st
    BY DEF TypeOK, SessionState
  <2>2. st' = [v EXCEPT !.revComplete = TRUE, !.review = "completed", !.consumed = FALSE]
    BY <1>1 DEF Approve
  <2> HIDE DEF v
  <2>3. /\ st'.phase = st.phase /\ st'.next = st.next /\ st'.ticket = st.ticket
        /\ st'.pkg = st.pkg /\ st'.gates = st.gates /\ st'.gate = "Workflow-Complete"
        /\ st'.p6state = "6.complete" /\ st'.wf
    BY <2>1, <2>2
  <2>4. /\ Decidable /\ planRecord' = planRecord
        /\ approved' = approved \cup {<<st.pkg.plan, st.pkg.ticket>>}
    BY <1>1 DEF Approve
  <2>5. st.phase = "6" /\ AtEvidenceGate(st) /\ st.pkg.fresh
    BY <2>4 DEF Decidable, PackageReady
  <2>6. st.pkg.plan = planRecord
    BY <2>5 DEF RecordSound, ReworkActive, AtEvidenceGate
  <2>7. st.pkg \in Package
    BY DEF TypeOK, SessionState
  <2>8. st.pkg.ticket \in Tickets
    BY <2>5, <2>7 DEF Backed, Package
  <2>9. ApprovedPlan(planRecord)'
    BY <2>4, <2>6, <2>8 DEF ApprovedPlan
  <2>10. OpenGates(st.gates) = {}
    BY <2>5 DEF DecisionInv, DecisionSound
  <2> QED
    BY <2>3, <2>5, <2>9, <2>10 DEF Backed, ReworkActive
<1>2. CASE RequestChanges
  <2> DEFINE v == [st EXCEPT !.decision = "changes_requested", !.next = "6",
                             !.gate = "Rework-Clarification-Gate", !.p6state = "6.rework",
                             !.consumed = FALSE]
  <2>1. /\ v.phase = st.phase /\ v.ticket = st.ticket /\ v.pkg = st.pkg
        /\ v.decision = "changes_requested" /\ DOMAIN v = DOMAIN st
    BY DEF TypeOK, SessionState
  <2>2. /\ st' = [v EXCEPT !.revComplete = FALSE, !.blkComplete = FALSE,
                           !.review = "changes-requested", !.iter = 0, !.wf = FALSE]
        /\ st.phase = "6"
    BY <1>2 DEF RequestChanges, Decidable
  <2>3. "wf" \in DOMAIN st
    BY DEF TypeOK, SessionState
  <2> HIDE DEF v
  <2>4. /\ st'.phase = "6" /\ st'.ticket = st.ticket /\ st'.pkg = st.pkg
        /\ st'.decision = "changes_requested" /\ st'.wf = FALSE
    BY <2>1, <2>2, <2>3
  <2> QED
    BY <2>2, <2>4 DEF Backed
<1>3. CASE Reject
  <2>1. /\ st'.phase = "4" /\ st'.next = "4" /\ st'.pkg = st.pkg
        /\ st'.decision = "reject" /\ st'.wf = FALSE
    BY <1>3 DEF Reject, TypeOK, SessionState
  <2> QED
    BY <2>1 DEF Backed
<1>4. ASSUME NEW outcome \in ImplementOutcomes, Implement(outcome) PROVE Backed'
  <2>1. /\ st'.phase = st.phase /\ st'.ticket = st.ticket /\ st'.pkg = st.pkg
        /\ st'.decision = st.decision /\ st'.wf = st.wf /\ st'.gates = st.gates
        /\ st'.p6state = st.p6state
        /\ st'.gate \in {"Implementation-Review-Complete", "Implementation-Blocked"}
        /\ planRecord' = planRecord /\ approved' = approved
    BY <1>4 DEF Implement, TypeOK, SessionState
  <2>2. st.phase = "6"
    BY <1>4 DEF Implement, ImplementAllowed
  <2> QED
    BY <2>1, <2>2 DEF Backed, ReworkActive, ApprovedPlan
<1> QED
  BY <1>1, <1>2, <1>3, <1>4

\* The rails of one work run are rails of the session.
LEMMA WorkRunIsSession == WorkRun => Spec
<1>1. [Rails]_vars => [Next]_vars
  BY DEF Next
<1> QED
  BY <1>1, PTL DEF WorkRun, Spec

LEMMA BackedInvariant == WorkRun => []Backed
<1>1. Init => Backed
  BY DEF Init, FreshState, Backed
<1>2. TypeOK /\ DecisionInv /\ RecordSound /\ Backed /\ [Rails]_vars => Backed'
  <2> SUFFICES ASSUME TypeOK, DecisionInv, RecordSound, Backed, [Rails]_vars PROVE Backed'
    OBVIOUS
  <2>1. CASE UNCHANGED vars
    BY <2>1 DEF vars, Backed, ApprovedPlan
  <2>2. CASE Rails
    BY <2>2, ContinueKeepsBacked, TicketKeepsBacked, PlanKeepsBacked, DecisionsKeepBacked
       DEF Rails
  <2> QED
    BY <2>1, <2>2
<1> QED
  BY <1>1, <1>2, WorkRunIsSession, SessionTypeCorrect, DecisionInvariant, RecordInvariant, PTL
     DEF WorkRun

\* Within a work run, an authorisation to implement stands for an approved plan
\* that is still the one on record, in Phase 6, behind closed gates.  (/new-work
\* keeps it: run claim_new_work_authority.)
THEOREM AuthorityStandsOnApproval == WorkRun => []AuthorityBacked
<1>1. Backed => AuthorityBacked
  BY DEF Backed, AuthorityBacked
<1> QED
  BY <1>1, BackedInvariant, PTL

\* Within a work run, /implement works on a plan that was presented and approved.
THEOREM OnlyApprovedIsImplemented == WorkRun => ImplementsApprovedPlan
<1>1. Backed /\ [Rails]_vars
        => [(\E o \in ImplementOutcomes : Implement(o)) => ApprovedPlan(planRecord)]_vars
  BY DEF Backed, Implement, ImplementAllowed
<1> QED
  BY <1>1, BackedInvariant, PTL DEF WorkRun, ImplementsApprovedPlan
=============================================================================
