---------------------- MODULE GovernanceSessionProofs ----------------------
(***************************************************************************)
(* GovernanceSession for any tickets, plans and repository: what execute()  *)
(* can return, whatever session it is called on, and the types of the       *)
(* session.                                                                 *)
(***************************************************************************)
EXTENDS GovernanceSession, TLAPS

(* The kernel. *)

EdgesOf(t) == {Transitions[t][i] : i \in DOMAIN Transitions[t]}

\* What later proofs need to know of an edge of phase t.
EdgeFacts(t, e) ==
    /\ e.next \in Tokens
    /\ e.gate = "Evidence-Presentation-Gate" => t = "6" /\ e.next = "6"
    /\ t = "6" => e.next = "6" \/ e.when = "review_rejected"
    /\ t = "4" => e.next \in {"4", "5"}
    /\ e.when = "implementation_review_complete" => t = "6"

\* The transition table, phase by phase.
LEMMA EdgeTable == ASSUME NEW t \in Tokens, NEW e \in EdgesOf(t) PROVE EdgeFacts(t, e)
<1>1. PICK i \in DOMAIN Transitions[t] : e = Transitions[t][i]
  BY DEF EdgesOf
<1>2. CASE t = "4"
  <2>1. Transitions[t] = FromTicket
    BY <1>2 DEF Transitions, Tokens
  <2> QED
    BY <2>1, <1>1, <1>2 DEF FromTicket, Edge, Tokens, EdgeFacts
<1>3. CASE t = "5"
  <2>1. Transitions[t] = FromArchitecture
    BY <1>3 DEF Transitions, Tokens
  <2> QED
    BY <2>1, <1>1, <1>3 DEF FromArchitecture, Edge, Tokens, EdgeFacts
<1>4. CASE t = "5.3"
  <2>1. Transitions[t] = FromTestQuality
    BY <1>4 DEF Transitions, Tokens
  <2> QED
    BY <2>1, <1>1, <1>4 DEF FromTestQuality, Edge, Tokens, EdgeFacts
<1>5. CASE t = "5.4"
  <2>1. Transitions[t] = FromBusinessRules
    BY <1>5 DEF Transitions, Tokens
  <2> QED
    BY <2>1, <1>1, <1>5 DEF FromBusinessRules, Edge, Tokens, EdgeFacts
<1>6. CASE t = "5.5"
  <2>1. Transitions[t] = FromTechnicalDebt
    BY <1>6 DEF Transitions, Tokens
  <2> QED
    BY <2>1, <1>1, <1>6 DEF FromTechnicalDebt, Edge, Tokens, EdgeFacts
<1>7. CASE t = "5.6"
  <2>1. Transitions[t] = FromRollbackSafety
    BY <1>7 DEF Transitions, Tokens
  <2> QED
    BY <2>1, <1>1, <1>7 DEF FromRollbackSafety, Edge, Tokens, EdgeFacts
<1>8. CASE t = "6"
  <2>1. Transitions[t] = FromReview
    BY <1>8 DEF Transitions, Tokens
  <2> QED
    BY <2>1, <1>1, <1>8 DEF FromReview, Edge, Tokens, EdgeFacts
<1> QED
  BY <1>2, <1>3, <1>4, <1>5, <1>6, <1>7, <1>8 DEF Tokens

\* The gates results name.
LEMMA GatesKnown ==
    /\ \A t \in Tokens : \A i \in DOMAIN Transitions[t] : Transitions[t][i].gate \in KernelGates
    /\ \A t \in Tokens : DefaultGate(t) \in KernelGates
    /\ "Implementation-QA-Prerequisite-Gate" \in KernelGates
    /\ "Pipeline-Auto-Approved" \in KernelGates
<1>1. ASSUME NEW t \in Tokens, NEW i \in DOMAIN Transitions[t]
      PROVE  Transitions[t][i].gate \in KernelGates
  <2>1. Transitions[t][i].gate \in {Transitions[t][j].gate : j \in DOMAIN Transitions[t]}
    OBVIOUS
  <2>2. Transitions[t][i].gate
          \in UNION {{Transitions[u][j].gate : j \in DOMAIN Transitions[u]} : u \in Tokens}
    BY <2>1
  <2> QED
    BY <2>2 DEF KernelGates, EdgeGates
<1>2. ASSUME NEW t \in Tokens PROVE DefaultGate(t) \in KernelGates
  <2>1. DefaultGate(t) \in {DefaultGate(u) : u \in Tokens}
    OBVIOUS
  <2> QED
    BY <2>1 DEF KernelGates, DefaultGates
<1>3. /\ "Implementation-QA-Prerequisite-Gate" \in KernelGates
      /\ "Pipeline-Auto-Approved" \in KernelGates
  BY DEF KernelGates
<1> QED
  BY <1>1, <1>2, <1>3

\* An edge that is taken, with the guard that let a rejection be followed.
LEMMA SelectedEdge ==
    ASSUME NEW t \in Tokens, NEW s, NEW ready, NEW f, NEW e \in Selected(t, s, ready, f)
    PROVE  /\ EdgeFacts(t, e)
           /\ e.gate \in KernelGates
           /\ e.when = "review_rejected" => AtEvidenceGate(s) /\ s.decision = "reject"
<1>1. PICK i \in DOMAIN Transitions[t] :
         /\ Passes(Transitions[t][i].when, s, ready, f)
         /\ e = IF /\ Transitions[t][i].when = "implementation_review_complete"
                   /\ PipelineAutoApproveEligible(s, f)
                THEN AutoEdge ELSE Transitions[t][i]
  BY DEF Selected
<1>2. EdgeFacts(t, Transitions[t][i]) /\ Transitions[t][i].gate \in KernelGates
  BY EdgeTable, GatesKnown DEF EdgesOf
<1>3. CASE e = Transitions[t][i]
  <2>1. e.when = "review_rejected" => AtEvidenceGate(s) /\ s.decision = "reject"
    BY <1>1, <1>3 DEF Passes
  <2> QED
    BY <1>2, <1>3, <2>1
<1>4. CASE /\ e = AutoEdge
           /\ Transitions[t][i].when = "implementation_review_complete"
  <2>1. t = "6"
    BY <1>2, <1>4 DEF EdgeFacts
  <2>2. e.gate \in KernelGates
    BY <1>4, GatesKnown DEF AutoEdge, Edge
  <2> QED
    BY <1>4, <2>1, <2>2 DEF AutoEdge, Edge, EdgeFacts, Tokens
<1> QED
  BY <1>1, <1>3, <1>4

-----------------------------------------------------------------------------

WellFormed(r) ==
    /\ r.status \in {"OK", "BLOCKED"}
    /\ r.phase \in Tokens
    /\ r.next \in Tokens
    /\ r.gate \in KernelGates
    /\ r.stay \in BOOLEAN

\* The three ways execute() ends: at the requested phase, at the current one
\* when a lower one was requested, or blocked.
LEMMA ExecuteCases ==
    ASSUME NEW requested \in Tokens, NEW s, s.phase \in Tokens, NEW ready, NEW f,
           NEW r \in Execute(requested, s, ready, f)
    PROVE  \/ /\ r \in ExecuteAt(requested, s, ready, f)
              /\ \/ ~(PhaseRank[requested] < PhaseRank[s.phase])
                 \/ \E e \in Selected(s.phase, s, ready, f) : e.next = requested
           \/ /\ requested # s.phase /\ PhaseRank[requested] < PhaseRank[s.phase]
              /\ \E e \in Selected(s.phase, s, ready, f) :
                    r = KernelResult("OK", s.phase, e.next, e.gate, "monotonic", Stays(s.phase))
           \/ r = Blocked(s.phase, DefaultGate(s.phase)) /\ requested # s.phase
<1>1. CASE PhaseRank[requested] < PhaseRank[s.phase]
  <2>1. requested # s.phase
    BY <1>1 DEF PhaseRank, Tokens
  <2>2. PICK e \in Selected(s.phase, s, ready, f) :
           r \in IF e.next = requested /\ s.evidence
                 THEN ExecuteAt(requested, s, ready, f)
                 ELSE {KernelResult("OK", s.phase, e.next, e.gate, "monotonic", Stays(s.phase))}
    BY <1>1 DEF Execute
  <2> QED
    BY <1>1, <2>1, <2>2
<1>2. CASE ~(PhaseRank[requested] < PhaseRank[s.phase])
  <2>1. requested = s.phase =>
           requested \in Requestable(s.phase) /\ ~(PhaseRank[requested] > PhaseRank[s.phase])
    BY DEF Requestable, PhaseRank, Tokens
  <2> QED
    BY <1>2, <2>1 DEF Execute
<1> QED
  BY <1>1, <1>2

\* execute() shows the Evidence Presentation Gate only for a session that may
\* be promoted, unless a Phase-6 session asked for something lower; a Phase-6
\* result points elsewhere only when a rejection is followed; and a session
\* that asks for its own Phase 4 or 5 stays there.
ResultFacts(requested, s, f, r) ==
    /\ r.gate = "Evidence-Presentation-Gate" =>
          /\ r.phase = "6" /\ r.next = "6"
          /\ CanPromote(s.gates, f) \/ (s.phase = "6" /\ requested # "6")
    /\ r.phase = "6" => r.next = "6" \/ (AtEvidenceGate(s) /\ s.decision = "reject")
    /\ requested = s.phase /\ s.phase \in {"4", "5"} => r.phase \in {"4", "5"}

LEMMA ExecuteAtReturns ==
    ASSUME NEW t \in Tokens, NEW s, s.phase \in Tokens, NEW ready, NEW f,
           NEW r \in ExecuteAt(t, s, ready, f)
    PROVE  WellFormed(r) /\ ResultFacts(t, s, f, r)
<1>1. CASE t = "6" /\ ~CanPromote(s.gates, f)
  <2>1. r = KernelResult("BLOCKED", "6", "6", "Implementation-QA-Prerequisite-Gate", "blocked", TRUE)
    BY <1>1 DEF ExecuteAt, Blocked, Stays
  <2> QED
    BY <2>1, <1>1, GatesKnown DEF KernelResult, WellFormed, Tokens, ResultFacts
<1>2. CASE ~(t = "6" /\ ~CanPromote(s.gates, f))
  <2>1. PICK e \in Selected(t, s, ready, f) :
           r = KernelResult("OK", IF Stays(t) THEN t ELSE e.next, e.next, e.gate, e.when, Stays(t))
    BY <1>2 DEF ExecuteAt
  <2>2. /\ EdgeFacts(t, e)
        /\ e.gate \in KernelGates
        /\ e.when = "review_rejected" => AtEvidenceGate(s) /\ s.decision = "reject"
    BY SelectedEdge
  <2>3. WellFormed(r)
    BY <2>1, <2>2 DEF KernelResult, WellFormed, EdgeFacts, Stays
  <2>4. ResultFacts(t, s, f, r)
    BY <1>2, <2>1, <2>2 DEF KernelResult, EdgeFacts, Stays, ResultFacts, Tokens
  <2> QED
    BY <2>3, <2>4
<1> QED
  BY <1>1, <1>2

LEMMA ExecuteReturns ==
    ASSUME NEW requested \in Tokens, NEW s, s.phase \in Tokens, NEW ready, NEW f,
           NEW r \in Execute(requested, s, ready, f)
    PROVE  WellFormed(r) /\ ResultFacts(requested, s, f, r)
<1>1. CASE r \in ExecuteAt(requested, s, ready, f)
  BY <1>1, ExecuteAtReturns
<1>2. ASSUME requested # s.phase, NEW e \in Selected(s.phase, s, ready, f),
             r = KernelResult("OK", s.phase, e.next, e.gate, "monotonic", Stays(s.phase))
      PROVE  WellFormed(r) /\ ResultFacts(requested, s, f, r)
  <2>1. /\ EdgeFacts(s.phase, e)
        /\ e.gate \in KernelGates
        /\ e.when = "review_rejected" => AtEvidenceGate(s) /\ s.decision = "reject"
    BY SelectedEdge
  <2>2. WellFormed(r)
    BY <1>2, <2>1 DEF KernelResult, WellFormed, EdgeFacts, Stays
  <2>3. ResultFacts(requested, s, f, r)
    BY <1>2, <2>1 DEF KernelResult, EdgeFacts, ResultFacts
  <2> QED
    BY <2>2, <2>3
<1>3. CASE r = Blocked(s.phase, DefaultGate(s.phase))
  <2>1. DefaultGate(s.phase) \in KernelGates /\ DefaultGate(s.phase) # "Evidence-Presentation-Gate"
    BY GatesKnown DEF DefaultGate, Tokens
  <2> QED
    BY <1>3, <2>1 DEF Blocked, KernelResult, WellFormed, Stays, ResultFacts
<1> QED
  BY <1>1, <1>2, <1>3, ExecuteCases

-----------------------------------------------------------------------------
(* Types of the operators the rails are built from. *)

GateMap == [P5Gates -> GateValues]

LEMMA KernelGatesNamed == KernelGates \subseteq GateNames
  BY DEF GateNames

LEMMA PropagateType ==
    ASSUME NEW gates \in GateMap, NEW r PROVE Propagate(gates, r) \in GateMap
  BY DEF Propagate, GateMap, GateValues

LEMMA WithKernelResultType ==
    ASSUME NEW s \in SessionState, NEW r, WellFormed(r)
    PROVE  WithKernelResult(s, r) \in SessionState
<1>1. Propagate(s.gates, r) \in GateMap
  BY PropagateType DEF SessionState, GateMap
<1>2. PlanReady(s) \in BOOLEAN
  BY DEF PlanReady, SessionState
<1>3. r.phase \in Tokens /\ r.next \in Tokens /\ r.gate \in GateNames
  BY KernelGatesNamed DEF WellFormed
<1> QED
  BY <1>1, <1>2, <1>3 DEF WithKernelResult, SessionState, GateMap

LEMMA ConsumeReworkType ==
    ASSUME NEW s \in SessionState, NEW phase \in Tokens, NEW gate \in GateNames
    PROVE  ConsumeRework(s, phase, gate) \in SessionState
<1>1. CASE ReworkActive(s)
  <2> DEFINE u == [s EXCEPT !.p6state = "unset", !.decision = "none", !.consumed = TRUE,
                            !.phase = phase, !.next = phase, !.gate = gate]
  <2>1. u \in SessionState
    BY DEF SessionState
  <2> QED
    BY <1>1, <2>1 DEF ConsumeRework
<1>2. CASE ~ReworkActive(s)
  BY <1>2 DEF ConsumeRework
<1> QED
  BY <1>1, <1>2

LEMMA AfterLoopType ==
    ASSUME NEW s \in SessionState, NEW v \in Verdicts PROVE AfterLoop(s, v) \in SessionState
<1> DEFINE review == IF v = "approve" THEN "completed" ELSE "in-progress"
           p6state == IF v = "approve" THEN "6.complete" ELSE "6.execution"
           complete == v = "approve"
<1>1. /\ review \in {"none", "in-progress", "completed", "changes-requested"}
      /\ p6state \in {"unset", "6.execution", "6.complete", "6.rework"}
      /\ complete \in BOOLEAN
      /\ MaxReviewIterations \in 0 .. MaxReviewIterations
  BY DEF MaxReviewIterations
<1> HIDE DEF review, p6state, complete
<1> DEFINE u == [s EXCEPT !.iter = MaxReviewIterations, !.verdict = v, !.revComplete = complete]
<1>2. u \in SessionState
  BY <1>1 DEF SessionState
<1> HIDE DEF u
<1> DEFINE w == [u EXCEPT !.blkComplete = complete, !.review = review]
<1>3. w \in SessionState
  BY <1>1, <1>2 DEF SessionState
<1>4. [w EXCEPT !.p6state = p6state] \in SessionState
  <2> HIDE DEF w
  <2> QED
    BY <1>1, <1>3 DEF SessionState
<1> QED
  BY <1>4 DEF u, AfterLoop, review, p6state, complete

LEMMA SyncGatesType ==
    ASSUME NEW s \in SessionState, facts \in Facts PROVE SyncGates(s) \in SessionState
<1>1. /\ P54Status(s.gates, facts) # "pending" => P54Status(s.gates, facts) \in GateValues
      /\ P55Status(s.gates, facts) \in GateValues
      /\ P56Status(s.gates, facts) \in GateValues
  BY DEF P54Status, P55Status, P56Status, Facts, BusinessRulesExecuted, GateValues
<1>2. SyncGates(s).gates \in GateMap
  BY <1>1 DEF SyncGates, SessionState, GateMap
<1> QED
  BY <1>2 DEF SyncGates, SessionState, GateMap

LEMMA MaterializeType ==
    ASSUME NEW s \in SessionState, NEW r, WellFormed(r) PROVE Materialize(s, r) \in SessionState
<1>1. WithKernelResult(s, r) \in SessionState
  BY WithKernelResultType
<1> DEFINE k == WithKernelResult(s, r)
           decision == IF r.phase # "6" \/ r.by \in {"review_changes_requested", "review_rejected"}
                       THEN "none" ELSE k.decision
           evidence == k.evidence \/ (r.status = "OK" /\ (~r.stay \/ r.next # r.phase))
           iter == IF k.iter < MinReviewIterations /\ (r.phase = "6" \/ k.review # "none")
                   THEN MinReviewIterations ELSE k.iter
<1>2. /\ decision \in {"none", "approve", "changes_requested", "reject"}
      /\ evidence \in BOOLEAN
      /\ iter \in 0 .. MaxReviewIterations
  BY <1>1 DEF SessionState, MinReviewIterations, MaxReviewIterations, WellFormed
<1>3. Materialize(s, r) = [k EXCEPT !.decision = decision, !.evidence = evidence, !.iter = iter]
  BY DEF Materialize
<1> HIDE DEF k, decision, evidence, iter
<1>4. k \in SessionState
  BY <1>1 DEF k
<1> QED
  BY <1>2, <1>3, <1>4 DEF SessionState

LEMMA NormalizeType ==
    ASSUME NEW s \in SessionState, NEW u \in Normalize(s) PROVE u \in SessionState
<1>1. CompleteStaleReview(s) \in SessionState
  <2> DEFINE blk == s.blkComplete \/ ~s.revComplete
             review == IF s.p6state # "6.complete" THEN "completed" ELSE s.review
             done == [s EXCEPT !.blkComplete = blk, !.revComplete = TRUE,
                               !.review = review, !.p6state = "6.complete"]
  <2>1. blk \in BOOLEAN /\ review \in {"none", "in-progress", "completed", "changes-requested"}
    BY DEF SessionState
  <2>2. CompleteStaleReview(s) = done \/ CompleteStaleReview(s) = s
    BY DEF CompleteStaleReview
  <2>3. done \in SessionState
    <3> HIDE DEF blk, review
    <3> QED
      BY <2>1 DEF SessionState
  <2> QED
    BY <2>2, <2>3
<1>2. ASSUME NEW g \in P5Gates PROVE ResetToGate(s, g) \in SessionState
  <2>1. CorrectedGate(g) \in {CorrectedGate(h) : h \in P5Gates}
    OBVIOUS
  <2>2. CorrectedGate(g) \in GateNames
    BY <2>1 DEF GateNames
  <2>3. PhaseOfGate(g) \in Tokens
    BY DEF PhaseOfGate, Tokens, P5Gates
  <2> QED
    BY <2>2, <2>3 DEF ResetToGate, SessionState
<1>3. NormalizerOpenGates(s) \subseteq P5Gates
  BY DEF NormalizerOpenGates, OpenGates, P5Gates
<1> QED
  BY <1>1, <1>2, <1>3 DEF Normalize

LEMMA PresentType ==
    ASSUME NEW s \in SessionState, planRecord \in Plans \cup {NoPlan}
    PROVE  Present(s) \in SessionState
<1>1. s.pkg \in Package /\ s.ticket \in Tickets \cup {NoTicket}
  BY DEF SessionState
<1>2. \A pkg \in Package : [s EXCEPT !.pkg = pkg] \in SessionState
  BY DEF SessionState
<1>3. [plan |-> planRecord, ticket |-> s.ticket, fresh |-> TRUE] \in Package
  BY <1>1 DEF Package
<1>4. [s.pkg EXCEPT !.fresh = FALSE] \in Package
  BY <1>1 DEF Package
<1>5. [s EXCEPT !.pkg.fresh = FALSE] = [s EXCEPT !.pkg = [s.pkg EXCEPT !.fresh = FALSE]]
  OBVIOUS
<1> QED
  BY <1>2, <1>3, <1>4, <1>5 DEF Present

\* The gates the rails name themselves.
LEMMA RailGates ==
    {"Ticket-Input-Gate", "Plan-Record-Preparation-Gate", "Workflow-Complete",
     "Rework-Clarification-Gate", "Implementation-Blocked",
     "Implementation-Review-Complete"} \subseteq GateNames
<1>1. Transitions["6"] = FromReview /\ "6" \in Tokens
  BY DEF Transitions, Tokens
<1>2. /\ FromReview[1].gate = "Implementation-Blocked" /\ 1 \in DOMAIN FromReview
      /\ FromReview[3].gate = "Workflow-Complete" /\ 3 \in DOMAIN FromReview
      /\ FromReview[4].gate = "Rework-Clarification-Gate" /\ 4 \in DOMAIN FromReview
  BY DEF FromReview, Edge
<1>3. {"Implementation-Blocked", "Workflow-Complete", "Rework-Clarification-Gate"} \subseteq GateNames
  BY <1>1, <1>2, GatesKnown, KernelGatesNamed
<1>4. /\ "4" \in Tokens /\ DefaultGate("4") = "Ticket-Input-Gate"
      /\ "5" \in Tokens /\ DefaultGate("5") = "Plan-Record-Preparation-Gate"
  BY DEF DefaultGate, Tokens
<1>5. {"Ticket-Input-Gate", "Plan-Record-Preparation-Gate"} \subseteq GateNames
  BY <1>4, GatesKnown, KernelGatesNamed
<1>6. "Implementation-Review-Complete" \in GateNames
  BY DEF GateNames
<1> QED
  BY <1>3, <1>5, <1>6

LEMMA AutoApproveType ==
    ASSUME NEW s \in SessionState PROVE AutoApprove(s) \in SessionState
<1>1. "Workflow-Complete" \in GateNames
  BY RailGates
<1> QED
  BY <1>1 DEF AutoApprove, SessionState

LEMMA ReviewLoopType ==
    ASSUME NEW s \in SessionState, NEW u \in ReviewLoop(s) PROVE u \in SessionState
<1>1. LoopVerdicts(s) \subseteq Verdicts
  BY DEF LoopVerdicts, Verdicts
<1> QED
  BY <1>1, AfterLoopType DEF ReviewLoop

\* How an outcome of /continue comes about.
LEMMA OutcomeSteps ==
    ASSUME NEW o \in ContinueOutcomes
    PROVE  \E s1 \in ReviewLoop(st) :
             \E r \in Execute(Requested(st), SyncGates(s1), PlanReady(s1), facts) :
               \E s2 \in Normalize(SyncGates(Materialize(SyncGates(s1), r))) :
                 o = [by |-> r.by, ran |-> s1 # st, st |-> Present(s2)]
  BY DEF ContinueOutcomes

LEMMA OutcomeType ==
    ASSUME TypeOK, NEW o \in ContinueOutcomes PROVE o.st \in SessionState
<1>1. PICK s1 \in ReviewLoop(st) :
         \E r \in Execute(Requested(st), SyncGates(s1), PlanReady(s1), facts) :
           \E s2 \in Normalize(SyncGates(Materialize(SyncGates(s1), r))) : o.st = Present(s2)
  BY OutcomeSteps
<1>2. PICK r \in Execute(Requested(st), SyncGates(s1), PlanReady(s1), facts) :
         \E s2 \in Normalize(SyncGates(Materialize(SyncGates(s1), r))) : o.st = Present(s2)
  BY <1>1
<1>3. PICK s2 \in Normalize(SyncGates(Materialize(SyncGates(s1), r))) : o.st = Present(s2)
  BY <1>2
<1>4. SyncGates(s1) \in SessionState
  BY ReviewLoopType, SyncGatesType DEF TypeOK
<1>5. Requested(st) \in Tokens /\ SyncGates(s1).phase \in Tokens
  BY <1>4 DEF Requested, TypeOK, SessionState
<1>6. WellFormed(r)
  BY <1>5, ExecuteReturns
<1>7. SyncGates(Materialize(SyncGates(s1), r)) \in SessionState
  BY <1>4, <1>6, MaterializeType, SyncGatesType DEF TypeOK
<1>8. s2 \in SessionState
  BY <1>7, NormalizeType
<1> QED
  BY <1>3, <1>8, PresentType DEF TypeOK

-----------------------------------------------------------------------------
(* Type correctness. *)

LEMMA InitType == Init => TypeOK
<1> SUFFICES ASSUME Init PROVE TypeOK
  OBVIOUS
<1>1. "Ticket-Input-Gate" \in GateNames
  BY RailGates
<1>2. [plan |-> NoPlan, ticket |-> NoTicket, fresh |-> FALSE] \in Package
  BY DEF Package
<1>3. [g \in P5Gates |-> "pending"] \in GateMap
  BY DEF GateMap, GateValues
<1>4. FreshState \in SessionState
  BY <1>1, <1>2, <1>3 DEF FreshState, SessionState, GateMap, Tokens, Verdicts,
     MaxReviewIterations
<1>5. facts \in Facts
  BY SessionAssumption DEF Init
<1> QED
  BY <1>4, <1>5 DEF Init, TypeOK

LEMMA ContinueType == ASSUME TypeOK, Continue \/ ContinueInterrupted PROVE TypeOK'
<1>1. ASSUME NEW o \in ContinueOutcomes, ContinueWith(o) PROVE TypeOK'
  <2>1. o.st \in SessionState /\ AutoApprove(o.st) \in SessionState
    BY OutcomeType, AutoApproveType
  <2>2. st' \in SessionState
    BY <1>1, <2>1 DEF ContinueWith
  <2>3. reviewed' \subseteq Plans
    BY <1>1 DEF ContinueWith, TypeOK
  <2>4. approved' \subseteq (Plans \cup {NoPlan}) \X (Tickets \cup {NoTicket})
    BY <1>1 DEF ContinueWith, TypeOK, SessionState
  <2> QED
    BY <1>1, <2>2, <2>3, <2>4 DEF ContinueWith, TypeOK
<1>2. CASE ContinueInterrupted
  BY <1>2, OutcomeType DEF ContinueInterrupted, TypeOK
<1> QED
  BY <1>1, <1>2 DEF Continue

LEMMA TicketType == ASSUME TypeOK, NEW t \in Tickets, Ticket(t) PROVE TypeOK'
<1> DEFINE s == [ConsumeRework(st, "4", "Ticket-Input-Gate") EXCEPT !.ticket = t]
<1>1. ConsumeRework(st, "4", "Ticket-Input-Gate") \in SessionState
  BY ConsumeReworkType, RailGates DEF TypeOK, Tokens
<1>2. s \in SessionState
  BY <1>1 DEF SessionState
<1>3. PICK r \in Execute(s.phase, s, PlanReady(s), facts) : st' = WithKernelResult(s, r)
  BY DEF Ticket
<1>4. s.phase \in Tokens
  BY <1>2 DEF SessionState
<1> HIDE DEF s
<1>5. WellFormed(r)
  BY <1>4, ExecuteReturns
<1>6. st' \in SessionState
  BY <1>2, <1>3, <1>5, WithKernelResultType
<1> QED
  BY <1>6 DEF Ticket, TypeOK

LEMMA PlanWrittenType ==
    ASSUME TypeOK, PlanWritten PROVE st' \in SessionState /\ st'.gate \in KernelGates
<1> DEFINE c == ConsumeRework(st, "5", "Plan-Record-Preparation-Gate")
           s == [c EXCEPT !.p5met = TRUE, !.contracts = TRUE]
<1>1. c \in SessionState
  BY ConsumeReworkType, RailGates DEF TypeOK, Tokens
<1>2. s \in SessionState
  BY <1>1 DEF SessionState
<1>3. PICK r \in Execute("5", s, TRUE, facts) :
         st' = [WithKernelResult(s, r) EXCEPT !.planSeen = TRUE]
  BY DEF PlanWritten
<1>4. "5" \in Tokens /\ s.phase \in Tokens
  BY <1>2 DEF SessionState, Tokens
<1> HIDE DEF s
<1>5. WellFormed(r)
  BY <1>4, ExecuteReturns
<1>6. WithKernelResult(s, r) \in SessionState
  BY <1>2, <1>5, WithKernelResultType
<1>7. st'.gate = r.gate
  BY <1>2, <1>3 DEF WithKernelResult, SessionState
<1> QED
  BY <1>3, <1>5, <1>6, <1>7 DEF SessionState, WellFormed

LEMMA PlanType == ASSUME TypeOK, NEW p \in Plans, Plan(p) \/ PlanInterrupted(p) PROVE TypeOK'
<1>1. RecordPlan(p)
  BY DEF Plan, PlanInterrupted
<1>2. planRecord' \in Plans \cup {NoPlan} /\ drafted' \in [Plans -> Tickets \cup {NoTicket}]
  BY <1>1 DEF RecordPlan, TypeOK, SessionState
<1>3. st' \in SessionState
  BY PlanWrittenType DEF Plan, PlanInterrupted, TypeOK
<1> QED
  BY <1>1, <1>2, <1>3 DEF RecordPlan, TypeOK

LEMMA DecisionType == ASSUME TypeOK, Approve \/ RequestChanges \/ Reject PROVE TypeOK'
<1> USE RailGates
<1>1. CASE Approve
  <2>1. st' \in SessionState
    BY <1>1 DEF Approve, TypeOK, SessionState
  <2>2. st.pkg.plan \in Plans \cup {NoPlan} /\ st.pkg.ticket \in Tickets \cup {NoTicket}
    BY DEF TypeOK, SessionState, Package
  <2> QED
    BY <1>1, <2>1, <2>2 DEF Approve, TypeOK
<1>2. CASE RequestChanges
  <2> DEFINE u == [st EXCEPT !.decision = "changes_requested", !.next = "6",
                             !.gate = "Rework-Clarification-Gate", !.p6state = "6.rework",
                             !.consumed = FALSE]
  <2>1. "6" \in Tokens /\ 0 \in 0 .. MaxReviewIterations
    BY DEF Tokens, MaxReviewIterations
  <2>2. u \in SessionState
    BY <2>1 DEF TypeOK, SessionState
  <2>3. st' = [u EXCEPT !.revComplete = FALSE, !.blkComplete = FALSE,
                        !.review = "changes-requested", !.iter = 0, !.wf = FALSE]
    BY <1>2 DEF RequestChanges
  <2>4. st' \in SessionState
    <3> HIDE DEF u
    <3> QED
      BY <2>1, <2>2, <2>3 DEF SessionState
  <2> QED
    BY <1>2, <2>4 DEF RequestChanges, TypeOK
<1>3. CASE Reject
  <2> DEFINE u == [st EXCEPT !.decision = "reject", !.phase = "4", !.next = "4",
                             !.gate = "Ticket-Input-Gate", !.evidence = FALSE]
  <2>1. "4" \in Tokens
    BY DEF Tokens
  <2>2. u \in SessionState
    BY <2>1 DEF TypeOK, SessionState
  <2>3. st' = [u EXCEPT !.wf = FALSE, !.revComplete = FALSE, !.p6state = "unset", !.consumed = FALSE]
    BY <1>3 DEF Reject
  <2>4. st' \in SessionState
    <3> HIDE DEF u
    <3> QED
      BY <2>2, <2>3 DEF SessionState
  <2> QED
    BY <1>3, <2>4 DEF Reject, TypeOK
<1> QED
  BY <1>1, <1>2, <1>3

LEMMA ImplementType ==
    ASSUME TypeOK, NEW outcome \in ImplementOutcomes, Implement(outcome) PROVE TypeOK'
<1> DEFINE exec == IF outcome = "refused" THEN st.exec ELSE outcome
           gate == IF outcome = "review_complete" THEN "Implementation-Review-Complete"
                   ELSE "Implementation-Blocked"
<1>1. exec \in {"unset", "blocked", "review_complete"} /\ gate \in GateNames
  BY RailGates DEF TypeOK, SessionState, ImplementOutcomes
<1>2. st' = [st EXCEPT !.started = TRUE, !.next = "6", !.exec = exec, !.gate = gate]
  BY DEF Implement
<1> HIDE DEF exec, gate
<1>3. "6" \in Tokens
  BY DEF Tokens
<1>4. st' \in SessionState
  BY <1>1, <1>2, <1>3 DEF TypeOK, SessionState
<1> QED
  BY <1>4 DEF Implement, TypeOK

LEMMA NewWorkType == ASSUME TypeOK, NewWork PROVE TypeOK'
<1>1. st.pkg \in Package
  BY DEF TypeOK, SessionState
<1>2. [st.pkg EXCEPT !.fresh = FALSE] \in Package
  BY <1>1 DEF Package
<1>3. [g \in P5Gates |-> "pending"] \in GateMap
  BY DEF GateMap, GateValues
<1> DEFINE u == [st EXCEPT !.phase = "4", !.next = "4", !.gate = "Ticket-Input-Gate",
                           !.evidence = FALSE, !.ticket = NoTicket,
                           !.gates = [g \in P5Gates |-> "pending"]]
<1>4. u \in SessionState
  BY <1>3, RailGates DEF TypeOK, SessionState, GateMap, Tokens
<1>5. st' = [u EXCEPT !.pkg = [st.pkg EXCEPT !.fresh = FALSE]]
  BY DEF NewWork, TypeOK, SessionState
<1>6. st' \in SessionState
  <2> HIDE DEF u
  <2> QED
    BY <1>2, <1>4, <1>5 DEF SessionState
<1>7. facts' \in Facts
  BY SessionAssumption DEF NewWork, TypeOK, Facts
<1> QED
  BY <1>6, <1>7 DEF NewWork, TypeOK

\* Every rail leaves a well-formed session, the review iteration within its
\* bound, whatever came before.
THEOREM SessionTypeCorrect == Spec => []TypeOK
<1>1. TypeOK /\ [Next]_vars => TypeOK'
  <2> SUFFICES ASSUME TypeOK, [Next]_vars PROVE TypeOK'
    OBVIOUS
  <2>1. CASE UNCHANGED vars
    BY <2>1 DEF vars, TypeOK
  <2> QED
    BY <2>1, ContinueType, TicketType, PlanType, DecisionType, ImplementType, NewWorkType
       DEF Next, Rails
<1> QED
  BY <1>1, InitType, PTL DEF Spec
=============================================================================
