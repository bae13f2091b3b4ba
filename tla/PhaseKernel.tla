---------------------------- MODULE PhaseKernel ----------------------------
(***************************************************************************)
(* The pure part of the phase kernel (governance_runtime/kernel/           *)
(* phase_kernel.py) from Phase 4 on: the transition table of               *)
(* governance_spec/phase_api.yaml, the guards of governance_spec/          *)
(* guards.yaml, the evaluators of the Phase-5 gates and execute(), all as   *)
(* operators on                                                            *)
(*                                                                         *)
(*   s     the SESSION_STATE record,                                       *)
(*   ready the plan-record signal: a plan version is known,                *)
(*   f     the facts of the repository and of the operating mode that the  *)
(*         evaluators read and no command of Phases 4 to 6 writes.         *)
(*                                                                         *)
(* A phase is named by its token ("5" for "5-ArchitectureReview"); names    *)
(* are written with hyphens for their spaces, an empty one as "unset".  The *)
(* workspace, rulebook and foundation checks of execute() concern Phases   *)
(* 1 to 3; a session that reached Phase 4 has passed them.                 *)
(***************************************************************************)
EXTENDS Integers, Sequences

CONSTANT NoTicket   \* no ticket and no task digest is recorded

Tokens == {"4", "5", "5.3", "5.4", "5.5", "5.6", "6"}

\* The order of phases (domain/phase_state_machine.py).
PhaseRank == [t \in Tokens |->
    CASE t = "4" -> 40 [] t = "5" -> 50 [] t = "5.3" -> 53 [] t = "5.4" -> 54
      [] t = "5.5" -> 55 [] t = "5.6" -> 56 [] t = "6" -> 60]

\* The hard stop of both review loops, also written into the guards.
MaxReviewIterations == 3
MinReviewIterations == 1

-----------------------------------------------------------------------------
(* The Phase-5 gates and their evaluators. *)

P5Gates == {"P5-Architecture", "P5.3-TestQuality", "P5.4-BusinessRules",
            "P5.5-TechnicalDebt", "P5.6-RollbackSafety"}

GateValues == {"pending", "approved", "rejected", "pass", "compliant",
               "gap-detected", "not-applicable"}

\* P5_GATE_PRIORITY_ORDER: which open gate is reported first.
GatePriority == [g \in P5Gates |->
    CASE g = "P5-Architecture" -> 1 [] g = "P5.3-TestQuality" -> 2
      [] g = "P5.4-BusinessRules" -> 3 [] g = "P5.5-TechnicalDebt" -> 4
      [] g = "P5.6-RollbackSafety" -> 5]

\* P5_GATE_TERMINAL_VALUES, without the with-exceptions variants, which no
\* command writes.
TerminalValues(g) ==
    CASE g = "P5-Architecture"     -> {"approved"}
      [] g = "P5.3-TestQuality"    -> {"pass", "not-applicable"}
      [] g = "P5.4-BusinessRules"  -> {"compliant", "not-applicable"}
      [] g = "P5.5-TechnicalDebt"  -> {"approved", "not-applicable"}
      [] g = "P5.6-RollbackSafety" -> {"approved", "not-applicable"}

OpenGates(gates) == {g \in P5Gates : gates[g] \notin TerminalValues(g)}

\* GATE_TO_PHASE_NEXT: the phase, and its gate, an open P5 gate belongs to.
PhaseOfGate(g) ==
    CASE g = "P5-Architecture"     -> "5"
      [] g = "P5.3-TestQuality"    -> "5.3"
      [] g = "P5.4-BusinessRules"  -> "5.4"
      [] g = "P5.5-TechnicalDebt"  -> "5.5"
      [] g = "P5.6-RollbackSafety" -> "5.6"

CorrectedGate(g) ==
    CASE g = "P5-Architecture"     -> "Architecture-Review-Gate"
      [] g = "P5.3-TestQuality"    -> "Test-Quality-Gate"
      [] g = "P5.4-BusinessRules"  -> "Business-Rules-Validation"
      [] g = "P5.5-TechnicalDebt"  -> "Technical-Debt-Review"
      [] g = "P5.6-RollbackSafety" -> "Rollback-Safety-Review"

Facts == [businessRules    : {"not-executed", "compliant", "gap-detected", "pending"},
          debtProposed     : BOOLEAN,
          rollbackRequired : BOOLEAN,
          surface          : {"untouched", "no-strategy", "strategy"},
          pipeline         : BOOLEAN]

BusinessRulesExecuted(f) == f.businessRules # "not-executed"
RollbackSafetyApplies(f) == f.surface # "untouched" \/ f.rollbackRequired

\* evaluate_p54_business_rules_gate.
P54Status(gates, f) ==
    CASE ~BusinessRulesExecuted(f) -> "not-applicable"
      [] f.businessRules = "pending" /\ gates["P5.4-BusinessRules"] = "compliant"
            -> "compliant"
      [] OTHER -> f.businessRules

\* evaluate_p55_technical_debt_gate.
P55Status(gates, f) ==
    IF gates["P5.5-TechnicalDebt"] \in {"approved", "not-applicable", "rejected"}
    THEN gates["P5.5-TechnicalDebt"]
    ELSE IF f.debtProposed THEN "pending" ELSE "not-applicable"

\* evaluate_p56_rollback_safety_gate.
P56Status(gates, f) ==
    CASE f.surface = "untouched" -> "not-applicable"
      [] f.surface # "untouched" /\ gates["P5.6-RollbackSafety"] = "approved" -> "approved"
      [] f.surface = "no-strategy" /\ gates["P5.6-RollbackSafety"] # "approved" -> "rejected"
      [] OTHER -> "pending"

\* can_promote_to_phase6.  P5.4 is evaluated afresh, the others are read from
\* the Gates map; P5.4 and P5.6 count only when they apply.
CanPromote(gates, f) ==
    /\ gates["P5-Architecture"] = "approved"
    /\ gates["P5.3-TestQuality"] \in TerminalValues("P5.3-TestQuality")
    /\ BusinessRulesExecuted(f) => P54Status(gates, f) \in TerminalValues("P5.4-BusinessRules")
    /\ gates["P5.5-TechnicalDebt"] \in TerminalValues("P5.5-TechnicalDebt")
    /\ RollbackSafetyApplies(f) =>
           gates["P5.6-RollbackSafety"] \in TerminalValues("P5.6-RollbackSafety")

-----------------------------------------------------------------------------
(* phase_api.yaml. *)

Edge(when, next, gate) == [when |-> when, next |-> next, gate |-> gate]

\* The transitions of each phase in the order they are tried.  The edges of
\* Phase 6 for an accepted, presented, reworked or running implementation are
\* left out: no command that can run ever writes the fields they wait for.
FromTicket ==
    <<Edge("ticket_present", "5", "Plan-Record-Preparation-Gate"),
      Edge("default", "4", "Ticket-Input-Gate")>>

FromArchitecture ==
    <<Edge("plan_record_missing", "5", "Plan-Record-Preparation-Gate"),
      Edge("self_review_iterations_pending", "5", "Architecture-Review-Gate"),
      Edge("self_review_iterations_met", "5.3", "Architecture-Review-Gate"),
      Edge("default", "5", "Architecture-Review-Gate")>>

FromTestQuality ==
    <<Edge("business_rules_gate_required", "5.4", "Business-Rules-Validation"),
      Edge("technical_debt_proposed", "5.5", "Technical-Debt-Gate"),
      Edge("rollback_required", "5.6", "Rollback-Safety-Gate"),
      Edge("default", "6", "Implementation-Internal-Review")>>

FromBusinessRules ==
    <<Edge("technical_debt_proposed", "5.5", "Technical-Debt-Gate"),
      Edge("rollback_required", "5.6", "Rollback-Safety-Gate"),
      Edge("default", "6", "Implementation-Internal-Review")>>

FromTechnicalDebt ==
    <<Edge("rollback_required", "5.6", "Rollback-Safety-Review"),
      Edge("default", "6", "Implementation-Internal-Review")>>

FromRollbackSafety == <<Edge("default", "6", "Implementation-Internal-Review")>>

FromReview ==
    <<Edge("implementation_blocked", "6", "Implementation-Blocked"),
      Edge("implementation_started", "6", "Implementation-Started"),
      Edge("workflow_approved", "6", "Workflow-Complete"),
      Edge("review_changes_requested", "6", "Rework-Clarification-Gate"),
      Edge("rework_clarification_pending", "6", "Rework-Clarification-Gate"),
      Edge("review_rejected", "4", "Ticket-Input-Gate"),
      Edge("implementation_review_pending", "6", "Implementation-Internal-Review"),
      Edge("implementation_review_complete", "6", "Evidence-Presentation-Gate"),
      Edge("default", "6", "Implementation-Internal-Review")>>

Transitions == [t \in Tokens |->
    CASE t = "4" -> FromTicket [] t = "5" -> FromArchitecture [] t = "5.3" -> FromTestQuality
      [] t = "5.4" -> FromBusinessRules [] t = "5.5" -> FromTechnicalDebt
      [] t = "5.6" -> FromRollbackSafety [] t = "6" -> FromReview]

\* route_strategy "stay": the session keeps the executed phase and only
\* advertises the target as its next token.
Stays(t) == t \in {"5", "6"}

DefaultGate(t) ==
    CASE t = "4"   -> "Ticket-Input-Gate"
      [] t = "5"   -> "Plan-Record-Preparation-Gate"
      [] t = "5.3" -> "Test-Quality-Gate"
      [] t = "5.4" -> "Business-Rules-Validation"
      [] t = "5.5" -> "Technical-Debt-Review"
      [] t = "5.6" -> "Rollback-Safety-Review"
      [] t = "6"   -> "Implementation-Internal-Review"

\* The "next" of each phase; Phase 6 has none.
StaticNext(t) ==
    CASE t = "4" -> {"5"} [] t = "5" -> {"5.3"} [] t = "5.3" -> {"6"} [] t = "5.4" -> {"5.5"}
      [] t = "5.5" -> {"5.6"} [] t = "5.6" -> {"6"} [] t = "6" -> {}

-----------------------------------------------------------------------------
(* guards.yaml over the state _build_guard_evaluation_state prepares. *)

\* The digest of the loop changes with every iteration, so min_iterations with
\* an unchanged digest never ends it: what is left is the flag and the maximum.
InternalReviewComplete(s) == s.revComplete \/ s.iter >= MaxReviewIterations

AtEvidenceGate(s) == s.gate = "Evidence-Presentation-Gate"

\* Mutant: rework is recognised by the substate alone.
ReworkPendingBySubstate(s) == s.p6state = "6.rework" /\ ~s.consumed

ReworkPending(s) ==
    /\ s.p6state = "6.rework" \/ s.gate = "Rework-Clarification-Gate"
    /\ ~s.consumed

Passes(when, s, ready, f) ==
    CASE when = "ticket_present"                 -> s.ticket # NoTicket
      [] when = "plan_record_missing"            -> ~ready
      [] when = "self_review_iterations_pending" -> ~s.p5met
      [] when = "self_review_iterations_met"     -> s.p5met
      [] when = "business_rules_gate_required"   -> BusinessRulesExecuted(f)
      [] when = "technical_debt_proposed"        -> f.debtProposed
      [] when = "rollback_required"              -> f.rollbackRequired
      [] when = "implementation_blocked"         -> s.exec = "blocked"
      [] when = "implementation_started"         -> s.started
      [] when = "workflow_approved"              ->
            s.wf \/ (AtEvidenceGate(s) /\ s.decision = "approve")
      [] when = "review_changes_requested"       ->
            AtEvidenceGate(s) /\ s.decision = "changes_requested"
      [] when = "rework_clarification_pending"   -> ReworkPending(s)
      [] when = "review_rejected"                -> AtEvidenceGate(s) /\ s.decision = "reject"
      [] when = "implementation_review_pending"  -> ~InternalReviewComplete(s)
      [] when = "implementation_review_complete" -> InternalReviewComplete(s)
      [] when = "default"                        -> TRUE

PipelineAutoApproveEligible(s, f) ==
    f.pipeline /\ InternalReviewComplete(s) /\ AtEvidenceGate(s)
    /\ s.decision = "none" /\ ~s.wf

AutoEdge == Edge("pipeline-auto-approve", "6", "Pipeline-Auto-Approved")

\* _select_transition: the first edge whose guard holds (a singleton).
Selected(t, s, ready, f) ==
    {IF e.when = "implementation_review_complete" /\ PipelineAutoApproveEligible(s, f)
     THEN AutoEdge ELSE e :
       e \in {Transitions[t][i] : i \in
                {i \in DOMAIN Transitions[t] :
                    /\ Passes(Transitions[t][i].when, s, ready, f)
                    /\ \A j \in 1 .. (i - 1) : ~Passes(Transitions[t][j].when, s, ready, f)}}}

-----------------------------------------------------------------------------
(* execute(). *)

\* "by" is the rule that produced the result (KernelResult.source); "stay" its
\* route strategy.
KernelResult(status, phase, next, gate, by, stay) ==
    [status |-> status, phase |-> phase, next |-> next, gate |-> gate, by |-> by, stay |-> stay]

Blocked(phase, gate) == KernelResult("BLOCKED", phase, phase, gate, "blocked", Stays(phase))

\* Mutant: the prerequisite gate of Phase 6 is not asked.
ExecuteAtUngated(t, s, ready, f) ==
    {KernelResult("OK", IF Stays(t) THEN t ELSE e.next, e.next, e.gate, e.when, Stays(t)) :
        e \in Selected(t, s, ready, f)}

\* The phase the kernel executes is settled: Phase 6 needs its prerequisites,
\* every other phase takes its selected edge.
ExecuteAt(t, s, ready, f) ==
    IF t = "6" /\ ~CanPromote(s.gates, f)
    THEN {Blocked("6", "Implementation-QA-Prerequisite-Gate")}
    ELSE {KernelResult("OK", IF Stays(t) THEN t ELSE e.next, e.next, e.gate, e.when, Stays(t)) :
             e \in Selected(t, s, ready, f)}

\* The gates a result can name.
DefaultGates == {DefaultGate(t) : t \in Tokens}
EdgeGates == UNION {{Transitions[t][i].gate : i \in DOMAIN Transitions[t]} : t \in Tokens}
KernelGates ==
    DefaultGates \cup EdgeGates
    \cup {"Implementation-QA-Prerequisite-Gate", "Pipeline-Auto-Approved"}

Requestable(t) == {t} \cup StaticNext(t) \cup {Transitions[t][i].next : i \in DOMAIN Transitions[t]}

\* A request for a lower phase is honoured only along an edge of the current
\* phase and with evidence; a request for a higher one needs to be in the
\* graph and evidence.
Execute(requested, s, ready, f) ==
    IF PhaseRank[requested] < PhaseRank[s.phase]
    THEN UNION {IF e.next = requested /\ s.evidence
                THEN ExecuteAt(requested, s, ready, f)
                ELSE {KernelResult("OK", s.phase, e.next, e.gate, "monotonic", Stays(s.phase))} :
                   e \in Selected(s.phase, s, ready, f)}
    ELSE IF \/ requested \notin Requestable(s.phase)
            \/ PhaseRank[requested] > PhaseRank[s.phase] /\ ~s.evidence
    THEN {Blocked(s.phase, DefaultGate(s.phase))}
    ELSE ExecuteAt(requested, s, ready, f)
=============================================================================
