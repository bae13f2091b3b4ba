------------------------- MODULE GovernanceSession -------------------------
(***************************************************************************)
(* One governed work run from Phase 4 on: the commands ("rails") of the     *)
(* operator, each a process that loads SESSION_STATE.json, checks it,       *)
(* changes it and replaces the file in one atomic write.  A rail that       *)
(* writes a second file is also modelled stopped between the two writes.    *)
(*                                                                         *)
(*   /continue          entrypoints/session_reader.py                       *)
(*   /ticket            entrypoints/phase4_intake_persist.py                *)
(*   /plan              entrypoints/phase5_plan_record_persist.py           *)
(*   /review-decision   entrypoints/review_decision_persist.py              *)
(*   /implement         entrypoints/implement_start.py                      *)
(*   /new-work          entrypoints/new_work_session.py                     *)
(*                                                                         *)
(* /implementation-decision is absent: it needs the Implementation          *)
(* Presentation Gate, which nothing sets.                                   *)
(***************************************************************************)
EXTENDS PhaseKernel

CONSTANTS Tickets,        \* ticket texts the operator may submit
          Plans,          \* plan drafts /plan may produce, each once
          NoPlan,         \* plan-record.json is absent
          RepoFacts       \* the facts the repository may show at the start

ASSUME SessionAssumption ==
    /\ NoTicket \notin Tickets
    /\ NoPlan \notin Plans
    /\ RepoFacts \subseteq Facts

VARIABLES st,           \* SESSION_STATE.json
          planRecord,   \* the latest version in plan-record.json
          facts,        \* what the evaluators see of repository and mode
          drafted,      \* history: the ticket each plan was drafted for
          reviewed,     \* history: the plans the review loop has put to a reviewer
          approved      \* history: the <<plan, ticket>> pairs presented and approved

vars == <<st, planRecord, facts, drafted, reviewed, approved>>

GateNames ==
    KernelGates \cup {CorrectedGate(g) : g \in P5Gates} \cup {"Implementation-Review-Complete"}

Verdicts == {"none", "approve", "changes_requested", "unknown"}

Package == [plan : Plans \cup {NoPlan}, ticket : Tickets \cup {NoTicket}, fresh : BOOLEAN]

\* SESSION_STATE.  "fresh" stands for a receipt that names the current run and
\* revision; planSeen for plan_record_versions >= 1; iter for the iteration of
\* the ImplementationReview block and of its top-level copy; review,
\* blkComplete and verdict for the block's other fields; exec for
\* implementation_execution_status.
SessionState ==
    [phase : Tokens, next : Tokens, gate : GateNames, evidence : BOOLEAN,
     gates : [P5Gates -> GateValues],
     ticket : Tickets \cup {NoTicket}, p5met : BOOLEAN, planSeen : BOOLEAN, contracts : BOOLEAN,
     iter : 0 .. MaxReviewIterations, revComplete : BOOLEAN, blkComplete : BOOLEAN,
     review : {"none", "in-progress", "completed", "changes-requested"},
     verdict : Verdicts,
     p6state : {"unset", "6.execution", "6.complete", "6.rework"}, consumed : BOOLEAN,
     decision : {"none", "approve", "changes_requested", "reject"}, wf : BOOLEAN,
     started : BOOLEAN, exec : {"unset", "blocked", "review_complete"}, pkg : Package]

TypeOK ==
    /\ st \in SessionState
    /\ planRecord \in Plans \cup {NoPlan}
    /\ facts \in Facts
    /\ drafted \in [Plans -> Tickets \cup {NoTicket}]
    /\ reviewed \subseteq Plans
    /\ approved \subseteq (Plans \cup {NoPlan}) \X (Tickets \cup {NoTicket})

\* The state /new-work and bootstrap leave for a first run.
FreshState ==
    [phase |-> "4", next |-> "4", gate |-> "Ticket-Input-Gate", evidence |-> FALSE,
     gates |-> [g \in P5Gates |-> "pending"],
     ticket |-> NoTicket, p5met |-> FALSE, planSeen |-> FALSE, contracts |-> FALSE,
     iter |-> 0, revComplete |-> FALSE, blkComplete |-> FALSE,
     review |-> "none", verdict |-> "none", p6state |-> "unset", consumed |-> FALSE,
     decision |-> "none", wf |-> FALSE, started |-> FALSE, exec |-> "unset",
     pkg |-> [plan |-> NoPlan, ticket |-> NoTicket, fresh |-> FALSE]]

Init ==
    /\ st = FreshState
    /\ planRecord = NoPlan
    /\ facts \in RepoFacts
    /\ drafted = [p \in Plans |-> NoTicket]
    /\ reviewed = {}
    /\ approved = {}

-----------------------------------------------------------------------------
(* Steps several rails share. *)

\* resolve_plan_record_signal: the file when there is one, else the count the
\* session remembers.
PlanReady(s) == planRecord # NoPlan \/ s.planSeen

\* _auto_propagate_gates.
Propagate(gates, r) ==
    [g \in P5Gates |->
        IF r.status = "OK" /\ gates[g] = "pending"
        THEN CASE g = "P5-Architecture"  /\ PhaseRank[r.next] >= PhaseRank["5.3"] -> "approved"
               [] g = "P5.3-TestQuality" /\ PhaseRank[r.next] >= PhaseRank["5.4"] -> "pass"
               [] OTHER -> gates[g]
        ELSE gates[g]]

\* with_kernel_result.
WithKernelResult(s, r) ==
    [s EXCEPT !.phase = r.phase, !.next = r.next, !.gate = r.gate,
              !.planSeen = PlanReady(s), !.gates = Propagate(s.gates, r)]

\* is_rework_clarification_active and consume_rework_clarification_state, with
\* the phase and gate the consuming rail re-enters.
ReworkActive(s) == s.p6state = "6.rework" \/ s.gate = "Rework-Clarification-Gate"

ConsumeRework(s, phase, gate) ==
    IF ReworkActive(s)
    THEN [s EXCEPT !.p6state = "unset", !.decision = "none", !.consumed = TRUE,
                   !.phase = phase, !.next = phase, !.gate = gate]
    ELSE s

-----------------------------------------------------------------------------
(* /continue: _materialize_authoritative_state. *)

\* _build_runtime_context: the advertised next token, with evidence only.
Requested(s) == IF s.evidence THEN s.next ELSE s.phase

\* run_review_loop and to_state_updates, by the verdict of the last call.  A
\* loop that starts below the maximum always runs to it; one that starts there
\* reads nothing, reports itself incomplete and drops the verdict.
AfterLoop(s, verdict) ==
    LET complete == verdict = "approve"
    IN [s EXCEPT !.iter = MaxReviewIterations, !.verdict = verdict,
                 !.revComplete = complete, !.blkComplete = complete,
                 !.review = IF complete THEN "completed" ELSE "in-progress",
                 !.p6state = IF complete THEN "6.complete" ELSE "6.execution"]

LoopVerdicts(s) ==
    IF s.iter < MaxReviewIterations THEN {"approve", "changes_requested", "unknown"} ELSE {"none"}

\* The loop blocks, and changes nothing modelled, when mandate or policy is
\* not available.
ReviewLoop(s) ==
    {s} \cup IF s.phase = "6" THEN {AfterLoop(s, v) : v \in LoopVerdicts(s)} ELSE {}

\* sync_conditional_p5_gate_states.
SyncGates(s) ==
    [s EXCEPT !.gates = [g \in P5Gates |->
        LET now == s.gates[g] IN
        CASE g = "P5.4-BusinessRules" /\ now \in {"pending", "gap-detected"}
                /\ P54Status(s.gates, facts) # "pending" -> P54Status(s.gates, facts)
          [] g = "P5.5-TechnicalDebt" /\ now = "pending" -> P55Status(s.gates, facts)
          [] g = "P5.6-RollbackSafety" /\ now = "pending" -> P56Status(s.gates, facts)
          [] OTHER -> now]]

\* Mutant: only a phase routed to its successor grants evidence.
MaterializeRouteNextOnly(s, r) ==
    LET k == WithKernelResult(s, r) IN
    [k EXCEPT !.decision =
                 IF r.phase # "6" \/ r.by \in {"review_changes_requested", "review_rejected"}
                 THEN "none" ELSE k.decision,
              !.evidence = k.evidence \/ (r.status = "OK" /\ ~r.stay),
              !.iter =
                 IF k.iter < MinReviewIterations /\ (r.phase = "6" \/ k.review # "none")
                 THEN MinReviewIterations ELSE k.iter]

\* The decision is dropped outside Phase 6; a forward transition grants the
\* evidence the next /continue needs to follow it.
Materialize(s, r) ==
    LET k == WithKernelResult(s, r) IN
    [k EXCEPT !.decision =
                 IF r.phase # "6" \/ r.by \in {"review_changes_requested", "review_rejected"}
                 THEN "none" ELSE k.decision,
              !.evidence =
                 k.evidence \/ (r.status = "OK" /\ (~r.stay \/ r.next # r.phase)),
              !.iter =
                 IF k.iter < MinReviewIterations /\ (r.phase = "6" \/ k.review # "none")
                 THEN MinReviewIterations ELSE k.iter]

\* The gates normalize_phase6_p5_state finds open: those of the Gates map and,
\* while rework is being clarified, a P5.4 that no longer evaluates well.
NormalizerOpenGates(s) ==
    OpenGates(s.gates)
    \cup {g \in {"P5.4-BusinessRules"} :
            /\ s.gate = "Rework-Clarification-Gate"
            /\ BusinessRulesExecuted(facts)
            /\ P54Status(s.gates, facts) \in {"gap-detected", "pending"}}

\* Mutant: every reset starts Phase 5 over.
ResetToArchitecture(s, g) ==
    [s EXCEPT !.phase = "5", !.next = "5", !.gate = "Architecture-Review-Gate",
              !.p6state = "unset", !.revComplete = FALSE, !.blkComplete = FALSE, !.wf = FALSE]

ResetToGate(s, g) ==
    [s EXCEPT !.phase = PhaseOfGate(g), !.next = PhaseOfGate(g), !.gate = CorrectedGate(g),
              !.p6state = "unset", !.revComplete = FALSE, !.blkComplete = FALSE, !.wf = FALSE]

\* _normalize_phase6_completion_flags.
CompleteStaleReview(s) ==
    IF /\ s.iter >= MaxReviewIterations
       /\ s.review = "in-progress"
       /\ s.verdict # "changes_requested"
    THEN [s EXCEPT !.blkComplete = s.blkComplete \/ ~s.revComplete,
                   !.revComplete = TRUE,
                   !.review = IF s.p6state # "6.complete" THEN "completed" ELSE s.review,
                   !.p6state = "6.complete"]
    ELSE s

\* Mutant: the gates are not looked at again.
NormalizeFlagsOnly(s) == IF s.phase # "6" THEN {s} ELSE {CompleteStaleReview(s)}

\* normalize_phase6_p5_state (a singleton).
Normalize(s) ==
    IF s.phase # "6" THEN {s}
    ELSE IF NormalizerOpenGates(s) = {} THEN {CompleteStaleReview(s)}
    ELSE {ResetToGate(s, g) : g \in {g \in NormalizerOpenGates(s) :
             \A h \in NormalizerOpenGates(s) : GatePriority[g] <= GatePriority[h]}}

\* Mutant: a package presented once is not rendered again.
PresentOnce(s) ==
    IF s.phase = "6" /\ AtEvidenceGate(s)
    THEN [s EXCEPT !.pkg = [plan |-> IF s.pkg.plan = NoPlan THEN planRecord ELSE s.pkg.plan,
                            ticket |-> s.ticket, fresh |-> TRUE]]
    ELSE [s EXCEPT !.pkg.fresh = FALSE]

\* _persist_review_package_markers.  Every /continue moves the revision on, so
\* a package it does not present again is no longer fresh.
Present(s) ==
    IF s.phase = "6" /\ AtEvidenceGate(s)
    THEN [s EXCEPT !.pkg = [plan |-> planRecord, ticket |-> s.ticket, fresh |-> TRUE]]
    ELSE [s EXCEPT !.pkg.fresh = FALSE]

\* _apply_pipeline_auto_approve, the second write of the command.
AutoApprove(s) ==
    [s EXCEPT !.decision = "approve", !.wf = TRUE, !.gate = "Workflow-Complete",
              !.p6state = "6.complete", !.revComplete = TRUE,
              !.blkComplete = TRUE, !.review = "completed"]

\* The outcomes of /continue up to its first write, with the rule the kernel
\* applied and whether the review loop could run.
ContinueOutcomes ==
    UNION {UNION {{[by |-> r.by, ran |-> s1 # st, st |-> Present(s2)] :
                      s2 \in Normalize(SyncGates(Materialize(SyncGates(s1), r)))} :
                     r \in Execute(Requested(st), SyncGates(s1), PlanReady(s1), facts)} :
             s1 \in ReviewLoop(st)}

ContinueWith(o) ==
    /\ st' = IF o.by = "pipeline-auto-approve" THEN AutoApprove(o.st) ELSE o.st
    /\ reviewed' = IF o.ran /\ st.iter < MaxReviewIterations
                   THEN reviewed \cup ({planRecord} \ {NoPlan}) ELSE reviewed
    /\ approved' = approved \cup
          (IF o.by = "pipeline-auto-approve" THEN {<<planRecord, st.ticket>>} ELSE {})
    /\ UNCHANGED <<planRecord, facts, drafted>>

Continue == \E o \in ContinueOutcomes : ContinueWith(o)

\* /continue with mandate and policy at hand.
ContinueUnblocked ==
    \E o \in ContinueOutcomes : (st.phase = "6" => o.ran) /\ ContinueWith(o)

\* /continue stopped between its write and the one that approves.
ContinueInterrupted ==
    \E o \in ContinueOutcomes :
        /\ o.by = "pipeline-auto-approve"
        /\ st' = o.st
        /\ UNCHANGED <<planRecord, facts, drafted, reviewed, approved>>

-----------------------------------------------------------------------------
(* The other rails. *)

\* /ticket has no phase guard: it records the text and re-executes whatever
\* phase the session is in.
Ticket(t) ==
    LET s == [ConsumeRework(st, "4", "Ticket-Input-Gate") EXCEPT !.ticket = t] IN
    /\ \E r \in Execute(s.phase, s, PlanReady(s), facts) : st' = WithKernelResult(s, r)
    /\ UNCHANGED <<planRecord, facts, drafted, reviewed, approved>>

\* Mutant: /plan is taken in Phase 6 as well.
PlanAllowedLate ==
    LET s == ConsumeRework(st, "5", "Plan-Record-Preparation-Gate") IN
    s.phase \in {"5", "6"} /\ s.ticket # NoTicket

\* /plan, whose internal review always completes; a plan it refuses leaves the
\* session as it was.
PlanAllowed ==
    LET s == ConsumeRework(st, "5", "Plan-Record-Preparation-Gate") IN
    s.phase = "5" /\ s.ticket # NoTicket

RecordPlan(p) ==
    /\ PlanAllowed
    /\ drafted[p] = NoTicket
    /\ planRecord' = p
    /\ drafted' = [drafted EXCEPT ![p] = st.ticket]
    /\ UNCHANGED <<facts, reviewed, approved>>

PlanWritten ==
    LET s == [ConsumeRework(st, "5", "Plan-Record-Preparation-Gate")
                 EXCEPT !.p5met = TRUE, !.contracts = TRUE] IN
    \E r \in Execute("5", s, TRUE, facts) :
        st' = [WithKernelResult(s, r) EXCEPT !.planSeen = TRUE]

Plan(p) == RecordPlan(p) /\ PlanWritten

\* /plan stopped after plan-record.json and before SESSION_STATE.json.
PlanInterrupted(p) == RecordPlan(p) /\ UNCHANGED st

\* Mutant: the revision of the receipt is not compared.
PackageReadyAnyRevision == st.blkComplete /\ st.pkg.plan # NoPlan

\* apply_review_decision, with _review_package_ready.
PackageReady == st.blkComplete /\ st.pkg.fresh /\ st.pkg.plan # NoPlan

Decidable == st.phase = "6" /\ AtEvidenceGate(st) /\ PackageReady

Approve ==
    /\ Decidable
    /\ st' = [st EXCEPT !.decision = "approve", !.wf = TRUE, !.gate = "Workflow-Complete",
                        !.p6state = "6.complete", !.revComplete = TRUE,
                        !.review = "completed", !.consumed = FALSE]
    /\ approved' = approved \cup {<<st.pkg.plan, st.pkg.ticket>>}
    /\ UNCHANGED <<planRecord, facts, drafted, reviewed>>

RequestChanges ==
    /\ Decidable
    /\ st' = [st EXCEPT !.decision = "changes_requested", !.next = "6",
                        !.gate = "Rework-Clarification-Gate", !.p6state = "6.rework",
                        !.consumed = FALSE, !.revComplete = FALSE, !.blkComplete = FALSE,
                        !.review = "changes-requested", !.iter = 0, !.wf = FALSE]
    /\ UNCHANGED <<planRecord, facts, drafted, reviewed, approved>>

Reject ==
    /\ Decidable
    /\ st' = [st EXCEPT !.decision = "reject", !.phase = "4", !.next = "4",
                        !.gate = "Ticket-Input-Gate", !.evidence = FALSE,
                        !.wf = FALSE, !.revComplete = FALSE, !.p6state = "unset",
                        !.consumed = FALSE]
    /\ UNCHANGED <<planRecord, facts, drafted, reviewed, approved>>

\* start_implementation: refused before execution (no executor, an invalid
\* response), or run and checked.
ImplementOutcomes == {"refused", "review_complete", "blocked"}

ImplementAllowed ==
    /\ st.phase = "6"
    /\ st.decision = "approve" \/ st.wf
    /\ st.gate \notin {"Rework-Clarification-Gate", "Ticket-Input-Gate"}
    /\ PlanReady(st)
    /\ st.contracts

Implement(outcome) ==
    /\ ImplementAllowed
    /\ st' = [st EXCEPT !.started = TRUE, !.next = "6",
                        !.exec = IF outcome = "refused" THEN st.exec ELSE outcome,
                        !.gate = IF outcome = "review_complete"
                                 THEN "Implementation-Review-Complete"
                                 ELSE "Implementation-Blocked"]
    /\ UNCHANGED <<planRecord, facts, drafted, reviewed, approved>>

\* /new-work: archive, purge, _reset_for_new_work; the business rules are
\* hydrated again.
NewWork ==
    /\ st' = [st EXCEPT !.phase = "4", !.next = "4", !.gate = "Ticket-Input-Gate",
                        !.evidence = FALSE, !.ticket = NoTicket, !.pkg.fresh = FALSE,
                        !.gates = [g \in P5Gates |-> "pending"]]
    /\ planRecord' = NoPlan
    /\ \E f \in RepoFacts : facts' = [facts EXCEPT !.businessRules = f.businessRules]
    /\ UNCHANGED <<drafted, reviewed, approved>>

-----------------------------------------------------------------------------

\* The rails of one work run.
Rails ==
    \/ Continue
    \/ ContinueInterrupted
    \/ \E t \in Tickets : Ticket(t)
    \/ \E p \in Plans : Plan(p) \/ PlanInterrupted(p)
    \/ Approve
    \/ RequestChanges
    \/ Reject
    \/ \E outcome \in ImplementOutcomes : Implement(outcome)

WorkRun == Init /\ [][Rails]_vars

Next == Rails \/ NewWork

Spec == Init /\ [][Next]_vars

-----------------------------------------------------------------------------
(* Safety. *)

ApprovedPlan(p) == \E t \in Tickets : <<p, t>> \in approved

\* The Evidence Presentation Gate, where a decision is asked for, is only
\* shown in Phase 6 with every Phase-5 gate closed: whichever rail executed
\* the kernel last, also when a gate was opened or skipped on the way.
DecisionGateClosed ==
    AtEvidenceGate(st) => /\ st.phase = "6" /\ st.next = "6"
                          /\ OpenGates(st.gates) = {} /\ CanPromote(st.gates, facts)

\* What the operator can decide on is the plan on record: a receipt that still
\* matches never shows an earlier draft.
DecisionOnCurrentPlan ==
    Decidable => planRecord # NoPlan /\ st.pkg.plan = planRecord

\* A standing authorisation to implement belongs to a session in Phase 6 with
\* closed gates whose current plan was approved; it is gone when the session
\* goes back to plan again.
AuthorityBacked ==
    st.wf \/ st.decision = "approve" =>
        st.phase = "6" /\ OpenGates(st.gates) = {} /\ ApprovedPlan(planRecord)

\* /continue never leaves a Phase 6 with an open gate on disk.
ContinueLeavesNoMixedState ==
    [][st'.phase = "6" /\ OpenGates(st'.gates) # {} => ~Continue]_vars

\* /continue takes a session back only to the phase of a gate that is open.
ContinueRegressesToOpenGate ==
    [][PhaseRank[st'.phase] < PhaseRank[st.phase] /\ Continue =>
          \E g \in OpenGates(st'.gates) : st'.phase = PhaseOfGate(g)]_vars

\* Requested changes are not talked away: a /continue, though it runs the
\* review loop again, does not take the session past the clarification.
ReworkNotContinuedAway ==
    [][st.gate = "Rework-Clarification-Gate" /\ st'.gate # st.gate /\ st'.phase = "6"
          => ~Continue]_vars

\* /implement works on a plan that was presented and approved.
ImplementsApprovedPlan ==
    [][(\E o \in ImplementOutcomes : Implement(o)) => ApprovedPlan(planRecord)]_vars

(* Liveness. *)

AwaitingOperator == {"Evidence-Presentation-Gate", "Rework-Clarification-Gate",
                     "Pipeline-Auto-Approved", "Workflow-Complete"}

\* A session whose plan has been reviewed gets to the operator's decision when
\* nothing of the repository holds a gate open, whatever else is submitted.
PlanGetsDecided ==
    (PlanReady(st) /\ st.p5met /\ PhaseRank[st.phase] >= PhaseRank["5"])
        ~> (st.gate \in AwaitingOperator \/ st.phase = "4" \/ st.started)
=============================================================================
