--------------------------- MODULE AccessControl ---------------------------
(***************************************************************************)
(* Who may do what with an audit record: the permission table and its       *)
(* evaluation (domain/access_control.py), the regulated mode                *)
(* (domain/regulated_mode.py), the approval a human gives                   *)
(* (entrypoints/human_approval_persist.py) and the guard that asks for it    *)
(* before a run is finalised (infrastructure/work_run_archive.py).          *)
(***************************************************************************)
EXTENDS Naturals, FiniteSets

Roles == {"operator", "auditor", "reviewer", "approver", "admin",
          "compliance_officer", "system", "readonly"}

NoRole == "no-role"

Actions == {"read_archive", "export_archive", "verify_archive", "purge_archive",
            "read_failure_report", "export_redacted", "modify_retention",
            "view_classification", "override_redaction", "finalize_run",
            "invalidate_run", "approve_human_gate"}

\* PERMISSIONS, by role.
Reading == {"read_archive", "verify_archive", "view_classification"}
Permissions(role) ==
    CASE role = "operator" ->
            Reading \cup {"export_archive", "purge_archive", "read_failure_report",
                          "export_redacted", "finalize_run"}
      [] role = "auditor" -> Reading \cup {"export_redacted", "read_failure_report"}
      [] role = "reviewer" -> Reading \cup {"read_failure_report"}
      [] role = "approver" -> Reading \cup {"read_failure_report", "approve_human_gate"}
      [] role = "compliance_officer" ->
            Reading \cup {"export_archive", "export_redacted", "read_failure_report",
                          "modify_retention", "override_redaction"}
      [] role = "admin" ->
            Actions \ {"approve_human_gate"}
      [] role = "system" -> {"read_archive", "verify_archive", "export_archive"}
      [] role = "readonly" -> Reading
      [] OTHER -> {}

\* REGULATED_MODE_BLOCKED_ACTIONS, REGULATED_MODE_REQUIRED_ACTIONS.
BlockedInRegulatedMode(role, action) == role \in {"operator", "admin"} /\ action = "purge_archive"
RequiresRegulatedMode(role, action) ==
    /\ role \in {"compliance_officer", "admin"}
    /\ action \in {"modify_retention", "override_redaction"}

HumanApprovalRequired == {"export_archive", "purge_archive", "invalidate_run", "finalize_run"}

\* evaluate_access without the four-eyes clause.  It is all there is to
\* evaluate for an action that needs no approval, and so for the approval.
Permitted(role, action, regulated) ==
    /\ action \in Permissions(role)
    /\ regulated => ~BlockedInRegulatedMode(role, action)
    /\ RequiresRegulatedMode(role, action) => regulated

\* evaluate_four_eyes.
FourEyes(initiator, approver, action, regulated) ==
    regulated /\ action \in HumanApprovalRequired =>
        /\ approver # NoRole
        /\ approver # initiator
        /\ Permitted(approver, "approve_human_gate", regulated)

\* evaluate_access.
Allowed(role, action, regulated, approver) ==
    /\ Permitted(role, action, regulated)
    /\ FourEyes(role, approver, action, regulated)

-----------------------------------------------------------------------------
(* Regulated mode. *)

RegulatedStates == {"inactive", "active", "transitioning"}

\* evaluate_mode: a transition counts as active.
ModeActive(state) == state \in {"active", "transitioning"}

\* COMPLIANCE_FRAMEWORKS, FRAMEWORK_RETENTION_OVERRIDES and
\* get_minimum_retention_days, in days.  An unknown framework has a floor in
\* the one table and none in the other.
Frameworks == {"DATEV", "GoBD", "BaFin", "SOX", "GDPR", "Basel_III", "ISO_27001", "other"}
FrameworkDays(f) ==
    CASE f \in {"DATEV", "GoBD"} -> 3650
      [] f \in {"BaFin", "Basel_III"} -> 1825
      [] f = "SOX" -> 2555
      [] f = "ISO_27001" -> 1095
      [] OTHER -> 365
FrameworkOverride(f) == IF f = "other" THEN 0 ELSE FrameworkDays(f)

Larger(a, b) == IF a > b THEN a ELSE b

\* validate_retention_change.
RetentionChangeAllowed(state, framework, floor, current, requested) ==
    ModeActive(state) =>
        /\ requested >= Larger(floor, FrameworkDays(framework))
        /\ requested >= current

-----------------------------------------------------------------------------
(* The approval of a human, as the session keeps it. *)

ApprovalStatuses == {"none", "pending", "approved", "rejected"}

Approval == [status : ApprovalStatuses,
             initiator : Roles \cup {NoRole}, approver : Roles \cup {NoRole}]

NoApproval == [status |-> "none", initiator |-> NoRole, approver |-> NoRole]

\* apply_human_approval: what it refuses, and what it records.
ApprovalAccepted(decision, initiator, approver) ==
    decision = "approve" =>
        /\ Allowed(approver, "approve_human_gate", TRUE, NoRole)
        /\ approver # initiator

ApprovalOf(decision, initiator, approver) ==
    [status |-> CASE decision = "approve" -> "approved"
                  [] decision = "reject" -> "rejected"
                  [] OTHER -> "pending",
     initiator |-> initiator, approver |-> approver]

\* Mutant: the status is believed without asking who gave it.
FinalizationGuardByStatus(regulated, runType, approval) ==
    regulated /\ (approval.status # "none" \/ runType = "pr") => approval.status = "approved"

\* _regulated_finalization_guard.  Unless the session says otherwise only a pull
\* request needs an approval; an unrecorded initiator is the operator.
FinalizationGuard(regulated, runType, approval) ==
    LET required == approval.status # "none" \/ runType = "pr"
        initiator == IF approval.initiator = NoRole THEN "operator" ELSE approval.initiator
    IN regulated /\ required =>
          /\ approval.status = "approved"
          /\ Allowed(initiator, "finalize_run", TRUE, approval.approver)
=============================================================================
