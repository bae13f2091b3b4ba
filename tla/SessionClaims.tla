--------------------------- MODULE SessionClaims ---------------------------
(***************************************************************************)
(* What the documentation and the comments of the repository say of a work  *)
(* run, stated over GovernanceSession.  The code does otherwise in each      *)
(* case; the run that checks a claim ends with the behaviour that shows it.  *)
(***************************************************************************)
EXTENDS MCGovernanceSession

\* DOCS.md:358, "Phase 6 runs internal review loop, then presents evidence": a
\* plan that can be decided on has been through the loop.
ReviewedBeforeDecision == Decidable => planRecord \in reviewed

\* The docstring of _normalize_phase6_completion_flags: completion is not
\* normalised when the loop "made a blocking decision".  A changes_requested
\* verdict thus keeps the next /continue from opening the decision.
BlockingVerdictStands ==
    [][st.verdict = "changes_requested" /\ st.phase = "6" /\ Continue => ~Decidable']_vars
=============================================================================
