---------------------------- MODULE StartPhases ----------------------------
(***************************************************************************)
(* The phase kernel before Phase 4 (kernel/phase_kernel.py), the hydration  *)
(* the launcher does before each of its calls, and the launcher's walk      *)
(* from a committed session to the ticket gate (entrypoints/                *)
(* bootstrap_preflight_readonly.py, run_kernel_continuation).  Operators on *)
(*                                                                         *)
(*   s    the SESSION_STATE document,                                      *)
(*   art  the Phase-2 artifacts that exist in the workspace.               *)
(*                                                                         *)
(* The four commit flags are written together, with Bootstrap.Satisfied,    *)
(* and are one field.  Nothing at run time writes an API into the session   *)
(* (Scope.ExternalAPIs is created empty), so Phase 3A leads to Phase 4 and  *)
(* 3B-1 and 3B-2 are not reached from here.                                *)
(***************************************************************************)
EXTENDS Integers

StartTokens == {"1", "1.1", "1.2", "1.3", "1.5", "2", "2.1", "3A", "4"}

\* PHASE_RANK: Phase 1.5 ranks before 2 although it comes after 2.1.
StartRank == [t \in StartTokens |->
    CASE t = "1" -> 10 [] t = "1.1" -> 11 [] t = "1.2" -> 12 [] t = "1.3" -> 13
      [] t = "1.5" -> 15 [] t = "2" -> 20 [] t = "2.1" -> 21 [] t = "3A" -> 30
      [] t = "4" -> 40]

Artifacts == {"repo-cache", "repo-map-digest", "decision-pack", "workspace-memory"}

\* SESSION_STATE.BusinessRules: no block, normalised without evidence, the two
\* outcomes of a discovery, and cleared for a fresh start.
RuleStates == {"none", "unresolved", "extracted", "gap-detected", "cleared"}

SessionDocument ==
    [phase     : StartTokens,
     committed : BOOLEAN,      \* CommitFlags and Bootstrap.Satisfied
     intent    : BOOLEAN,      \* Intent.Sha256 is not empty
     evidence  : BOOLEAN,      \* phase_transition_evidence
     rulebooks : BOOLEAN,      \* LoadedRulebooks with their evidence
     discovery : {"absent", "incomplete", "complete"},
     rules     : RuleStates,
     p54       : {"pending", "gap-detected"},
     api       : {"absent", "not-applicable"},
     asking    : BOOLEAN,      \* the active gate or its condition asks for a ticket
     ready     : BOOLEAN]      \* ticket_intake_ready

-----------------------------------------------------------------------------
(* phase_api.yaml, up to Phase 4. *)

\* _phase_1_5 is done when the discovery left evidence and an outcome.
DiscoveryResolved(s) == s.rules \in {"extracted", "gap-detected"}

\* The phases a phase may lead to; in Phase 4 a launcher records no ticket.
Nexts(t) ==
    CASE t = "1.1" -> {"1"}   [] t = "1"   -> {"1.2"} [] t = "1.2" -> {"1.3"}
      [] t = "1.3" -> {"2"}   [] t = "2"   -> {"2.1"} [] t = "2.1" -> {"1.5", "3A"}
      [] t = "1.5" -> {"3A"}  [] t = "3A"  -> {"4"}   [] t = "4"   -> {"4"}

Following(t, s) ==
    IF t = "2.1" THEN IF DiscoveryResolved(s) THEN "3A" ELSE "1.5"
                 ELSE CHOOSE n \in Nexts(t) : TRUE

\* route_strategy next: the session takes the name of the phase that follows.
MovesOn(t) == t \in {"1.2", "2.1", "1.5", "3A"}

-----------------------------------------------------------------------------
(* execute(), in the order of its checks. *)

Result(phase, next, ok, asking) ==
    [phase |-> phase, next |-> next, ok |-> ok, asking |-> asking]

Refusal(t, asking) == Result(t, t, FALSE, asking)

\* _validate_exit.
ExitEvidence(t, s) ==
    /\ t = "1.2" => s.intent
    /\ t = "1.3" => s.rulebooks
    /\ t = "1.5" => s.rules \in {"extracted", "gap-detected", "cleared"}
    /\ t = "2"   => s.discovery # "absent"
    /\ t = "3A"  => s.api # "absent"

\* From the rulebook gate on, for the phase that was chosen.
Leave(t, s) ==
    IF StartRank[t] >= StartRank["2"] /\ ~s.rulebooks THEN Refusal("1.3", FALSE)
    ELSE IF ~ExitEvidence(t, s) THEN Refusal(t, FALSE)
    ELSE LET phase == IF MovesOn(t) THEN Following(t, s) ELSE t
         IN  Result(phase, Following(t, s), TRUE, phase = "4")

\* From the transition table on: a phase the table leads to, with evidence for
\* a step ahead, and no question for a ticket before Phase 4.
Move(chosen, req, s) ==
    IF \/ req \notin {s.phase} \cup Nexts(s.phase)
       \/ (StartRank[req] > StartRank[s.phase] /\ ~s.evidence)
    THEN Refusal(s.phase, s.phase = "4")
    ELSE IF StartRank[chosen] < StartRank["4"] /\ s.asking
         THEN Refusal(chosen, TRUE)
         ELSE Leave(chosen, s)

\* Mutant: no look at the commit flags.
StartUngated(req, s) ==
    IF StartRank[req] >= StartRank[s.phase] THEN Move(req, req, s)
    ELSE IF s.phase = "1.2" /\ s.committed THEN Move(s.phase, req, s)
    ELSE IF Following(s.phase, s) = req /\ s.evidence THEN Move(req, req, s)
    ELSE Result(s.phase, Following(s.phase, s), TRUE, s.phase \in {"3A", "4"})

\* A request for an earlier phase is answered with the one the session is in,
\* unless the table itself leads there.
ExecuteStart(req, s) ==
    LET back  == StartRank[req] < StartRank[s.phase]
        entry == IF back THEN s.phase ELSE req
    IN  IF StartRank[entry] >= StartRank["2"] /\ ~s.committed
        THEN Refusal("1.1", FALSE)
        ELSE IF ~back \/ (s.phase = "1.2" /\ s.committed) THEN Move(entry, req, s)
        ELSE IF Following(s.phase, s) = req /\ s.evidence THEN Move(req, req, s)
        ELSE Result(s.phase, Following(s.phase, s), TRUE, s.phase \in {"3A", "4"})

-----------------------------------------------------------------------------
(* run_kernel_continuation. *)

\* canonicalize_business_rules_outcome on what the session still tells: a
\* cleared block keeps its validation result, which counts as a final report.
NormalRules(s) ==
    CASE s.rules \in {"none", "unresolved"}      -> "unresolved"
      [] s.rules \in {"gap-detected", "cleared"} -> "gap-detected"
      [] s.rules = "extracted"                   -> "extracted"

NormalP54(s) ==
    CASE NormalRules(s) = "extracted"    -> s.p54
      [] NormalRules(s) = "gap-detected" -> "gap-detected"
      [] NormalRules(s) = "unresolved"   -> "pending"

\* _hydrate_transition_state: what a phase asks for is filled in before it is.
Hydrated(req, s, art) ==
    LET upTo(t) == StartRank[req] >= StartRank[t]
    IN  [s EXCEPT
            !.rulebooks = @ \/ upTo("1.3"),
            !.discovery = IF ~upTo("2") THEN @
                          ELSE IF {"repo-cache", "repo-map-digest"} \subseteq art
                               THEN "complete" ELSE "incomplete",
            !.rules = IF upTo("2.1") THEN NormalRules(s) ELSE @,
            !.p54   = IF upTo("2.1") THEN NormalP54(s) ELSE @,
            !.api   = IF req = "3A" THEN "not-applicable" ELSE @]

Walks == [s : SessionDocument, req : StartTokens, ok : BOOLEAN, over : BOOLEAN]

\* A hop on a walk whose document s has been hydrated: the kernel's answer is
\* kept in the document, and the walk ends with a refusal, in Phase 4 or where
\* nothing moves.
Hop(w, s) ==
    LET r == ExecuteStart(w.req, s)
    IN  [s    |-> [s EXCEPT !.phase = r.phase, !.asking = r.asking],
         req  |-> r.next,
         ok   |-> r.ok,
         over |-> \/ ~r.ok
                  \/ StartRank[r.phase] >= StartRank["4"]
                  \/ r.next = w.req /\ r.phase = w.req]

\* One turn of the loop.
Turn(art) ==
    [w \in Walks |->
        IF w.over THEN w
        ELSE [s \in SessionDocument |-> Hop(w, s)][Hydrated(w.req, w.s, art)]]

FourTurns(art, w) == Turn(art)[Turn(art)[Turn(art)[Turn(art)[w]]]]

Setout(s) ==
    [s |-> [s EXCEPT !.evidence = TRUE], req |-> s.phase, ok |-> TRUE, over |-> FALSE]

\* Mutant: fewer hops than the way has.
ShortWalk(s, art) == FourTurns(art, Setout(s))

\* max_hops = 8.
Walked(s, art) == FourTurns(art, FourTurns(art, Setout(s)))

\* _ticket_intake_ready, and apply_fresh_start_business_rules_neutralization in
\* a Phase 4 without a ticket.
Closed(s) ==
    [s EXCEPT !.evidence = FALSE,
              !.ready    = StartRank[s.phase] >= StartRank["4"] /\ s.committed,
              !.rules    = IF s.phase = "4" THEN "cleared" ELSE @]
=============================================================================
