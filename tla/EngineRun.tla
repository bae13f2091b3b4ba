------------------------------ MODULE EngineRun ------------------------------
(***************************************************************************)
(* One run of the engine after the other, while the world changes between   *)
(* them (application/use_cases/orchestrate_run.py): the chain of gates that  *)
(* ends in ok, not verified or blocked, with a reason.                      *)
(*                                                                         *)
(*   engine/interaction_gate.py, engine/mode_repo_rules.py    prompts        *)
(*   domain/policy_precedence.py                              widening       *)
(*   application/use_cases/evaluate_persistence_gate.py       persistence    *)
(*   application/policies/persistence_policy.py                             *)
(*   infrastructure/write_policy.py, engine/surface_policy.py targets        *)
(*   engine/runtime.py, engine/gate_evaluator.py              the outcome    *)
(*                                                                         *)
(* The routing by the phase kernel is a module of its own; here the phase    *)
(* the kernel routes to is part of the world.  It asks whether there is a     *)
(* repository; a run in which a lost capability changes that answer is        *)
(* blocked by a gate that needs the capability, whatever the phase.           *)
(***************************************************************************)
EXTENDS OperatingMode, PackLock, Evidence

CONSTANTS
    Alternatives,  \* for every field of a request, the values it may change to
    Baselines,     \* the requests to begin with
    NewItems,      \* the items of evidence that may be observed
    PackEdits,     \* the changes of manifests: [pack, field, value]
    AskCost,       \* what another request counts; an item or a tick counts 1
    MaxChanges, MaxTime

VARIABLES
    request,  \* what is asked of the engine, and the world it is asked in
    items,    \* the items of BuildEvidence, in their order
    now,      \* the clock
    outcome,  \* what the engine answers
    changes   \* what the changes so far count

evars == <<request, items, now, outcome, changes>>

Capabilities ==
    {"read_commands", "exec", "write_workspaces", "write_commands", "write_config", "write_repo", "git"}

\* has_required_mode_capabilities; user is not asked.
RequiredCapabilities(mode) ==
    CASE mode = "user" -> {}
      [] mode = "system" -> {"exec", "read_commands", "write_workspaces"}
      [] OTHER -> {"exec", "read_commands", "write_workspaces", "write_commands", "git"}

\* DEFAULT_PROMPT_BUDGETS; system is not in the table.
Budget(mode) ==
    CASE mode = "pipeline" -> [total |-> 0, docs |-> 0]
      [] mode = "agents_strict" -> [total |-> 10, docs |-> 6]
      [] OTHER -> [total |-> 3, docs |-> 0]

-----------------------------------------------------------------------------
(* Targets. *)

\* _SURFACE_POLICY: the surfaces by the capability they take.
SurfaceCapability(target) ==
    CASE target \in {"WORKSPACE_MEMORY_FILE", "SESSION_STATE_FILE", "REPO_CACHE_FILE",
                     "REPO_DECISION_PACK_FILE", "REPO_DIGEST_FILE"} -> "write_workspaces"
      [] target \in {"COMMANDS_HOME", "PROFILES_HOME", "SESSION_STATE_POINTER_FILE"} -> "write_commands"
      [] target \in {"CONFIG_ROOT", "OPENCODE_HOME", "WORKSPACES_HOME"} -> "write_config"
      [] target \in {"REPO_HOME", "REPO_BUSINESS_RULES_FILE"} -> "write_repo"
      [] OTHER -> "none"

MinimumMode(target) ==
    CASE target \in {"COMMANDS_HOME", "PROFILES_HOME"} -> "system"
      [] target = "SESSION_STATE_POINTER_FILE" -> "pipeline"
      [] OTHER -> "user"

ModeRank(mode) == CASE mode = "pipeline" -> 3 [] mode = "system" -> 2 [] OTHER -> 1

\* evaluate_target_path: the canonical variables.  A plan record or the home of
\* the overrides is one of them, and no surface.
CanonicalTarget(target) ==
    SurfaceCapability(target) # "none" \/ target \in {"PLAN_RECORD_FILE", "REPO_OVERRIDES_HOME"}

-----------------------------------------------------------------------------
(* Persistence and the phase. *)

PhaseWindow(target) ==
    CASE target \in {"REPO_CACHE_FILE", "REPO_DIGEST_FILE"} -> {"2"}
      [] target = "REPO_DECISION_PACK_FILE" -> {"2.1"}
      [] target = "REPO_BUSINESS_RULES_FILE" -> {"1.5"}
      [] target = "PLAN_RECORD_FILE" -> {"4", "5", "5.3"}
      [] OTHER -> {"2", "4", "5", "5.3", "6"}

Artifacts ==
    {"REPO_CACHE_FILE", "REPO_DIGEST_FILE", "REPO_DECISION_PACK_FILE", "REPO_BUSINESS_RULES_FILE",
     "WORKSPACE_MEMORY_FILE", "PLAN_RECORD_FILE"}

\* evaluate_phase_coupled_persistence and can_write.  What the memory takes in
\* from phase 4 on needs the gate and the words of a person.
PersistenceError(r, mode) ==
    LET memory == r.target = "WORKSPACE_MEMORY_FILE" /\ r.phase # "2"
    IN IF ~r.writes \/ r.target \notin Artifacts THEN "none"
       ELSE IF r.phase \notin PhaseWindow(r.target) THEN "PERSIST_PHASE_MISMATCH"
       ELSE IF r.target = "REPO_BUSINESS_RULES_FILE" /\ ~r.rules THEN "PERSIST_GATE_NOT_APPROVED"
       ELSE IF memory /\ ~r.approved THEN "PERSIST_GATE_NOT_APPROVED"
       ELSE IF memory /\ mode = "pipeline" THEN "PERSIST_DISALLOWED_IN_PIPELINE"
       ELSE IF memory /\ r.words = "none" THEN "PERSIST_CONFIRMATION_REQUIRED"
       ELSE IF memory /\ r.words # "YES" THEN "PERSIST_CONFIRMATION_INVALID" ELSE "none"

-----------------------------------------------------------------------------
(* What a host and its rules are recorded as.                                *)

\* resolve_repo_root: without exec or git no repository is found.
IsGitRoot(r) == r.root /\ {"exec", "git"} \subseteq r.caps

\* build_ruleset_hash, by what it is made of.  No pack selected stands for no
\* selection given, and has no lock, as a selection that does not resolve.
RulesetHash(r) ==
    <<r.selected, IF PackLockError(r.manifests, r.selected) = "none"
                  THEN LockHash(r.manifests, r.selected) ELSE <<>>>>

\* The fingerprint of the session, the one the ready gate puts there, or the path.
RepoIdentity(r) ==
    CASE r.known # "none" -> r.known
      [] r.known = "none" /\ r.commit /\ IsGitRoot(r) -> r.live
      [] OTHER -> "path"

\* build_activation_hash, by what it is made of; the phase stands for the gate and
\* its condition too.
ActivationHash(r, mode) ==
    <<r.phase, r.target, mode, r.caps, IsGitRoot(r), RepoIdentity(r), RulesetHash(r)>>

\* A run that is asked to match the hashes of an earlier one: no hash, <<>>, is
\* matched by any.
HashReason(r, mode) ==
    IF r.matchHashes /\ r.ruleset \notin {<<>>, RulesetHash(r)} THEN "BLOCKED-RULESET-HASH-MISMATCH"
    ELSE IF r.matchHashes /\ r.activation \notin {<<>>, ActivationHash(r, mode)}
         THEN "BLOCKED-ACTIVATION-HASH-MISMATCH" ELSE "none"

-----------------------------------------------------------------------------
(* The chain. *)

\* The gates before the prompts.  A later one that blocks gives the reason, and
\* a workspace that is not ready only notes that it is not committed.
EarlyReason(r, mode, resolved) ==
    LET resolution == IF resolved.state = "blocked" THEN resolved.error ELSE "none"
        capability == IF RequiredCapabilities(mode) \subseteq r.caps
                      THEN resolution ELSE "BLOCKED-OPERATING-MODE-REQUIRED"
    IN IF ~r.commit \/ ~IsGitRoot(r) THEN capability
       ELSE CASE r.live = "none" \/ r.known \notin {r.live, "none"} -> "BLOCKED-FINGERPRINT-MISMATCH"
              [] OTHER -> IF capability = "none" /\ r.ready = "raises"
                          THEN "BLOCKED-WORKSPACE-PERSISTENCE" ELSE capability

\* Prompts: in a pipeline none, elsewhere within the budget.  In agents_strict a
\* document that says to ask first makes the run interactive, and no more.
PromptReason(r, mode) ==
    CASE mode = "pipeline" /\ (r.interactive \/ r.prompts > 0 \/ r.docPrompts > 0)
            -> "INTERACTIVE-REQUIRED-IN-PIPELINE"
      [] mode # "pipeline" /\ (r.prompts > Budget(mode).total \/ r.docPrompts > Budget(mode).docs)
            -> "PROMPT-BUDGET-EXCEEDED"
      [] OTHER -> "none"

\* The surface of the target.  It is asked for unless the path has no variable.
SurfaceReason(r, mode) ==
    IF SurfaceCapability(r.target) = "none" THEN "BLOCKED-PERMISSION-DENIED"
    ELSE IF ModeRank(mode) < ModeRank(MinimumMode(r.target))
         THEN IF MinimumMode(r.target) = "system" THEN "BLOCKED-SYSTEM-MODE-REQUIRED"
                                                  ELSE "BLOCKED-OPERATING-MODE-REQUIRED"
    ELSE IF SurfaceCapability(r.target) \notin r.caps THEN "BLOCKED-PERMISSION-DENIED"
    ELSE IF ~IsGitRoot(r) /\ "git" \notin r.caps THEN "BLOCKED-REPO-IDENTITY-RESOLUTION" ELSE "none"

\* The lock seen against the lock that is due.
PackReason(r) ==
    LET error == PackLockError(r.manifests, r.selected)
    IN CASE r.selected = {} -> "none"
         [] r.selected # {} /\ error = "surface" -> "BLOCKED-SURFACE-CONFLICT"
         [] r.selected # {} /\ error = "invalid" -> "BLOCKED-PACK-LOCK-INVALID"
         [] OTHER ->
            CASE r.lock = <<>> -> IF r.requireLock THEN "BLOCKED-PACK-LOCK-REQUIRED" ELSE "none"
              [] OTHER -> IF r.lock # LockHash(r.manifests, r.selected)
                          THEN "BLOCKED-PACK-LOCK-MISMATCH" ELSE "none"

\* The gates after the prompts, in their order; the first that blocks counts.
\* Code is held back by the phase that is asked for, not the one routed to.
LateReasons(r, mode) ==
    <<IF "unsafe" \in r.doc THEN "REPO-DOC-UNSAFE-DIRECTIVE" ELSE "none",
      IF r.widening /\ (mode = "pipeline" \/ ~r.widenApproved) THEN "REPO-CONSTRAINT-WIDENING" ELSE "none",
      PersistenceError(r, mode),
      IF r.code /\ r.asked # "6" THEN "BLOCKED-STATE-OUTDATED" ELSE "none",
      IF "read_commands" \in r.caps THEN "none" ELSE "BLOCKED-MISSING-BINDING-FILE",
      IF "exec" \in r.caps THEN "none" ELSE "BLOCKED-EXEC-DISALLOWED",
      IF CanonicalTarget(r.target) THEN "none" ELSE "BLOCKED-PERSISTENCE-PATH-VIOLATION",
      SurfaceReason(r, mode),
      PackReason(r),
      HashReason(r, mode),
      IF mode \in {"system", "pipeline"} /\ r.dirty THEN "BLOCKED-RELEASE-HYGIENE" ELSE "none">>

FirstReason(reasons) ==
    LET blocking == {i \in DOMAIN reasons : reasons[i] # "none"}
    IN IF blocking = {} THEN "none" ELSE reasons[Min(blocking)]

\* Mutant: a gate before the prompts gives way to them.
GateReasonForgetful(r, mode, resolved) ==
    FirstReason(<<PromptReason(r, mode)>> \o LateReasons(r, mode))

\* The gates together.  A prompt that is not allowed hides an earlier reason.
GateReason(r, mode, resolved) ==
    LET early == EarlyReason(r, mode, resolved)
        prompt == PromptReason(r, mode)
    IN CASE prompt # "none" -> prompt
         [] prompt = "none" /\ early # "none" -> early
         [] OTHER -> FirstReason(LateReasons(r, mode))

\* evaluate_runtime_activation: live only with a selfcheck that passes; one that
\* fails blocks, or degrades.
RuntimeReason(r) ==
    CASE r.live_engine /\ ~r.selfcheck /\ r.degrade -> "WARN-ENGINE-LIVE-DENIED"
      [] r.live_engine /\ ~r.selfcheck /\ ~r.degrade -> "BLOCKED-ENGINE-SELFCHECK"
      [] OTHER -> "none"

\* The evidence the claims need.
MissingClaims(r, seen, at) == r.claims \ (r.told \cup ObservedClaims(seen, at))
StaleRequired(r, seen, at) == r.claims \cap StaleClaims(seen, r.listed, at)

\* The status: what the parity fields and the evidence make of it.
StatusOf(r, gate, seen, at) ==
    IF gate # "none" \/ RuntimeReason(r) = "BLOCKED-ENGINE-SELFCHECK" THEN "blocked"
    ELSE IF ~r.supported \/ StaleRequired(r, seen, at) # {} \/ MissingClaims(r, seen, at) # {}
         THEN "not_verified" ELSE "ok"

\* The reason: that of the runtime hides that of the gates.
ReasonOf(r, gate, seen, at) ==
    LET status == StatusOf(r, gate, seen, at)
    IN CASE status = "blocked" -> IF RuntimeReason(r) # "none" THEN RuntimeReason(r) ELSE gate
         [] status = "not_verified" ->
                (CASE ~r.supported -> "REPO-CONSTRAINT-UNSUPPORTED"
                   [] r.supported /\ StaleRequired(r, seen, at) # {} -> "NOT_VERIFIED-EVIDENCE-STALE"
                   [] OTHER -> "NOT_VERIFIED-MISSING-EVIDENCE")
         [] OTHER ->
                IF RuntimeReason(r) # "none" THEN RuntimeReason(r)
                ELSE IF "git" \notin r.caps /\ IsGitRoot(r) THEN "WARN-PERMISSION-LIMITED" ELSE "none"

\* Mutant: a mode whose capabilities are missing is downgraded to user.
EngineOutcomeDowngrading(r, seen, at) ==
    LET found == ResolveMode(r.env, r.mode)
        resolved == [found EXCEPT !.mode = IF RequiredCapabilities(@) \subseteq r.caps THEN @ ELSE "user"]
        gate == GateReason(r, resolved.mode, resolved)
    IN [status |-> StatusOf(r, gate, seen, at), reason |-> ReasonOf(r, gate, seen, at), gate |-> gate,
        mode |-> resolved.mode,
        exit |-> StrictExitBlocks(r.contract, r.otherPhases, seen, r.tier, at, r.strict)]

\* run_engine_orchestrator, with the gate at the exit of the phase.
EngineOutcome(r, seen, at) ==
    LET resolved == ResolveMode(r.env, r.mode)
        gate == GateReason(r, resolved.mode, resolved)
    IN [status |-> StatusOf(r, gate, seen, at), reason |-> ReasonOf(r, gate, seen, at), gate |-> gate,
        mode |-> resolved.mode,
        exit |-> StrictExitBlocks(r.contract, r.otherPhases, seen, r.tier, at, r.strict)]

-----------------------------------------------------------------------------
(* What a request and an item of evidence hold. *)

RequestFields ==
    {"env", "mode", "caps", "commit", "root", "live", "known", "ready", "asked", "phase", "code",
     "target", "writes", "approved", "rules", "words", "interactive", "prompts", "docPrompts", "doc",
     "widening", "widenApproved", "supported", "manifests", "selected", "lock", "requireLock",
     "matchHashes", "ruleset", "activation", "dirty", "live_engine", "selfcheck", "degrade", "claims", "told", "listed",
     "contract", "otherPhases", "tier", "strict"}

\* The exit contract of a phase, and the items of BuildEvidence.
ExitCriterion == [key : STRING, kind : STRING, resolver : STRING, critical : BOOLEAN]
Contract == Seq(ExitCriterion)
EvidenceItem ==
    [claim : STRING, kind : STRING, good : BOOLEAN,
     seen : {Unset} \cup Nat, ttl : Nat, value : {Unset} \cup Nat]

\* A release has finitely many packs.
ManifestsOK(manifests) == DOMAIN manifests \in SUBSET Nat /\ IsFiniteSet(DOMAIN manifests)

RequestOK(r) ==
    /\ RequestFields \subseteq DOMAIN r
    /\ ManifestsOK(r.manifests)
    /\ r.contract \in Contract /\ r.otherPhases \in Nat

\* What is asked at first, and what is asked instead, has all fields, no phase
\* is counted below none, and packs are finitely many.
ASSUME RequestsAssumption ==
    /\ \A r \in Baselines : RequestOK(r)
    /\ "contract" \in DOMAIN Alternatives => Alternatives["contract"] \subseteq Contract
    /\ "otherPhases" \in DOMAIN Alternatives => Alternatives["otherPhases"] \subseteq Nat
    /\ "manifests" \in DOMAIN Alternatives =>
          \A manifests \in Alternatives["manifests"] : ManifestsOK(manifests)

ASSUME ItemsAssumption == NewItems \subseteq EvidenceItem

EInit ==
    /\ request \in Baselines
    /\ items = <<>> /\ now = 0 /\ changes = 0
    /\ outcome = EngineOutcome(request, items, now)

\* The engine is run again after a change of the world.
RunAgain(cost) ==
    /\ changes' = changes + cost
    /\ outcome' = EngineOutcome(request', items', now')

\* Something that is asked, or found, is another than before.
AskOtherwise(field, value) ==
    /\ request[field] # value
    /\ request' = [request EXCEPT ![field] = value]
    /\ UNCHANGED <<items, now>>
    /\ RunAgain(AskCost)

\* A manifest is edited: a set of it gets one element more.
EditManifest(edit) ==
    /\ edit.pack \in DOMAIN request.manifests
    /\ edit.value \notin request.manifests[edit.pack][edit.field]
    /\ request' = [request EXCEPT !.manifests[edit.pack][edit.field] = @ \cup {edit.value}]
    /\ UNCHANGED <<items, now>>
    /\ RunAgain(AskCost)

\* An item is observed and appended to BuildEvidence.
Observe(item) ==
    /\ changes < MaxChanges
    /\ items' = Append(items, [item EXCEPT !.seen = IF @ = Unset THEN Unset ELSE now])
    /\ UNCHANGED <<request, now>>
    /\ RunAgain(1)

\* Time goes by.
Wait ==
    /\ changes < MaxChanges /\ now < MaxTime
    /\ now' = now + 1
    /\ UNCHANGED <<request, items>>
    /\ RunAgain(1)

AskNext ==
    /\ changes + AskCost <= MaxChanges
    /\ \/ \E field \in DOMAIN Alternatives : \E value \in Alternatives[field] : AskOtherwise(field, value)
       \/ \E edit \in PackEdits : EditManifest(edit)

ENext ==
    \/ AskNext
    \/ \E item \in NewItems : Observe(item)
    \/ Wait

ESpec == EInit /\ [][ENext]_evars

-----------------------------------------------------------------------------
StatusRank(status) == CASE status = "ok" -> 0 [] status = "not_verified" -> 1 [] OTHER -> 2

\* What only takes away, a capability withdrawn or time that goes by, opens
\* nothing: neither the outcome nor the exit of the phase gets better.  There is
\* one way out, and it is what that gate is for: a run held back because the host
\* could do more than the one whose activation it has to match may go on when the
\* host is again that one, in everything the activation hash is made of.
Loses ==
    \/ request' = request /\ items' = items /\ now' > now
    \/ /\ items' = items /\ now' = now
       /\ \E lost \in SUBSET Capabilities : request' = [request EXCEPT !.caps = @ \ lost]
HostIsBack ==
    /\ outcome.gate = "BLOCKED-ACTIVATION-HASH-MISMATCH"
    /\ request'.activation = ActivationHash(request', outcome'.mode)
LossOpensNothing ==
    [][Loses => /\ StatusRank(outcome'.status) >= StatusRank(outcome.status) \/ HostIsBack
                /\ outcome.exit => outcome'.exit]_evars

\* A run that is not blocked works in the repository and the workspace that the
\* session is of, in a mode that was resolved and whose capabilities the host
\* has, with packs that were locked, and under the rules and the activation it
\* was asked to match, whatever else was asked at the same time; and a blocked
\* run always has a reason.  A mode that comes out of the profiles of repository,
\* host, enforcement and floor keeps their rules (resolve_operating_mode_result);
\* one asked for by name, the default of a strict host and the fallback after an
\* error are taken as they are.
BlocksAreKept ==
    /\ outcome.status # "blocked" =>
        LET resolved == ResolveMode(request.env, request.mode)
        IN /\ resolved.state # "blocked" /\ RequiredCapabilities(resolved.mode) \subseteq request.caps
           /\ request.commit /\ request.root => request.live # "none" /\ request.known \in {request.live, "none"}
           /\ request.lock # <<>> /\ request.selected # {} =>
                request.lock = LockHash(request.manifests, request.selected)
           /\ request.matchHashes =>
                /\ request.ruleset \in {<<>>, RulesetHash(request)}
                /\ request.activation \in {<<>>, ActivationHash(request, resolved.mode)}
    /\ outcome.status = "blocked" => outcome.reason # "none"
    /\ ModeRulesKept(request.env, request.mode)

\* Under the strict policy a phase with criteria is only left when every
\* critical criterion of its contract, however often it is listed and wherever it
\* comes from, has fresh evidence that meets its threshold.
StrictExitIsBacked ==
    request.strict /\ ~outcome.exit =>
        \A i \in DOMAIN request.contract :
            request.contract[i].critical =>
                LET c == request.contract[i]
                    item == EvidenceFor(c.kind, items)
                IN item # Unset /\ ~Stale(item, now) /\ Meets(c, item, request.tier)

\* A lock that resolves has every pack that is needed, each after the packs it
\* requires, one owner for a surface, and nobody on another's surface unasked.
PackOrderIsSound ==
    PackLockError(request.manifests, request.selected) = "none" =>
        LET packs == Closure(request.manifests, request.selected)
            order == Ordered(request.manifests, packs)
            Place(p) == CHOOSE i \in DOMAIN order : order[i] = p
        IN /\ Range(order) = packs /\ request.selected \subseteq packs
           /\ \A p \in packs : \A q \in request.manifests[p].requires :
                q \in packs /\ Place(q) < Place(p)
           /\ \A p, q \in packs : p # q =>
                /\ q \notin request.manifests[p].conflicts
                /\ request.manifests[p].owns \cap request.manifests[q].owns = {}
                /\ request.manifests[p].touches \cap request.manifests[q].owns # {} =>
                        Place(q) < Place(p)
=============================================================================
