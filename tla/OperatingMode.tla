---------------------------- MODULE OperatingMode ----------------------------
(***************************************************************************)
(* The operating mode a run of the engine works in.                         *)
(*                                                                         *)
(*   domain/operating_profile.py               profiles and their resolution *)
(*   application/use_cases/resolve_operating_mode.py   the inputs and errors *)
(*                                                                         *)
(* The inputs are an environment: a record with the mode of the host, what   *)
(* the policy of the repository and the backfill variable say, whether the   *)
(* deadline for a backfill has passed, what is enforced and by whom, the     *)
(* signals set, the floor, and the break-glass record.  "none" is an unset   *)
(* or empty variable, "bogus" a value no table knows.                        *)
(***************************************************************************)
EXTENDS Naturals, FiniteSets

Profiles == {"solo", "team", "regulated"}
Modes == {"user", "pipeline", "agents_strict", "system"}

Hardness(profile) == CASE profile = "solo" -> 1 [] profile = "team" -> 2 [] OTHER -> 3

\* normalize_operating_profile: the aliases of the profiles.
Normalized(token) ==
    CASE token \in {"solo", "user"} -> "solo"
      [] token \in {"team", "pipeline", "system"} -> "team"
      [] token \in {"regulated", "agents_strict"} -> "regulated"
      [] OTHER -> "none"

\* _profile_to_runtime_mode.
RuntimeMode(profile) ==
    CASE profile = "team" -> "pipeline" [] profile = "regulated" -> "agents_strict" [] OTHER -> "user"

\* max_operating_profile, over the profiles that are given.
Hardest(profiles) ==
    LET given == profiles \ {"none"}
    IN CHOOSE p \in given : \A q \in given : Hardness(p) >= Hardness(q)

Downshift(current, requested) == Hardness(requested) < Hardness(current)

-----------------------------------------------------------------------------
\* normalize_enforcement_source and assess_enforcement_trust.
Trusted(source, signals) ==
    CASE source = "ci" -> "ci" \in signals
      [] source = "protected-pipeline" -> {"ci", "protected"} \subseteq signals
      [] source = "regulated-pipeline" -> {"ci", "regulated"} \subseteq signals
      [] source = "repo-policy" -> "repo-bound" \in signals
      [] source = "org-policy" -> "org-bound" \in signals
      [] OTHER -> FALSE

\* validate_break_glass: a record with its required fields, an expiry to come,
\* and a clock to compare it with.
BreakGlassError(glass) ==
    CASE glass = "incomplete" -> "BREAK_GLASS_INVALID"
      [] glass = "expired" -> "BREAK_GLASS_EXPIRED"
      [] OTHER -> "none"

-----------------------------------------------------------------------------
(* resolve_operating_profile. *)

\* Its inputs: tokens for requested, repo, init, enforced and floor, and the
\* rest of the environment.
TrustedEnforcement(i) ==
    IF i.enforced # "none" /\ Trusted(i.source, i.signals) THEN Normalized(i.enforced) ELSE "none"

Baseline(i) == Hardest({Normalized(i.repo), Normalized(i.init)})

\* The mode before it is checked: a downshift takes place only under an active
\* break-glass record.
Candidate(i) ==
    LET base == Baseline(i)
        requested == Normalized(i.requested)
    IN IF i.glass = "active" /\ requested # "none" /\ Downshift(base, requested)
       THEN requested
       ELSE Hardest({base, TrustedEnforcement(i), requested})

\* The first check that fails.
ProfileError(i) ==
    LET requested == Normalized(i.requested)
        tokens == {i.requested, i.repo, i.init, i.enforced, i.floor}
    IN IF \E t \in tokens : t # "none" /\ Normalized(t) = "none" THEN "UNKNOWN_PROFILE"
       ELSE IF {Normalized(i.repo), Normalized(i.init)} = {"none"} THEN "MISSING_OPERATING_MODE"
       ELSE IF /\ i.enforced # "none" /\ TrustedEnforcement(i) = "none"
               /\ Hardest({Normalized(i.repo), Normalized(i.init), Normalized(i.floor)}) = "regulated"
            THEN "UNTRUSTED_ENFORCEMENT_SOURCE"
       ELSE IF BreakGlassError(i.glass) # "none" THEN BreakGlassError(i.glass)
       ELSE IF i.glass # "active" /\ requested # "none" /\ Downshift(Baseline(i), requested)
            THEN "FORBIDDEN_DOWNSHIFT"
       ELSE IF i.floor # "none" /\ Downshift(Normalized(i.floor), Candidate(i))
            THEN "PROFILE_FLOOR_VIOLATION"
       ELSE IF TrustedEnforcement(i) # "none" /\ Downshift(TrustedEnforcement(i), Candidate(i))
            THEN "INVALID_PROFILE_CONFLICT" ELSE "none"

-----------------------------------------------------------------------------
(* resolve_operating_mode_result. *)

\* _resolve_repo_profile: the policy of the repository, or until the deadline
\* the variable, or the mode of the host.
RepoProfile(env) ==
    CASE env.policy # "none" -> env.policy
      [] env.policy = "none" /\ env.late -> "none"
      [] env.policy = "none" /\ ~env.late /\ env.backfill # "none" -> env.backfill
      [] OTHER -> env.host

\* The environment as the inputs of the profiles; CI enforces team and has the
\* floor team unless something else is said.
ProfileInputs(env, requested) ==
    LET ci == "ci" \in env.signals
        byCi == ci /\ env.enforced = "none"
    IN [requested |-> requested, repo |-> RepoProfile(env), init |-> env.host,
        enforced |-> IF byCi THEN "team" ELSE env.enforced,
        source |-> IF byCi /\ env.source = "none" THEN "ci" ELSE env.source,
        signals |-> env.signals,
        floor |-> IF ci /\ env.floor = "none" THEN "team" ELSE env.floor,
        glass |-> env.glass]

Resolution(profile, mode, state, error) ==
    [profile |-> profile, mode |-> mode, state |-> state, error |-> error]

\* A mode asked for other than user is taken as it is.
ExplicitRequest(requested) == requested \notin {"none", "user"}

\* The default of hosts that are strict, unless the repository says otherwise.
LegacyDefault(env, requested) ==
    requested = "none" /\ env.host = "agents_strict" /\ env.policy = "none" /\ env.backfill = "none"

\* A profile that cannot be resolved is team, blocked or as a fallback.
ResolveMode(env, requested) ==
    LET inputs == ProfileInputs(env, requested)
        error == ProfileError(inputs)
        fallback == IF env.policy = "none" THEN "MISSING_OPERATING_MODE" ELSE "none"
    IN CASE ExplicitRequest(requested) -> Resolution(Normalized(requested), requested, "resolved", "none")
         [] ~ExplicitRequest(requested) /\ LegacyDefault(env, requested) ->
                Resolution("regulated", "agents_strict", "resolved", "none")
         [] ~ExplicitRequest(requested) /\ ~LegacyDefault(env, requested) /\ RepoProfile(env) = "none" ->
                Resolution("team", "pipeline", "blocked", "MISSING_OPERATING_MODE")
         [] OTHER ->
                IF error = "none"
                THEN LET profile == Candidate(inputs)
                     IN Resolution(profile, RuntimeMode(profile),
                                   IF fallback = "none" THEN "resolved" ELSE "fallback", fallback)
                ELSE Resolution("team", "pipeline",
                                IF error \in {"UNTRUSTED_ENFORCEMENT_SOURCE", "MISSING_OPERATING_MODE"}
                                THEN "blocked" ELSE "fallback", error)

-----------------------------------------------------------------------------
(* The rules a resolution keeps. *)

\* A mode resolved without an error and without an explicit request is never
\* below what a trusted source enforces nor below the floor, not even under a
\* break-glass record; and below the repository only under one.
ModeRulesKept(env, requested) ==
    LET r == ResolveMode(env, requested)
        i == ProfileInputs(env, requested)
    IN ~ExplicitRequest(requested) /\ ~LegacyDefault(env, requested)
          /\ r.state # "blocked" /\ r.error \in {"none", "MISSING_OPERATING_MODE"} =>
            /\ Normalized(i.floor) # "none" => ~Downshift(Normalized(i.floor), r.profile)
            /\ TrustedEnforcement(i) # "none" => ~Downshift(TrustedEnforcement(i), r.profile)
            /\ env.policy # "none" /\ Downshift(Normalized(env.policy), r.profile)
                    => env.glass = "active"
=============================================================================
