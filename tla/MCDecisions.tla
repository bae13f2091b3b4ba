----------------------------- MODULE MCDecisions -----------------------------
(***************************************************************************)
(* The archive under governance, the engine, the installer and the discovery   *)
(* of business rules on small instances, for TLC.  They share nothing, so a     *)
(* behaviour is about one of them: part says which.                          *)
(***************************************************************************)
EXTENDS GovernedArchive, EngineRun, Install, BusinessRules

CONSTANTS old, new, py1, py2  \* two releases, two interpreters

VARIABLE part

vars == <<gvars, evars, ivars, rvars, part>>

-----------------------------------------------------------------------------
(* The archive: whole and broken ones, as /new-work, a failure or an early   *)
(* stop leaves them; the ages on both sides of every period.                 *)

AllFiles == ArchiveFiles \ {"pr-record"}
SomeArchive(files, status, breaches) == [files |-> files, status |-> status, breaches |-> breaches]
MCArchives ==
    {SomeArchive(AllFiles, "finalized", {}),
     SomeArchive(AllFiles \ {"plan-record"}, "finalized", {}),
     SomeArchive(AllFiles, "finalized", {"schema"}),
     SomeArchive(AllFiles \ {"ticket-record"}, "finalized", {"timestamp", "schema"}),
     SomeArchive({"run-manifest", "metadata"}, "failed", {}),
     SomeArchive(RequiredFiles, "failed", {"integrity-status"}),
     SomeArchive(AllFiles \ {"finalization-record"}, "materialized", {}),
     SomeArchive(AllFiles, "finalized", {"run-id"})}

SomeConfig(state, framework, floor) ==
    [state |-> state, framework |-> framework, floor |-> floor, changed |-> FALSE]
MCConfigs ==
    {Absent, SomeConfig("active", "DATEV", 3650), SomeConfig("transitioning", "SOX", 0),
     SomeConfig("inactive", "GDPR", 365), SomeConfig("on", "DATEV", 365),
     SomeConfig("active", "other", 365)}

SomeExport(role, approver, workspace, redact, level) ==
    [role |-> role, approver |-> approver, workspace |-> workspace, redact |-> redact, level |-> level]
MCExports ==
    {SomeExport("operator", "approver", TRUE, TRUE, "internal"),
     SomeExport("operator", NoRole, TRUE, TRUE, "public"),
     SomeExport("operator", NoRole, FALSE, TRUE, "confidential"),
     SomeExport("compliance_officer", "approver", TRUE, FALSE, "internal"),
     SomeExport("auditor", "approver", TRUE, TRUE, "internal"),
     SomeExport("admin", "admin", TRUE, FALSE, "internal")}
MCAges == {0, 364, 365, 1094, 1095, 1824, 1825, 2554, 2555, 3649, 3650}

-----------------------------------------------------------------------------
(* The engine: a request every gate lets through, and what may change.       *)

\* Surfaces are numbers, as packs are: a set of either is compared with one of the other.
Api == 11
Db == 12

\* Three packs: 1 requires 2, 3 touches what 1 owns and requires it.
Manifest(requires, conflicts, owns, touches) ==
    [requires |-> requires, conflicts |-> conflicts, owns |-> owns, touches |-> touches, fits |-> TRUE]
MCManifests ==
    (1 :> Manifest({2}, {}, {Api}, {})) @@ (2 :> Manifest({}, {}, {Db}, {}))
        @@ (3 :> Manifest({1}, {}, {}, {Api}))

Criterion(key, kind, resolver, critical) ==
    [key |-> key, kind |-> kind, resolver |-> resolver, critical |-> critical]

HostEnv(host) ==
    [host |-> host, policy |-> "team", backfill |-> "none", late |-> FALSE, enforced |-> "none",
     source |-> "none", signals |-> {}, floor |-> "none", glass |-> "none"]

Base ==
    [env |-> HostEnv("user"), mode |-> "none", caps |-> Capabilities,
     commit |-> TRUE, root |-> TRUE, live |-> "here", known |-> "here", ready |-> "ok",
     asked |-> "4", phase |-> "4", code |-> FALSE,
     target |-> "SESSION_STATE_FILE", writes |-> FALSE, approved |-> FALSE, rules |-> FALSE, words |-> "none",
     interactive |-> FALSE, prompts |-> 0, docPrompts |-> 0, doc |-> {},
     widening |-> FALSE, widenApproved |-> FALSE, supported |-> TRUE,
     manifests |-> MCManifests, selected |-> {3}, lock |-> LockHash(MCManifests, {3}), requireLock |-> TRUE,
     matchHashes |-> FALSE, ruleset |-> <<>>, activation |-> <<>>, dirty |-> FALSE, live_engine |-> FALSE, selfcheck |-> TRUE, degrade |-> FALSE,
     claims |-> {}, told |-> {}, listed |-> {},
     contract |-> <<>>, otherPhases |-> 0, tier |-> "high", strict |-> FALSE]

\* Requests to write the memory in each mode, and one at the exit of a phase
\* whose contract lists a criterion twice.
Writing == [Base EXCEPT !.target = "WORKSPACE_MEMORY_FILE", !.writes = TRUE, !.approved = TRUE, !.words = "YES"]
Leaving ==
    [Base EXCEPT !.strict = TRUE, !.claims = {"tests"}, !.mode = "agents_strict",
                 !.contract = <<Criterion("k", "tests", "tier", FALSE), Criterion("k", "tests", "tier", TRUE)>>]
\* One that has to match the hashes of a run on a host with a capability fewer.
HashOf(r) == ActivationHash(r, ResolveMode(r.env, r.mode).mode)
Matching ==
    [Base EXCEPT !.matchHashes = TRUE, !.ruleset = RulesetHash(Base),
                 !.activation = HashOf([Base EXCEPT !.caps = @ \ {"write_config"}])]
MCBaselines ==
    {Base, Writing, Matching} \cup {[Writing EXCEPT !.mode = m] : m \in {"pipeline", "agents_strict", "system"}}

MCAlternatives ==
    [mode |-> Modes \cup {"none"},
     env |-> {[HostEnv("agents_strict") EXCEPT !.policy = "none"], [HostEnv("user") EXCEPT !.policy = "none"],
              [HostEnv("user") EXCEPT !.policy = "none", !.late = TRUE],
              [HostEnv("user") EXCEPT !.policy = "regulated", !.enforced = "solo", !.source = "ci"],
              [HostEnv("user") EXCEPT !.policy = "solo"]},
     caps |-> {Capabilities \ {c} : c \in Capabilities},
     commit |-> {FALSE}, root |-> {FALSE}, live |-> {"there", "none"}, known |-> {"there", "none"},
     ready |-> {"refused", "raises"},
     asked |-> {"6"}, phase |-> {"1.5", "2", "2.1", "5.3", "6"}, code |-> {TRUE},
     target |-> {"REPO_CACHE_FILE", "REPO_DECISION_PACK_FILE", "REPO_BUSINESS_RULES_FILE", "PLAN_RECORD_FILE",
                 "WORKSPACE_MEMORY_FILE", "COMMANDS_HOME", "SESSION_STATE_POINTER_FILE", "CONFIG_ROOT", "/tmp/x"},
     writes |-> BOOLEAN, approved |-> BOOLEAN, rules |-> BOOLEAN, words |-> {"none", "yes"},
     interactive |-> {TRUE}, prompts |-> {1, 4}, docPrompts |-> {1}, doc |-> {{"ask"}, {"unsafe"}},
     widening |-> {TRUE}, widenApproved |-> {TRUE}, supported |-> {FALSE},
     lock |-> {<<>>, LockHash(MCManifests, {1})}, selected |-> {{}, {1}, {2, 3}}, requireLock |-> {FALSE},
     matchHashes |-> {TRUE}, ruleset |-> {RulesetHash([Base EXCEPT !.selected = {1}])},
     activation |-> {HashOf(Base), HashOf([Base EXCEPT !.phase = "5.3"])}, dirty |-> {TRUE},
     live_engine |-> {TRUE}, selfcheck |-> {FALSE}, degrade |-> {TRUE},
     told |-> {{"tests"}}, listed |-> {{"tests"}},
     contract |-> {<<>>, <<Criterion("k", "tests", "none", TRUE), Criterion("k", "tests", "tier", TRUE)>>},
     otherPhases |-> {1}, tier |-> {"medium", "unknown"}, strict |-> BOOLEAN]

Item(good, seen, ttl, value) ==
    [claim |-> "tests", kind |-> "tests", good |-> good, seen |-> seen, ttl |-> ttl, value |-> value]
MCItems == {Item(TRUE, 0, 1, 70), Item(TRUE, 0, 0, 90), Item(FALSE, 0, 2, 40), Item(TRUE, Unset, 2, 90)}
PackEdit(pack, field, value) == [pack |-> pack, field |-> field, value |-> value]
MCPackEdits ==
    {PackEdit(2, "requires", 3), PackEdit(2, "requires", 4), PackEdit(1, "conflicts", 3),
     PackEdit(2, "owns", Api), PackEdit(2, "touches", Api), PackEdit(3, "requires", 2),
     PackEdit(3, "touches", Db), PackEdit(1, "requires", 1)}

\* The environments of a resolution.
MCEnvs ==
    [host : {"user", "pipeline"}, policy : {"none", "solo", "regulated"}, backfill : {"none", "team", "bogus"},
     late : BOOLEAN, enforced : {"none", "solo", "regulated"},
     source : {"none", "ci", "regulated-pipeline", "repo-policy"},
     signals : {{}, {"ci"}, {"ci", "regulated"}, {"repo-bound"}},
     floor : {"none", "team", "regulated"}, glass : {"none", "active", "expired"}]

-----------------------------------------------------------------------------
(* The installer: a file per kind, two of the payload with one name, and a    *)
(* plugin the new release has dropped.                                       *)

MCShipped ==
    LET both == {"plan.md", "governance_runtime/VERSION", "VERSION", "audit-new-session.mjs"}
    IN (old :> both \cup {"retired.mjs"}) @@ (new :> both)
MCOrder == <<"governance.paths.json", "plan.md", "governance_runtime/VERSION", "VERSION",
             "audit-new-session.mjs", "retired.mjs", "bin/PYTHON_BINDING", "bin/wrapper",
             "INSTALL_HEALTH.json">>
MCLockable == {"plan.md", "audit-new-session.mjs", "notes.txt", "bin/wrapper", "governance.paths.json",
               "opencode.json", "INSTALL_MANIFEST.json"}
MCNameOf == [f \in {"governance_runtime/VERSION", "VERSION"} |-> "VERSION"]

Installing(release, python, force, backup, bind) ==
    [verb |-> "install", release |-> release, python |-> python,
     force |-> force, backup |-> backup, bind |-> bind, purge |-> FALSE]
Uninstalling(release, force, purge) ==
    [verb |-> "uninstall", release |-> release, python |-> py1,
     force |-> force, backup |-> FALSE, bind |-> FALSE, purge |-> purge]
MCJobs ==
    {Installing(old, py1, TRUE, TRUE, TRUE), Installing(new, py2, TRUE, TRUE, TRUE),
     Installing(new, py2, FALSE, TRUE, TRUE), Installing(old, py1, FALSE, TRUE, FALSE),
     Installing(new, py1, TRUE, FALSE, TRUE),
     Uninstalling(new, TRUE, FALSE), Uninstalling(old, FALSE, TRUE)}

-----------------------------------------------------------------------------
(* Business rules: repositories with a document, with code, with both, with a  *)
(* fault of each kind, and on both sides of the ratio of valid rules.          *)

MCKindOf ==
    [pay |-> "rule", free |-> "rule", defer |-> "rule", retry |-> "technical",
     token |-> "artifact", sample |-> "overfit", vague |-> "invalid"]
MCClashes == {{"pay", "free"}}

\* A line of code that enforces a rule, one of a schema, one of another surface.
CodeLine(at, surface, context, body, times) ==
    [at |-> at, surface |-> surface, anchor |-> TRUE, meaning |-> TRUE,
     context |-> context, body |-> body, times |-> times]
Enforcing(at, body, times) == CodeLine(at, "business", TRUE, body, times)
Schema(at) == CodeLine(at, "schema", FALSE, "pay", 1)
Tooling(at, times) == CodeLine(at, "tooling", TRUE, "pay", times)

DocLine(at, body) == [at |-> at, allowed |-> TRUE, section |-> TRUE, rules |-> {[id |-> at, body |-> body]}]
Repository(surfaces, docs, code) == [files |-> surfaces, docs |-> docs, code |-> code, skewed |-> FALSE]
Hint(id, body) == [wellFormed |-> TRUE, marked |-> TRUE, rule |-> [id |-> id, body |-> body]]
Input(repository, hints) == [repository |-> repository, hints |-> hints]

PlainDoc == DocLine(1, "defer")
PlainCode == {Enforcing(1, "pay", 1)}
MCRepositories ==
    {Repository(0, {}, {}), Repository(0, {PlainDoc, DocLine(2, "retry")}, {}),
     Repository(0, {PlainDoc, [DocLine(2, "pay") EXCEPT !.allowed = FALSE]}, {}),
     Repository(0, {PlainDoc, [DocLine(2, "pay") EXCEPT !.rules = {}]}, {}),
     Repository(1, {PlainDoc, [DocLine(2, "free") EXCEPT !.section = FALSE]}, PlainCode),
     Repository(3, {}, {Tooling(1, 10)}),
     Repository(3, {PlainDoc}, {Enforcing(1, "token", 1), Enforcing(2, "sample", 1)}),
     [Repository(20, {}, {Enforcing(1, "pay", 1), Tooling(2, 9)}) EXCEPT !.skewed = TRUE],
     Repository(50, {}, {Enforcing(1, "pay", 2), Enforcing(2, "vague", 18), Schema(3)}),
     Repository(50, {}, {Enforcing(1, "pay", 2), Enforcing(2, "vague", 19), Schema(3)})}
Contradicted == Repository(1, {DocLine(1, "free")}, PlainCode)
Doubtful == Repository(1, {DocLine(1, "vague")}, PlainCode)
MCInputs ==
    {Input(repository, {}) : repository \in MCRepositories}
    \cup {Input(repository, hints) : repository \in {Contradicted, Doubtful}, hints \in {{}, {Hint(9, "defer")}}}
    \cup {Input(Repository(1, {PlainDoc}, PlainCode), hints) : hints \in
            {{[Hint(8, "free") EXCEPT !.marked = FALSE], Hint(9, "free")},
             {Hint(8, "free"), [Hint(9, "free") EXCEPT !.marked = FALSE]},
             {Hint(8, "pay"), [Hint(9, "token") EXCEPT !.wellFormed = FALSE]}}}

-----------------------------------------------------------------------------
NoArchive ==
    /\ archive = SomeArchive({}, "failed", {}) /\ age = Absent /\ config = Absent
    /\ holds = [id \in HoldIds |-> Absent]
    /\ bundle = Absent /\ copying = Absent /\ target = Absent /\ summary = Absent
NoEngine ==
    /\ request = Base /\ items = <<>> /\ now = 0 /\ changes = 0
    /\ outcome = EngineOutcome(Base, <<>>, 0)
Resolving ==
    /\ request \in {[Base EXCEPT !.env = env, !.mode = mode] : env \in MCEnvs, mode \in {"none", "user"}}
    /\ items = <<>> /\ now = 0 /\ changes = MaxChanges
    /\ outcome = EngineOutcome(request, items, now)
AtTheExit ==
    /\ request = Leaving /\ items = <<>> /\ now = 0 /\ changes = 0
    /\ outcome = EngineOutcome(request, items, now)

NoInstaller == InstallInit /\ settings = Missing

Init ==
    /\ RulesInit
    /\ \/ part \in {"keeping", "exporting"} /\ GInit /\ NoEngine /\ NoInstaller
       \/ part = "engine" /\ NoArchive /\ (EInit \/ Resolving) /\ NoInstaller
       \/ part = "evidence" /\ NoArchive /\ AtTheExit /\ NoInstaller
       \/ part = "installer" /\ NoArchive /\ NoEngine /\ InstallInit
       \/ part = "rules" /\ NoArchive /\ NoEngine /\ NoInstaller

Next ==
    \/ part = "keeping" /\ KeepingNext /\ UNCHANGED <<evars, ivars, rvars, part>>
    \/ part = "exporting" /\ ExportNext /\ UNCHANGED <<evars, ivars, rvars, part>>
    \/ part = "engine" /\ AskNext /\ UNCHANGED <<gvars, ivars, rvars, part>>
    \/ part = "evidence" /\ ENext /\ UNCHANGED <<gvars, ivars, rvars, part>>
    \/ part = "installer" /\ InstallNext /\ UNCHANGED <<gvars, evars, rvars, part>>
    \/ part = "rules" /\ RulesNext /\ UNCHANGED <<gvars, evars, ivars, part>>

Spec == Init /\ [][Next]_vars

=============================================================================
