# Governance runtime: TLA+ models and proofs

The program is a governance runtime for changes an LLM makes to a repository. It keeps
one JSON document per workspace, `SESSION_STATE.json`, moves it through a numbered phase
machine (0 to 6) and lets the operator act on it by commands, the *rails*: `/continue`,
`/ticket`, `/plan`, `/review-decision`, `/implement`, `/new-work`. Each rail is a process of
its own. What the program promises is an order: a ticket before a plan, a recorded plan
before its review, closed Phase-5 gates before Phase 6, an internal review and a presented
package before the operator's decision, and an approval before an implementation.

Before that a launcher creates the workspace and walks the session to its first gate; after it
`/new-work` seals the run in an archive, which is judged, exported, restored and kept; and an
engine decides, run by run, whether a step of an agent is let through.

These modules say what the code does with that order, command by command, and what of the
promise holds.

- [1 Inventory](#1-inventory)
- [2 Modules and how they correspond to the code](#2-modules-and-how-they-correspond-to-the-code)
- [3 What the runs check](#3-what-the-runs-check)
- [4 What is proved](#4-what-is-proved)
- [5 Findings](#5-findings)
- [6 Not modelled](#6-not-modelled)
- [7 Plan](#7-plan)

Paths are below `src/governance_runtime/` unless they say otherwise.

## 1 Inventory

| Component | State it keeps | Operations | What is hard | What makes it correct |
|---|---|---|---|---|
| Phase kernel (`kernel/phase_kernel.py`, table in `src/governance_spec/phase_api.yaml`, guards in `guards.yaml`) | none; reads the session | `execute()`: request rules, prerequisite gate of Phase 6, first transition whose guard holds | called by three rails with sessions in different states; a "stay" phase advances only when the next call carries evidence | Phase 6 proper is never granted with an open prerequisite |
| Gate evaluators (`engine/gate_evaluator.py`) and constants (`application/services/phase5_gate_constants.py`) | the `Gates` map in the session | P5.3 to P5.6, `can_promote_to_phase6` | two lists of the same gates: the evaluators skip a gate that does not apply, the constants do not | the two agree whenever they are asked |
| Session rails (`entrypoints/`) | `SESSION_STATE.json`, `compiled_requirements.json` | `/continue`, `/ticket`, `/plan`, `/review-decision`, `/implement`, `/new-work` | any order the operator likes, no phase guard on `/ticket`; a stop between two writes; fields left from before; files others change while an executor works | decisions on the current plan, implementation of an approved one, accepted for what was done in it |
| Session helpers (`application/use_cases/session_state_helpers.py`, `rework_clarification.py`, `infrastructure/plan_record_state.py`) | - | `with_kernel_result`, gate propagation, consumption of a rework | propagation closes gates by the advertised next phase | only gates already passed are closed |
| Phase-5 normalizer (`application/services/phase5_normalizer.py`) | - | synchronise conditional gates, reset a Phase 6 with an open gate, complete a stale review | runs in `/continue` only | no mixed state stays on disk |
| Review orchestrator (`application/services/phase6_review_orchestrator/`) | `ImplementationReview` block | up to three calls of a reviewer | the iteration is persisted, so a loop may start at its end | a verdict is not dropped; a plan is reviewed |
| Workspace lock (`entrypoints/workspace_lock.py`, `infrastructure/fs_atomic.py`) | directory `.lock` with `owner.json` | acquire, stale reclaim, time-out, release | several processes, crashes, a TTL | one holder; never stuck |
| Plan record (`infrastructure/plan_record_repository.py`) | `plan-record.json`, archive | append, finalise, rotate | two appends at once; a crash in a rotation | versions are never lost |
| Ready gate and pointer (`infrastructure/workspace_ready_gate.py`, `session_pointer.py`) | `locks/workspace.lock`, marker, evidence, pointer | `ensure_workspace_ready` | a second lock directory; three files written one after the other | the pointer only ever names a ready workspace |
| Bootstrap and artifact persistence (`entrypoints/bootstrap_preflight_readonly.py`, `bootstrap_persistence_hook.py`, `bootstrap_session_state_orchestrator.py`, `persist_workspace_artifacts_orchestrator.py`, `application/use_cases/bootstrap_persistence.py`) | session, identity map, policy, four artifacts, the inventory of rules, activation intent, global pointer | launch: bootstrap, backfill, commit, hook, kernel continuation; a backfill by itself | starts anew over a session in progress; the lock outlives an exception; half of it runs without the lock; the pointer is shared by all repositories | commit flags say what is there; a launcher run again gets to the ticket gate |
| Kernel before Phase 4 (`kernel/phase_kernel.py`) | none | `execute()` from 1 to 4, persistence and rulebook gates, hydration before each call | a loop of eight calls that reports success when it runs out | Phase 4 is earned |
| Work run archive (`infrastructure/work_run_archive.py`, `run_audit_artifacts.py`, `io_verify.py`, `domain/audit_contract.py`) | `runs/<repository>/<day>/<id>/`: seventeen writes | archive, verify, purge, start afresh | a stop or a failure between any two files; an except block over a directory in any state | nothing purged that is not sealed; what is sealed stays |
| Work session restore (`entrypoints/work_session_restore.py`) | session, plan record, `current_run.json` | reactivate | reads before the lock, writes three files under it | an archive is never a mixture of two runs |
| Access control and approval (`domain/access_control.py`, `regulated_mode.py`, `entrypoints/human_approval_persist.py`, `infrastructure/run_audit_artifacts.py`) | the approval in the session | permit, four eyes, approve | an approval outlives what it was given for | a regulated change is sealed with an approval of somebody else |
| Governed archive (`infrastructure/governance_orchestrator.py`, `archive_export.py`, `redaction.py`, `governance_retention_guard.py`, `recovery_executor.py`) | bundles, restored directories, legal holds, summary | judge, export, restore, hold, change retention | copies file after file; rules of years and several people | no partial or ungoverned bundle; nothing purged early |
| Operating mode (`domain/operating_profile.py`, `application/use_cases/resolve_operating_mode.py`), pack lock (`infrastructure/pack_lock.py`), evidence and strict exit (`domain/strict_exit_evaluator.py`, `domain/evidence_policy.py`) | none | resolve a mode; order packs; judge evidence at the exit of a phase | precedence of sources; cycles and conflicts named on one side; freshness | what is resolved is not below what is demanded |
| Engine run (`application/use_cases/orchestrate_run.py` and its gates) | none | a chain of some twenty gates that ends in ok, not verified or blocked | a later gate overwrites an earlier one's reason | a second fault never lifts a block |
| Receipts (`receipts/match.py`) | - | match | - | - |
| Installer (`install/install.py`) | rails, payload and plugins on disk, `governance.paths.json`, launcher, `INSTALL_HEALTH.json`, `opencode.json`, manifest, backups | install, uninstall, with and without force, backups, a paths file | no write is atomic, existing files are skipped, releases follow each other, the user edits the same directories, files may be held open | complete means complete; the user's files are copied before they are replaced |
| Business rules (`engine/business_rules_*.py`, `persist_workspace_artifacts_orchestrator.py`, gate P5.4) | `business-rules.md`, `business-rules-status.md`, the session's `BusinessRules` block | discover, validate, merge a model's hints, write or remove, hydrate, neutralise, normalise | three stores written one after the other, errors that are swallowed, a status that is kept, a second pass that replaces the first one's report | no finding is outvoted; what /new-work reads is what a discovery stands for |
| Response and prompt engine | texts | - | text, no protocol | - |

How they interact. A rail resolves the workspace by the global pointer, loads the document,
may consume a requested rework, calls the kernel, merges the kernel's result with
`with_kernel_result` and replaces the file in one atomic rename. `/continue` does more: it
runs the review loop (in Phase 6), synchronises the conditional gates before and after the
kernel, normalises, and renders the review package. The launcher does all of it before a work run: it bootstraps under the
workspace lock, lets the backfill write the artifacts, moves the global pointer, commits, and then,
without the lock, walks the session through the kernel to Phase 4. `/new-work` ends one: it archives
the files of the run, verifies the archive, purges the files and writes a fresh session; an archive can
be reactivated. The installer puts the commands, the runtime and the launcher on a machine, and takes
them away again. The engine run reads what all of these leave behind. Only `/new-work`, bootstrap, artifact
persistence and the restore take the workspace lock; `/ticket`, `/plan`, `/continue`,
`/review-decision` and `/implement` take none. The ready gate takes a different directory.

The hazards this leads to are listed, each at its line and with the properties that would
catch it, under `hazards` in `PROJECT.json`.

## 2 Modules and how they correspond to the code

`PROJECT.json` (`map`) names the lines of every definition.

| Module | Models |
|---|---|
| `PhaseKernel` | the kernel from Phase 4 on as operators on a session record: the transition table, the guards, the gate evaluators, `Execute` |
| `GovernanceSession` | one action per rail over the stored session; the state machine of a work run |
| `MCGovernanceSession`, `SessionClaims` | the repositories the runs look at; what the documentation says |
| `Delivery`, `MCDelivery` | `/plan` in its steps and `/implement` on changing files, which to `GovernanceSession` are one step each |
| `WorkspaceLock` | the workspace lock, one action per file-system call |
| `WorkspaceReadyGate`, `MCWorkspaceReadyGate` | the ready gate, one action per file-system call |
| `StartPhases`, `Bootstrap`, `MCBootstrap` | the kernel before Phase 4 as operators; the launchers and the files they share, one action per access to a file |
| `RunArchive`, `AccessControl` | what the files of an archive say of each other and who may do what, as operators |
| `WorkRuns`, `MCWorkRuns`, `SealedLedger` | archive, purge, fresh session and restore, one action per file; the ledger it implements |
| `GovernedArchive` | an archive judged, exported, restored and kept |
| `OperatingMode`, `PackLock`, `Evidence` | three pure parts of an engine run, as operators |
| `EngineRun` | the chain of gates, run again after each change of the world |
| `Install` | the installer, one action per file it writes or deletes |
| `BusinessRules` | a discovery of business rules from the lines it reads to the gate P5.4, one action per file |
| `MCDecisions` | the instances of `GovernedArchive`, `EngineRun`, `Install` and `BusinessRules` |
| `GovernanceSessionProofs` | the kernel and the types of the session, proved |
| `SessionSafetyProofs` | what `session_safety` checks, proved |
| `DeliveryProofs` | the invariants and the refinement of `Delivery`, proved |
| `WorkspaceLockProofs`, `WorkspaceReadyGateProofs`, `BootstrapProofs`, `WorkRunsProofs` | theorems about the module of that name |
| `DecisionsProofs` | theorems about what `MCDecisions` has instances of |

Who uses whom: `GovernanceSession` stands on `PhaseKernel`, `Delivery` on `GovernanceSession` (and shows by
`INSTANCE` that it implements it), `Bootstrap` on `StartPhases`, `WorkRuns` on
`RunArchive` and `AccessControl`, `GovernedArchive` on the same two, `EngineRun` on `OperatingMode`,
`PackLock` and `Evidence`. `WorkRuns` shows by `INSTANCE SealedLedger` that it implements the ledger.

**PhaseKernel.** `Transitions` is the ordered list of edges of each phase, `Passes` the
guards, `Selected` the first edge whose guard holds, `Execute` the request rules around it.
The edges of Phase 6 for a presented, accepted or reworked *implementation* are left out,
since no command can write the fields they wait for (section 6). Names of phases are their
tokens, names of gates have hyphens for spaces, and an empty string is `"unset"`.

**GovernanceSession.** `st` is the document, one field per field of it that a guard reads:

| Field | In the document |
|---|---|
| `phase`, `next`, `gate`, `evidence` | `phase`, `next`, `active_gate`, `phase_transition_evidence` |
| `gates` | `Gates` |
| `ticket`, `p5met`, `contracts` | `Ticket`/`Task`, the Phase-5 self-review fields, the compiled contracts `/implement` asks for |
| `planSeen` | `plan_record_versions >= 1`, which outlives the file |
| `iter`, `revComplete`, `review`, `blkComplete`, `verdict` | the review iteration (its two copies), `implementation_review_complete`, and the status, flag and verdict of the `ImplementationReview` block |
| `p6state`, `consumed` | `phase6_state`, `rework_clarification_consumed` |
| `decision`, `wf` | `UserReviewDecision.decision`, `workflow_complete` |
| `started`, `exec` | the started flag and status of the implementation |
| `pkg` | the review package: the plan and ticket it shows, and whether its receipt still matches |

`planRecord` is `plan-record.json`; `facts` is what the evaluators see of the repository and
mode and no rail of Phases 4 to 6 writes; `drafted`, `reviewed` and `approved` are history.
The helpers are composed in the order of the code: `ContinueOutcomes` is the review loop,
`SyncGates`, `Execute`, `Materialize`, `SyncGates`, `Normalize` and `Present`, as in
`_materialize_authoritative_state`. What an LLM answers is a choice (`LoopVerdicts`). A rail
that writes two files has a second action for the stop between them (`PlanInterrupted`,
`ContinueInterrupted`); a stop before the first write is a stutter. What a rail refuses is a
stutter as well, unless the refusal writes the document.

**Delivery.** `job` is the `/plan` that runs: the draft, how often its review has revised it (`rev`), whether
all sections are there (`whole`), its iteration, and `at`, the file it writes next. `Review` is one iteration
of the self-review, `Answers` what a reviewer can come to; then `PersistContracts`, `AppendDraft`,
`AppendRevised` and `FinishPlan` write `compiled_requirements.json`, one or two versions of the record, and the
session, in this order. `Stop` ends it anywhere: by a crash, a refusal or a write that fails. A text is a plan
and its number of revisions; `rev` and `contracts` say which text the record and the contracts are.
`/implement` is `ImplementRun`: which files git names before it, which are touched meanwhile, which git names
after it, and whether executor, answer and tests were in order, are choices; `Changed` and `Compliant` are what
the code makes of them. `delivered` (the accepted run) and `halted` (a `/plan` stopped among its files) are
history. One command runs at a time. `Session` reads a record whose `/plan` has not yet written the session as
not there, which makes the write of the session the step that counts.

**WorkspaceLock.** `pc` is where a process is; `dir`, `owner`, `litter` are the directory,
the `owner.json` in it and the temporary file of a crashed write. One action is one call on
the file system: `mkdir`; `mkdir` again by `atomic_write_text`, the temporary file, its
rename; the existence test and the read of `owner.json`; `unlink` and `rmdir` of a reclaim;
`unlink` and `rmdir` of the release. `Expire` is the TTL passing, whether or not the holder
is alive: the code cannot tell. `stolen` is a history variable that records the moment a
reclaim takes something from a living holder.

**WorkspaceReadyGate.** The same grain for `ensure_workspace_ready`, whose lock is a directory
of its own and works otherwise: a run that finds it held gives up, a reclaim makes the directory
again without going back to the start, and a failed write of `owner.json` is passed over
(`OwnerWriteFails`). Behind the lock, the marker, the evidence and the global pointer are
replaced one after the other; `CommitFails` is the write that raises, after which the
`finally` block releases; a `Crash` leaves even that out. `Home` is the workspace of each
process: processes of one workspace share its lock and files, all share the pointer. `expired`
is reset with the removal of an `owner.json`, since it says something of that file only.

**StartPhases and Bootstrap.** A `SessionDocument` is what the kernel and the hydration read of a
session before Phase 4: phase, commit flags, intent, discovery, rules outcome, P5.4, API inventory.
`ExecuteStart` is `execute()`, `Hydrated` the hydration before it, `Hop` both together, and `Walked` the
loop of eight hops, written as four turns of two so that it is a function and no recursion.
In `Bootstrap`, `pc` says which file a launcher touches next, `doc` is the document it has read and not
yet written back, `ws` the files of each workspace; `intent` and `pointer` belong to the configuration
root all of them share. A read-change-write of the session is two actions (`ReadForUpdate` and
`UpdateSession`, `ReadForMerge` and `Commit`, `ReadForRoute` and `Route`). The lock is as its callers see
it: free, held, or expired (its grain is `WorkspaceLock`). `Refused` is an error the bootstrap reports:
it lets the lock go. `Interrupt` is an exception or a stop: the lock stays, since no `finally` clause
releases it.

**RunArchive and WorkRuns.** An archive is the set of its files with the content of those that change
during its life: session, plan, manifest, metadata, finalisation record, checksums. A checksum is the
content itself. `VerifyRunArchive` has one conjunct per check of `verify_run_archive`; `ContractHolds` and
`Exportable` are the two other texts that say what a finished archive is. `WriteOne` is the sequence of
`archive_active_run`; files whose absence no reader can tell apart are one step. `ArchiveFails` is the
except block, in whatever state the directory is; `Crash` leaves even that out, or stops between its two
files. A rail is a load and a store, since rails take no lock. `torn` and `dropped` are history: that a
document was put back over another run's, and which runs a restore or a bootstrap wrote over.

**GovernedArchive.** `Judge` is the pipeline with its summary; an export is `BeginExport` (the pipeline must have passed for
the role that asks, with four eyes where the workspace is looked at and regulated), `CopyFile` for each file in alphabetical order with its redaction, `FinishExport` for the
manifest; `ExportFails` is an error whose clean-up may fail as well, or a stop. The restore has the same
three. `WriteHold`, `ChangeRetention` and `Days` are what happens to an archive over years.

**EngineRun.** `request` is what is asked and the world it is asked in (some forty fields, each read by some
gate), `items` the observed evidence, `now` the clock; `outcome` is the answer of
`run_engine_orchestrator` to them. `EarlyReason`, `PromptReason` and `LateReasons` are the gates in their
order, with what overwrites what. The two hashes a run may have to match are modelled by what they are made of
(`RulesetHash`, `ActivationHash`): a request holds those of an earlier run, and every change of mode, target, phase,
capabilities, repository or packs changes what they are compared with. Whether the repository is found takes capabilities too
(`IsGitRoot`). Every action changes one thing and runs the engine again, so an
action property compares two runs.

**Install.** `disk` says of each file whether it is missing, torn, the user's or of a release; `binding`,
`launcher`, `settings` and `manifest` are `governance.paths.json`, the interpreter in each file of `bin/`,
`opencode.json` and `INSTALL_MANIFEST.json`; `backups` is where copies of the user's files are, by the job
that made them and the second in which it began, which names the directory (`clock`; two jobs may begin in one
second). A job is a command line (`verb`, `release`, `python`, `force`, `backup`, `bind`, `purge`),
`stage` where it is and `todo` the files it still has to do, of which `Upcoming` is the next. The stages follow `install()` (binding,
launcher, health, copy and hygiene, settings, injection, manifest) and `uninstall()` (targets one after the
other, `commands/`, the payload, the manifest, the plugin entry). No write is atomic, so each may be the one
in which the process is stopped (`whole = FALSE`), which leaves a torn file; `Stop` is a stop between two. `locked`
is a file that another program holds open, of a release, of the user's or one the installer makes (a launcher, the
report, the binding, `opencode.json`, the manifest): it fails an installation, once its copy is made (`HeldUp`), and is passed
over by an uninstall, whose exit code tells (`result`), except of the manifest. A rail of the user's may hold something that the
injection replaces (`Marked`, and `Changed` after that): a placeholder, or a line that calls `session_reader.py`. Which of
them, and how many, is left out.
The hygiene of `commands/` and the two purges are one step each, since nothing reads between their
deletions. Between jobs the user writes or removes files and loses an interpreter.

**BusinessRules.** A repository is its lines: of the documents with a rule's marker, each with whether its file and
its section admit it and the rules it falls into, and of the code, each with its surface and the signs the extraction
looks for. `KindOf` says what the texts do to the body of a rule, `Clashes` which bodies contradict each other.
`Deterministic` validates twice (`SecondPass` knows the coverage the first found); `MergedHints` is what the hints of a
model become; `Discovered` is all that `main` of the orchestrator makes of them. `discovery` is the one under way: `WriteInventory`, `Compare` (the
file is read back and removed if it holds other rules), `Sweep`, `WriteStatus`, `UpdateSession`, and `EndDiscovery`
between any two. A write or a removal whose error the code swallows is a disjunct of its step. `RulesNewWork` is
what `/new-work` makes of the two files (`Neutralized`, then `Hydrated`), `RulesLaunch` what a launch does to the
block. `warrant` (the inventory a discovery wrote or confirmed last and none removed) and `told` (what P5.4 said
after a discovery that wrote both files) are history. The counts the code takes of lines are counts of lines here
too, `times` for lines that are alike. Left out: the order in which directories are read, which decides only which
of two equal rules is kept; an edit of the inventory by the user, which the comparison takes for other rules; how
lines spread over surfaces, which is the one fact `skewed`.

## 3 What the runs check

| Run | Question | Answer |
|---|---|---|
| `session_safety` | what holds within a work run (`WorkRun`), on ten kinds of repository | all properties hold |
| `session_progress` | with `/plan` in its steps, stopped anywhere, and files that others change: is an implementation accepted for what it did, is the session the one of `session_safety`, does a reviewed plan get to its decision | yes |
| `lock_safety` | is the lock exclusive as long as nothing living is reclaimed, and is a dead one reclaimed | yes |
| `ready_gate` | does the pointer only name complete workspaces, is an ok about one session, is a dead lock reclaimed | yes |
| `bootstrap` | do commit flags and pointer say what is there, is the ticket gate earned, does a launcher run again get there | all properties hold |
| `work_runs` | is what is purged archived, and is an archive whole, accepted, approved and never changed | all properties hold |
| `decisions` | is a bundle whole and governed, is anything purged early; does a loss or a second fault open a gate of the engine; is an installation that is called complete complete, what does an uninstall leave, and what of the user's is written over | all properties hold |
| `claim_*` | five statements of the documentation and comments | refuted, section 5 |

Safety of a work run (`session_safety`):

- `DecisionGateClosed`: the Evidence Presentation Gate is shown in Phase 6 only, with every
  Phase-5 gate closed. Any rail can be the last that executed the kernel; `/ticket` does so
  without looking at the gates again.
- `DecisionOnCurrentPlan`: what can be decided on is the plan on record. The package may
  have been presented before a regression and a second `/plan`, or `/plan` stopped after
  writing the record; then its receipt must no longer match.
- `AuthorityBacked`: `workflow_complete` or a standing approval means a Phase 6 with closed
  gates whose plan on record was approved. It relates fields written by four rails.
- `ImplementsApprovedPlan`: `/implement` runs on an approved plan.
- `ContinueLeavesNoMixedState`, `ContinueRegressesToOpenGate`, `ReworkNotContinuedAway`:
  what a `/continue` may not do: leave Phase 6 with an open gate on disk, go back for
  any other reason than an open gate, talk a requested rework away.

`ContinueLeavesNoMixedState` is a property of `/continue` and not an invariant: `/ticket`
given in Phase 6 can leave a mixed state, which the next `/continue` resets.

`/plan` and `/implement` from the inside (`session_progress`):

- `AcceptedIsEarned`: the gate Implementation Review Complete is shown for a run that met every requirement by a
  file changed while it ran. What the user edited before, what a stopped run left, what was
  committed or undone in between, and what is below `.governance/` must not count.
- `JudgedByItsContracts`: the contracts an accepted implementation was held to were made of the very text its
  executor got, although the review revises the text, record and contracts are two files, and either may be of
  another `/plan`. A `/plan` stopped between them is the exception (section 5).
- `SessionImplemented`: the refinement. However `/plan` stops, to the session it is the single step, or the
  interrupted one, that `GovernanceSession` makes of it; so is `/implement`. What `session_safety` and the
  theorems say of `GovernanceSession` therefore holds of this model too.

Liveness: `PlanGetsDecided`, for a repository in which nothing holds a gate open, in the same run. The
fairness is `FairDelivery`: a `/plan` that was started takes its steps (`WF_<<vars, dvars>>(PlanStep)`; it is a
program that waits for nobody but a reviewer with a time-out), and the operator keeps asking for the next step
between commands, with mandate and review policy available when the loop wants them
(`SF_<<vars, dvars>>(Asked)`; strong, since another `/plan` may be under way again and again). No other rail is
fair, and any may come between two `/continue`; the code needs nothing more. The conclusion names the
ways a session can leave the path: it waits for the operator, is back in Phase 4, or is
being implemented. `AbandonedIsReclaimed` of the lock assumes that processes run on, that a
command that failed is given again (`WF_vars(Step(p))`), and that time passes
(`WF_vars(Expire)`).

The ready gate (`ready_gate`):

- `PointerIsReady`: the pointer names a workspace that has its marker and its evidence, wherever
  a run fails or dies and even when its lock was stolen.
- `OkIsOneSession`: a run that reports ok wrote marker and evidence itself. Two clones of one
  repository have one fingerprint and so one workspace; the files must not be of both. Like
  the exclusion of the other lock it holds until a living lock is reclaimed.
- `AbandonedIsReclaimed`: as for the other lock, under the same fairness.

The bootstrap (`bootstrap`):

- `CommitIsBacked`: a session with commit flags has what they stand for: the intent, the policy, the
  identity map and all four artifacts. Two launchers may overwrite each other's sessions, one with a
  lock that was taken over, and a continuation may write a session back long after the lock is gone.
- `PointerIsUsable`: the pointer of the configuration root names a workspace with session, identity map
  and artifacts, wherever the launcher of which repository stopped.
- `IntakeIsEarned`: Phase 4 wants a committed session, loaded rulebooks, a complete discovery and an API
  inventory, also in a session that another launcher created anew during the walk.
- `OkReachesIntake`: the continuation reports OK when its eight hops run out, wherever it is then. The
  eight are enough for every session a launcher can read.
- `LoneLaunchSucceeds`: a launcher that is run again and again by itself gets its
  repository to the ticket gate, with the pointer on it, and its inventory of rules to what the
  repository holds, whatever was left behind.

The archive (`work_runs`):

- `NoRunLost`: a run that was begun is in progress, or sealed, or was written over by a restore or a
  bootstrap, which is what these two are for.
- `PurgedIsArchived`: what `/new-work` purges is, at that moment, in a sealed archive, with the content
  it has on disk; the rails may have changed the files since they were copied.
- `ArchivesAreWhole`: no sealed archive has files of two runs. This and the two before exclude, by
  `torn`, that a rail stored a document of another run or a restore stopped between its files.
- `SealedMeetsContract`: `verify_run_archive`, the audit contract and the export test agree.
- `SealedIsApproved`: a regulated pull request is sealed with the approval of an approver who is not who
  asked, although the approval stays in the session over everything.
- `LedgerImplemented`: the refinement. An entry is made once, and never changed or taken out.

The decisions (`decisions`). About an archive: `BundlesAreWhole`, `BundlesAreGoverned`,
`NothingPurgedEarly` (no order of holds, floors and frameworks lets an archive go before its time). About
the engine: `BlocksAreKept` (no source of the mode undercuts the profile that is enforced, where the mode comes out of the profiles; and a second fault
may change the reason of a block and never lifts it), `StrictExitIsBacked` (of a criterion that is listed twice, the critical one counts),
`PackOrderIsSound`, and `LossOpensNothing`, which compares two runs: a capability withdrawn, or time that
goes by, never makes the outcome or the exit better. There is one exception to the outcome (`HostIsBack`). The activation hash contains the
capabilities, so a run that was blocked because it does not match one recorded with fewer may match it when the capability goes; it is then
the recorded activation in everything the hash is made of.

About the installer, in the same run:

- `CompletedIsWhole`: an installation that reports success is whole, whatever earlier jobs, stops and edits
  left: all files of the release, no placeholder, no foreign file in `commands/`, one living interpreter in
  all places, a manifest that tells the truth. Of a file that was there before, an unforced
  installation promises no more than that it is there: it may be torn (section 5).
- `UninstallTakesAll`: what an uninstall leaves of the program is a file it could not delete, be it one of the release, a
  launcher, the report or the binding, and then its exit code is not 0. Files an earlier, unforced installation skipped are in
  no manifest and go all the same. A manifest that is left could not be deleted either, but the exit code does not tell.
- `UserFilesAreKept`: under the configuration root a file of the user's is replaced by a forced installation
  only, and after a copy was made unless `--no-backup`, with the exception of a rail the injection fills in (section 5); copies
  outlive all later jobs but one that began in the same second; the user's keys in
  `opencode.json` are lost only by a write that is stopped. It says nothing of what an uninstall deletes.

About the rules of a repository, in the same run:

- `ViolationsDominate`: what is written to the inventory, or confirmed there, is told from the lines and the hints
  alone: no line of an inadmissible document, none without a rule, enough of the code's rules valid, every rule
  from one of the sources. Six counts, two coverages and up to three reports stand between the two.
- `RefutedRulesStayOut`: `/new-work` closes P5.4 only for an inventory that a discovery wrote or confirmed and none
  has removed since, although the status may be older, a discovery may have stopped anywhere, and the session's
  own block is passed through.
- `FilesSpeakForSession`: what `/new-work` reads out of the files after a finished discovery is the answer the
  discovery gave in the session. The exception is a contradiction that only the status remembers (section 5).

Bounds. `MaxReviewIterations = 3` is the code's own. Two tickets and two plans: every
hazard of a work run relates one old and one new of them; a plan is drafted once, which
bounds the runs. `EveryGate` has a quiet repository and one for each value that can open a
Phase-5 gate, and pipeline mode with and without business rules: ten sets of facts. With
symmetry in tickets and plans this gives 29,560 states. `session_progress` has no symmetry
(it checks liveness), and `/new-work`: a plan with all sections and one without, two review iterations, so
that a text is revised twice, once or not at all, and two files, the one every requirement names and one below
`.governance/`, which a requirement may name as well; one ticket. 81,084 states. Three processes and two crashes on the
lock: one that holds, one that reclaims, one that takes what was reclaimed, and a crash for
each of the first two. Two processes and two crashes on the ready gate, where whoever reclaims
takes the lock itself; one workspace, since processes of different ones share only the pointer
(`PointerAlwaysReady` is the theorem for any number of workspaces).

`bootstrap`: two launchers, the first attended in a repository with rules, the second attended in the
same one or run by a pipeline in another without rules; the intent is absent or damaged at first; one
event, which is a failing write, a stop, a run that outlives its lock, or a change of the rules. One is
what each hazard needs; a second would be independent of it, since a launcher forgets everything at its
end. 230,739 states. `work_runs`: two runs and two days, since an archive is filed by day and every
mixture is of two runs; three events among rails, stops, failing writes and midnights; a host with an
unregulated repository without and a regulated one with a pull request; five approvals, of which two are
acceptable. It stops when its events are used up, so deadlock is not checked. `decisions`: eight archives
as `/new-work`, a failure or a stop leaves them, six configurations, six exports, the ages on both sides
of every period. The engine starts from seven requests that every gate lets through (or that ask for one
thing more, or have to match the hashes of a host with a capability fewer) and gets two changes, so that every pair of faults meets; evidence gets up to five items and
ticks; a resolution of the mode sees every combination of its sources once. The installer: a file
of each kind, two of the payload with the same name (their backups meet), and a plugin the newer of two
releases has dropped; seven command lines, two of them in a row, in one second or in two, since each property relates what one job left to
the next; one edit, which may leave a placeholder in a rail, and one stop; one locked file a job, a rail, a plugin, a foreign file, a
launcher, the binding, `opencode.json` or the manifest. The rules: sixteen inputs, on both sides of each threshold that can
block (no code, 20 and 50 surfaces, a tenth of the candidates valid, a line of a foreign file, an artifact, a
contradiction, hints that are equal, malformed or without a marker), and two discoveries, since each property
relates what one left to what the next finds; 1,351,028 states in all. The four share no
variable, so a behaviour is about one of them (`part`); it ends when its changes are used up.

`session_safety` checks `WorkRun`, the rails without `/new-work`, because `/new-work` is what breaks
`ImplementsApprovedPlan` and `AuthorityBacked` (section 5). The theorems and the refinement are about `Spec`, which
has it.

Fairness of `bootstrap`: a launcher that was started takes its steps (`WF_vars(Proceed(p))`), and the TTL
of a lock passes (`WF_vars(Age(r))`). That it is started again is a premise (`Relaunched`), as is that no
other runs any more (`Alone`); failures and stops are not fair, and there may be as many as the bound
allows.

Deadlock is checked in the runs of the session, the locks and the gate; a session always has a
`/continue` or a `/ticket`. In `bootstrap` it is not: when nobody launches, nothing happens.

## 4 What is proved

For every value of the constants: any sets of tickets and plans, any facts of the repository, `/new-work` included;
any files, requirements and number of review iterations; any set of processes and number of crashes; any launchers,
repositories, sets of rules and number of failures; any runs, days, approvals, stops and rails beside a command; any
archives, configurations and exports; any requests, contracts, evidence and manifests; any releases, command lines,
locked files and edits; any lines, hints and number of discoveries.

Assumed is what the modules name, and TLC evaluates each on its instance:

| Assumption | Says |
|---|---|
| `SessionAssumption` | the absent ticket and plan are none of the others, the facts are well formed |
| `DeliveryAssumption` | every requirement of a plan names one file that is not governed |
| `LockAssumption`, `GateAssumption` | the sets the two locks are about |
| `BootstrapAssumption` | the missing file is no launcher, repository, rule set or session |
| `AbsentAssumption` | what is not there is no document, manifest or directory |
| `AgesAssumption`, `ConfigsAssumption` | an archive is new at first; a configuration that can be read has a state, a framework and a number of days, whatever these are |
| `RequestsAssumption`, `ItemsAssumption` | what the engine is asked has all its fields and finitely many packs, an item of evidence has the fields of `BuildEvidence` |
| `InstallAssumption`, `MarksAssumption` | a release ships every rail and no extra file; kinds of files are at different paths, and the files the installer makes at none of them; what stands for a missing or torn file is no content |
| `FilesAreThere` | the missing file is none of the files a discovery writes |
| `InputsAssumption` | a repository has finitely many kinds of lines, each of them at least once; its files are counted and hints are numbered |

| Theorem | Statement | Run |
|---|---|---|
| `SessionTypeCorrect` | `Spec => []TypeOK` | |
| `DecisionOnlyBehindClosedGates` | `Spec => []DecisionGateClosed` | `session_safety` |
| `DecidedPlanIsCurrent` | `Spec => []DecisionOnCurrentPlan` | `session_safety` |
| `NoMixedState` | `Spec => ContinueLeavesNoMixedState` | `session_safety` |
| `RegressesToOpenGate` | `Spec => ContinueRegressesToOpenGate` | `session_safety` |
| `ReworkStaysRequested` | `Spec => ReworkNotContinuedAway` | `session_safety` |
| `AuthorityStandsOnApproval` | `WorkRun => []AuthorityBacked` | `session_safety` |
| `OnlyApprovedIsImplemented` | `WorkRun => ImplementsApprovedPlan` | `session_safety` |
| `DeliveryTypeCorrect` | `DSpec => [](TypeOK /\ DeliveryTypeOK)` | |
| `AcceptanceIsEarned` | `DSpec => []AcceptedIsEarned` | `session_progress` |
| `ContractsAreThePlans` | `DSpec => []JudgedByItsContracts` | `session_progress` |
| `DeliveryImplementsSession` | `DSpec => SessionImplemented` | `session_progress` |
| `LockTypeCorrect` | `Spec => []TypeOK` of the lock | |
| `LockExcludes` | `Spec => []ExclusiveUnlessStolen` | `lock_safety` |
| `GateTypeCorrect` | `Spec => []TypeOK` of the ready gate | |
| `PointerAlwaysReady` | `Spec => []PointerIsReady` | `ready_gate` |
| `OkCommitsOneSession` | `Spec => []OkIsOneSession` | `ready_gate` |
| `BootstrapTypeCorrect` | `Spec => []TypeOK` of the bootstrap | |
| `CommitAlwaysBacked` | `Spec => []CommitIsBacked` | `bootstrap` |
| `PointerAlwaysUsable` | `Spec => []PointerIsUsable` | `bootstrap` |
| `IntakeAlwaysEarned` | `Spec => []IntakeIsEarned` | `bootstrap` |
| `OkAlwaysReachesIntake` | `Spec => OkReachesIntake` | `bootstrap` |
| `TypeCorrect` | `Spec => []TypeOK` of the work runs | |
| `NothingIsLost` | `Spec => []NoRunLost` | `work_runs` |
| `SealedIsWhole` | `Spec => []ArchivesAreWhole` | `work_runs` |
| `SealedHoldsContract` | `Spec => []SealedMeetsContract` | `work_runs` |
| `SealedHasApproval` | `Spec => []SealedIsApproved` | `work_runs` |
| `OnlyArchivedIsPurged` | `Spec => PurgedIsArchived` | `work_runs` |
| `ArchiveIsLedger` | `Spec => LedgerImplemented` | `work_runs` |
| `BundlesAlwaysWhole` | `GSpec => []BundlesAreWhole` | `decisions` |
| `BundlesAlwaysGoverned` | `GSpec => []BundlesAreGoverned` | `decisions` |
| `NothingEverPurgedEarly` | `GSpec => []NothingPurgedEarly` | `decisions` |
| `BlockedStaysBlocked` | `ESpec => []BlocksAreKept` | `decisions` |
| `StrictExitAlwaysBacked` | `ESpec => []StrictExitIsBacked` | `decisions` |
| `NothingOpensByLoss` | `ESpec => LossOpensNothing` | `decisions` |
| `PackOrderAlwaysSound` | `ESpec => []PackOrderIsSound` | `decisions` |
| `CompletedAlwaysWhole` | `ISpec => []CompletedIsWhole` | `decisions` |
| `UninstallAlwaysTakesAll` | `ISpec => []UninstallTakesAll` | `decisions` |
| `UserFilesAlwaysKept` | `ISpec => UserFilesAreKept` | `decisions` |
| `RefutedRulesNeverPass` | `RulesSpec => RefutedRulesStayOut` | `decisions` |
| `FilesAlwaysSpeak` | `RulesSpec => FilesSpeakForSession` | `decisions` |
| `ViolationsAlwaysDominate` | `RulesSpec => []ViolationsDominate` | `decisions` |

The types are proved and are no properties of the runs. (TLC could not even evaluate that of `WorkRuns`, whose sets of
documents and directories are large; its type is what the record fields of a document may hold.)

### The session

`GovernanceSessionProofs` begins with what the others need to know of the kernel: `ExecuteReturns` says
which phase, next phase and gate a call can return, whatever the session; `EdgeTable` says
it of the table.

`DecisionGateClosed` is not inductive. Three things strengthen it, in `DecisionSound`:

1. *The two lists of gates agree* (`GatesSettled`). `/ticket` at the Evidence gate executes
   the kernel again, which asks `can_promote_to_phase6`; that skips P5.4 and P5.6 when they
   do not apply, while the constants want a closed value for every gate. They agree because
   `sync_conditional_p5_gate_states` settles all three conditional gates in one step, so that
   a P5.5 that is no longer pending (which `can_promote_to_phase6` always asks for) tells that
   P5.4 and P5.6 have been looked at. `PromotableIsClosed` is that lemma.
2. *Phase 6 advertises Phase 6*, else `/continue` could request a lower phase and leave the
   gate's name behind.
3. *A rejection does not reach Phase 6*. The edge `review_rejected` leads from Phase 6 to 4
   when the decision is "reject" at the Evidence gate. `/review-decision` goes to Phase 4 at once
   and keeps the decision in the document; the next `/continue` outside Phase 6 drops it,
   before there is evidence to leave Phase 5.

There is one lemma for each part of `/continue` (`SyncKeeps`, `LoopKeeps`, `MaterializeSound`,
`NormalizeSound`, `PresentFrame`) and one for each other rail.

The other six properties take two more facts of the code. `GateReasons` is why the kernel can come to a gate, read off
its table: to the Evidence gate only without pending rework, to the Rework gate only with one. `Shape` is what one
`/continue` can make of a session, given the session the kernel was asked about, its answer and the session before it was
normalised. From these:

- `DecisionOnCurrentPlan` needs `RecordSound`: a receipt that is fresh for another plan than the one on record is
  in Phase 4 or 5 or under rework, none of which shows the Evidence gate; back there leads a `/continue` only, which
  presents again.
- The three properties of `/continue` are about one step. `ContinueLeavesNoMixedState` is what the normalizer ends with.
  `ContinueRegressesToOpenGate` needs `ReworkSound` (`GatesTold`: which values the map has for gates that do not apply),
  since the normalizer opens P5.4 by itself while rework is clarified, and the regression it finds must be to a
  gate that is open on disk. `ReworkNotContinuedAway` follows from `GateReasons`.
- `AuthorityBacked` needs `Backed`: an approval never stands without the authorisation, no rework is open beside it
  (consuming one would send the session back and leave the authorisation), and a session beyond Phase 4 has a
  ticket. It is about `WorkRun`, and so is `ImplementsApprovedPlan`, which follows at the step.

Of `Delivery` the same invariant proves both properties (`Inv` of `DeliveryProofs`). The gate of an accepted
implementation is shown by `/implement` alone: no edge of the kernel, no default gate and no reset has its name
(`KernelNeverAccepts`, `CorrectionNeverAccepts`, and `BesideNeverAccepts` with them), so that `delivered` is about
the run the session shows. `JudgedByItsContracts` needs `ContractsFollow`: as long as no `/plan` was stopped among its
files, the contracts are those of the text on record, and once contracts are written they are those of the text the
running `/plan` has reviewed.

`DeliveryImplementsSession` is proved in two layers. `Session` is `GovernanceSession` with a record that leaves out a
`/plan` which has not written the session yet. As long as that record is the one on disk (`Settled`), every operator of
`Session` is the operator of that name (`ExecuteSame` to `RailsSame`), so a rail of one is a rail of the other. The
writes of `/plan` are then taken one by one (`PlanStepsRefine`): all but the last are steps the session does not
see, the last is `Plan`, a stop is `PlanInterrupted` or nothing. This needs `UnderWay`: the record a `/plan`
under way has found is still the one on disk, and it is still allowed.

### The locks and the ready gate

The exclusion of the lock is inductive once it is stated from the `mkdir` on and together
with "an `owner.json` is in a directory" (`Exclusion`).

`PointerIsReady` needs no lock: `OrderKept` says how far a process has come and what is there
by then, and nothing removes a file. `OkIsOneSession` does need it: `GateInv` states, of every
workspace whose lock was not stolen, that there is one process from the `mkdir` on, that its
directory is there, and that the files it has passed are its own. A step either concerns
another workspace (`ElsewhereKept`), makes the directory (`MakerIsAlone`), removes it
(`RemoverIsLast`), writes a file, or does neither (`ExclusionFrame`).

### The bootstrap

`CommitIsBacked` and `PointerIsUsable` need no lock either, which is as well, since the continuation works
without it. The invariant (`IInv` of `BootstrapProofs`) adds to them, for each launcher, what its place in
the program has established (`Way`): from the policy on the intent is valid, from the backfill on there
are policy, identity map and session, from the commit on all four artifacts; and a document it has read
with commit flags is of a workspace that backs them. `Grows` says that no step of any launcher takes
these back, so that a `Way` outlives the steps of the others (`WayOutlives`); a launcher's own step is
then a matter of that launcher (`StepKeepsInvariant`). `WalkKeepsCommit` shows that no hop of the
continuation touches the flags, whatever the session, from `KernelAnswers` on; `Commit` is the one step
that sets them.

`IntakeIsEarned` needs more of a document that was read than `Way` says. `EarnedInv` states it of every
session on disk and of every document a launcher holds: in Phase 4 it is committed, with rulebooks, discovery and
APIs. So whichever of them is written back over which, the property holds. Writers that create a session begin
before Phase 4 (`WritersEarn`), and the walk enters Phase 4 through the edge that asks for all of it (`HydrationEarns`,
`WalkEarns`).

That eight hops are enough (`OkReachesIntake`) is a measure: `Hops` is how many the way still has from the phase that is
asked for, `OnTheWay` which phase may be asked for from which, and `Walking(w, n, art)` that a walk with `n` hops left is over in
Phase 4, refused, or has no more than `n` before it. A hop takes one off (`LeftIsFollowed`, `TurnWalks`); from 1.1 it is
exactly eight.

### The archive

`WorkRunsProofs` has one invariant for a single command and a second for commands that cross. `ArchiveInv` says what the
directory holds before each of the writes of `/new-work` (`Progress`), that a finalised one passed the guard of the
regulated mode when it was finalised (`ArchiveSound`), whose run each document is (`OpSound`), and that every approval says who asked for it
(`Vouching`), wherever a copy of it is. `SealedMeetsContract`, `SealedIsApproved` and the ledger follow: a directory that
can be verified has no writer any more. `Untorn` is about what commands do to each other: unless a document was
put back over another run's, every plan is of the run it lies with, what `/new-work` has copied is still what is on disk,
and each run that was begun is somewhere. `NoRunLost`, `ArchivesAreWhole` and `PurgedIsArchived` need it.

### The decisions

*The governed archive.* Of a bundle `ExportInv` says that it was begun with the consent of the pipeline, which
wants a finalised archive (`PassedMeansGoverned`), and that its manifest, which is written last, tells that every file is
there. Of a restored directory `RestoreInv` says that it grows in alphabetical order from such a bundle. The last file in
that order is a required one, so a directory that has all the required files has the others as well.
`KeepingInv` is the one thing retention must remember: a floor that was changed under an active mode was
validated against the days of its framework.

*The engine.* The state is one request; `EngineInv` says that the outcome is the one of this request, these items and this
time. The work is about operators. `FirstReason` is not "none" if any reason is (`FirstReasonIsNone`, by the least
position, `LeastExists`), so a second fault can only replace a reason, and what is let through has passed
each gate (`EarlyLetsThrough`, `LateLetsThrough`); and `LossOpensNothing` goes through all gates
with a smaller set of capabilities or a later time. The gate of the hashes is the one that a smaller set can open (`OnlyTheHash`): then it was
the first to block, and what it asks for now is the hash it was given. Several decisions had been written as `CASE` with
overlapping arms, of which TLA+ does not say which is taken. TLC takes the first, as the code's chain of `if`s does;
the prover could not, and they are chains now (`PersistenceError`, `SurfaceReason`, `StatusOf`, `ProfileError`, `PackLockError`).

*The pack lock.* `PackOrderAlwaysSound` is about two loops, the queue that gathers packs and the frontier that orders
them, which the model has as recursive functions. The library's induction cannot be used (its theorems take an
operator as a parameter), so each induction is a descent: if the claim failed at some round, it would fail at a first one
(`LeastExists`), and the round before refutes that. A function with a recursive definition is first shown
to exist, for any number of steps (`WalksExist`, then `RoundsExist` and `BeginningsExist`). A round of the queue that adds
nothing is the last, any other adds a pack, and there are finitely many packs: so what the queue reaches is closed
(`ClosureIsClosed`). Every beginning of the order has each pack once and after those it requires
(`BeginningsInOrder`), and one as long as there are packs has them all (`OrderIsWhole`). One who touches a surface of
another must require the owner, so comes after it.

*The installer.* `InstallInv` says stage by stage what the stages before have established. Of an installation:
the launcher and the wrapper name the interpreter (`LauncherBound`); of the release's files those no longer to do are there and,
if forced, the release's and listed (`Placed`); what is listed is the release's own (`ListedAreOwn`, for which a file must not be listed
before its turn); no foreign file is left; no rail whose turn has been has a placeholder. Of an uninstall:
what was to be deleted is not there or locked and known to be left (`Gone`, which survives each further deletion: `DeletedAre` says
what is there after one, `DeletesMore` that nothing comes back), and the manifest, which half the targets come from, outlives the
deletions. A job that is stopped or
fails owes nothing (`NothingUnderWay`). The user's files need that a job comes to a file once: until then there is
no copy of it of this job (`CopiesAreOfJobs`), which a second copy would replace. A copy that is replaced is in the
directory of the same second, so it is of an earlier job that began in it (`CopiesStay`).

*The business rules.* The two action properties of the rules follow from one invariant (`RInv` of `DecisionsProofs`). `inventory = warrant`
says that nobody but a discovery touches the inventory. `DiscoveryFits` and `ToldFits` say that what a discovery wrote
so far is there when it ends, and what the status and the inventory are after one that wrote both. The first theorem then
needs only that a hydrated block is extracted with an inventory alone (`OnlyWithFile`). The second goes through the
snapshot twice: a gap stays one, since `passed` is in the status (`GapStaysGap`), and what is extracted comes back with
every field the gate reads (`ExtractedComesBack`), for which a report that is compliant must lack no rules
(`CompliantLacksNothing`, since the status does not say so) and have no severe reason (`SufficientIsClean`,
through both reconciliations of the coverage).

`ViolationsAlwaysDominate` is about one discovery: it goes on to the inventory with what it calls extracted only (`Undertaken`),
and what is called extracted is `Undisputed`, told from the lines and the hints. The lines of a repository are counted by a sum
over sets of kinds of lines, which is shown to exist and to count (`SumsExist`, `HowManyCounts`); an accepted line stands for as many rules
as it occurs (`CodeIsCounted`), which ties the coverage the code computes to the number of sound lines. A validation that is sufficient has
dropped no candidate (`SufficientHasAll`), one that is compliant has accepted every rule of them (`CompliantHasAll`); the first
pass gives this for documents and code (`FoundIs`), the pass over hints for hints (`HintsAreClean`). The
attempt showed that the property had been stated too strongly: it wanted a marker on every well-formed hint whose rule the
repository does not have. `MergedHints` takes of several hints with one body the first, so a later one without a marker
goes by. The property says so now (`EarlierMarked`), and the run has an input with two such hints.

### What stays with TLC

Liveness: `PlanGetsDecided`, both `AbandonedIsReclaimed` and `LoneLaunchSucceeds`. They need `ENABLED` of the
fair actions, which the prover does not do. Every invariant and
every action property that a passing run checks is a theorem.

## 5 Findings

Each has a run that ends with the behaviour (`findings` in `PROJECT.json`).

1. **`/new-work` keeps the authorisation** (`claim_new_work_authority`).
   `_reset_for_new_work` does not remove `workflow_complete`, the decision or the review
   block: after `/new-work`, `/ticket`, `/plan` and `/continue`, the new plan is in Phase 6
   with the old approval and `/implement` takes it.
2. **A second plan may be decided on unreviewed** (`claim_reviewed_first`). The iteration
   counter is that of the earlier plan; at its maximum the loop calls no reviewer, and the
   normalizer completes the review.
3. **A blocking verdict lasts for one `/continue`** (`claim_verdict_stands`). The next one
   runs a loop that starts at its maximum, which drops the verdict, and the normalizer then
   completes the review that had answered "changes requested".
4. **The workspace lock is not exclusive** (`claim_lock_exclusive`). A directory without
   `owner.json` counts as stale, so a lock between its `mkdir` and the rename of its
   `owner.json` is taken from its holder.
5. **A crash can leave a lock of the ready gate for ever** (`claim_stuck_lock`). When a process is
   killed between the temporary file and the rename of `owner.json`, every later `rmdir` fails;
   `src/governance_content/docs/contracts/runtime-state-contract.v1.md:147` says that stale
   locks are reclaimed.

Met while modelling, without a run of their own: a rejected plan can be put up for decision
again without a new one (`src/DOCS.md:488` says "restart from planning"); the
`ImplementationReview` block exists outside Phase 6 (`src/DOCS.md:754`, INV-300); at Implementation Review
Complete and at the Rework gate `/continue` does not lead to the Evidence gate
(`src/DOCS.md:532`, `:539`); with proposed technical debt P5.5, and with a touched surface P5.6,
never close, since no rail writes the value that would; `/continue` at the default edge
of Phase 4 grants evidence; a `/ticket` at the Evidence gate leaves the receipt of a package that
shows the old ticket; the workspace lock has the stuck
directory of finding 5 as well; `.lock` and `locks/workspace.lock` do not exclude each other.

Of `/plan` and `/implement`: nothing compares `requirement_contracts_digest` with the file of contracts, so a
`/plan` stopped between the contracts and the last version of the record leaves the plan before it judged by
contracts made of another text; `/new-work` resets neither `requirement_contracts_present` nor the file; a repetition
of `/implement` after a stop or an answer that does not keep to the schema credits nothing of what the executor
changed the first time, although the message asks to run it again; `RC_FORBIDDEN_PATH_CHANGED` cannot occur, since
the test for `.governance/` is made of a list from which those paths were removed; without the binding of the pipeline
the self-review of `/plan` calls nobody, asks for changes without findings to its maximum, and reports the
iterations as met; every compiled requirement names `session_reader.py` as its hotspot, whatever the plan says.

Of the bootstrap: run again, it overwrites the session in progress, whatever its phase; a run that raises
leaves its lock to the TTL; `release` removes whatever lock is there, another's included; a backfill that
finds no session bootstraps one, and can overwrite one created meanwhile; `PointerVerified` stays true in
a session after another repository moved the pointer; a discovery recorded as not completed passes the
exit check of Phase 2, which asks for the key only; a continuation over a session that an earlier one
brought to Phase 4 turns a settled outcome of the business rules into a gap (`engine/sanitization.py:59`,
`bootstrap_preflight_readonly.py:1098`); the backfill checks three artifacts and the bootstrap four; no
code writes APIs into a session, which leaves Phases 3B-1 and 3B-2 unreachable; an inventory that differs
from the rules is removed and comes back with the next run only.

Of the archive: after a planned run, a second `/new-work` without a new `/plan` is refused for good (the
session remembers a plan, the file is purged, the finalisation fails); stopped in the purge, `/new-work`
is refused for the rest of the day; a reactivation stopped between session and plan answers "noop" when
repeated and the plan stays missing; a reactivated run cannot be archived again on the same day; an
approval is good for the runs after the one it was given for; `invalidate_archived_run`,
`write_legal_hold_record`, `restore_from_bundle` and `validate_retention_change` have no caller at run
time, and nothing writes the regulated state of a session.

Of the installer: the injection rewrites a rail of the user's without a copy, although an unforced installation has
just skipped it and the head of the file promises "backup-on-overwrite (timestamped)" (`install/install.py:9`): it looks at
whatever is there, and writes it anew if it finds a placeholder or a line that calls `session_reader.py` (`:2025`; `Changed` in the model); an
uninstall empties `commands/`, with what the user has put there (`:2840`), where the head says "deletes only what
was installed" (`:10`); a stopped installation leaves torn files, which the next one skips without `--force` and then
reports complete; `uninstall` unlinks the manifest although files are left and the exit code says so
(`install/install.py:2742`), so that a repetition without `--force` is refused; a manifest that cannot be
unlinked is left with exit code 0 (`:2746`); two jobs of one second share a backup directory, and the later one's copies
replace the earlier one's (`:308`); a plugin that only the older
release shipped stays after an upgrade and an uninstall, since the manifest is replaced and the targets come
from the current source; copies of local-root files go by their name alone (`:1631`), so of `VERSION` and
`governance_runtime/VERSION` one copy survives; a user's plugin with the name of a shipped one is deleted by an
uninstall; `governance.paths.json` is deleted without `--purge-paths-file` when the manifest lists it, where
`src/DOCS.md:184` says it is preserved by default and `src/tests/test_installer_flow.py:281` wants it removed; `--status`
asks the manifest for `governance_version` and `installed_at`, which are written as `governanceVersion` and
`installedAt`.

Of the governed archive: an export rewrites files and copies their old checksums, so a restored bundle
never verifies (`src/governance_content/docs/governance/customer-control-mapping.md:111` says it can be); without `--workspace-root` an export asks nobody for four
eyes; legal holds do not influence the pipeline's result; the redaction does not reach into the session's
root key; a failure is classified by words of its message, so that an underscored one is "unknown".

Of the business rules: a status that exists is kept without `--force`, although the policy it states says "always
written" (`persist_workspace_artifacts_orchestrator.py:1184`) and
`src/governance_content/docs/governance/business-rules-runtime-semantics.md:92` wants it to say what the session says,
so that `/new-work` may come to another answer than the discovery before it; an error of the removal of a refuted
inventory is swallowed and the file stays; the pass over hints replaces the report of the first, which forgets a
contradiction between document and code and a refused rule of a document (what it wrote stays in the reasons, so
the gate passes in the session and `/new-work` finds a gap); hints that only repeat known rules make the rules of the
code rules of a document and the discovery a gap; that no rules were found although they were expected is in the
session and not in the status.

Of the engine: a run that has to match an activation recorded on a host with fewer capabilities is blocked, and let through
when the capability is withdrawn; a prompt that is not allowed, or a budget exceeded, replaces the reason of an earlier
block; a workspace that is not ready does not block; two targets without a surface are always denied;
asking for mode "user" in a regulated repository falls back to "team"; output is checked against the
phase that is asked for, where the docstring says the routed one; under strict exit a session
without any `phase_exit_contract` passes (`kernel/phase_kernel.py:1949` says fail-closed).

## 6 Not modelled

- *The workspace checks of the kernel before Phase 1.1* and Phases 3B-1 and 3B-2, which no session reaches.
- *`/implementation-decision`* and the edges of Phase 6 behind it: it wants the
  Implementation Presentation Gate, and nothing sets that gate.
- *The answer of a language model*: a choice among the verdicts. How a plan is generated or an
  answer parsed is left out.
- *Digests and timestamps of receipts*: `fresh` stands for "names the current run and revision".
- *Refusals of `/continue`* before the loop (a session that cannot be read, a binding that is missing): no write.
- *Two rails at once in `GovernanceSession` and `Delivery`*. Two commands of one
  operator at once lose an update, which no document promises anything about; `WorkRuns` has rails beside
  the commands that hold the lock, and `Bootstrap` writers beside the lock.
- *Finalisation and rotation of `plan-record.json`*: no command finalises a record, and the archive reads its latest
  version only.
- *Dry and read-only runs of the launcher* (`OPENCODE_FORCE_READ_ONLY`): they write nothing.
- *Of the installer*: the precheck of the source and dry runs (they write nothing), an uninstall that is refused
  or declined, the purge of error logs and workspaces, trees of older layouts, Windows and symbolic links, and
  the four read-only commands.
- *The regular expressions of the business rules, redaction patterns, prompts, rendering, reports,
  reason schemas*: text. Their verdicts enter as facts of a line (`KindOf`, the surface and signs of a line of
  code), of a repository (`facts`, `source`), or as levels of a field.
- *`code_extraction_report.json`*: written beside the status and read by nobody at run time.

This is also why the map names a small part of the implementation. Most of its lines parse, format,
validate shapes, render and report, build prompts or embed schemas and registries; they have no state
and no order, and a definition that stood for them would say nothing the properties could tell apart.

## 7 Plan

| Step | Module | State |
|---|---|---|
| 1 | `PhaseKernel`, `GovernanceSession`, their claims | modelled, checked; all safety properties proved |
| 2 | `WorkspaceLock`, `WorkspaceReadyGate` | modelled, checked; all safety properties proved |
| 3 | `Delivery`, which implements `GovernanceSession` | modelled, checked; invariants and refinement proved |
| 4 | `StartPhases`, `Bootstrap` | modelled, checked; all safety properties proved |
| 5 | `WorkRuns` and the ledger it implements | modelled, checked; all properties proved |
| 6 | `GovernedArchive`, `EngineRun`, `Install` | modelled, checked; all properties proved |
| 7 | `BusinessRules` | modelled, checked; all properties proved |

Next: two rails at once in `GovernanceSession`, and of the installer the uninstall that is refused or declined (section 6).
