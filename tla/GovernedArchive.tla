--------------------------- MODULE GovernedArchive ---------------------------
(***************************************************************************)
(* What happens to an archived run afterwards: the pipeline that judges it,  *)
(* its export and restore, and the retention that keeps it.                  *)
(*                                                                         *)
(*   infrastructure/governance_orchestrator.py  the pipeline and the export  *)
(*   infrastructure/governance_hooks.py         the pipeline after /new-work  *)
(*   infrastructure/archive_export.py           bundles, restores, holds     *)
(*   infrastructure/redaction.py, domain/classification.py                  *)
(*   infrastructure/governance_retention_guard.py, domain/retention.py       *)
(*   domain/failure_model.py, infrastructure/recovery_executor.py           *)
(*                                                                         *)
(* The archive itself is closed and does not change.  A file is copied in   *)
(* one step, and between any two the export can fail or stop.                *)
(***************************************************************************)
EXTENDS AccessControl, RunArchive, Integers, Sequences

CONSTANTS
    Archives,   \* the archives looked at: [files, status, breaches]
    Configs,    \* what governance-mode.json may hold: [state, framework, floor, changed],
                \* or Absent
    Exports,    \* the exports asked for: [role, approver, workspace, redact, level]
    Ages,       \* the ages of an archive that matter, in days
    HoldIds     \* the legal holds that may be written

VARIABLES
    archive, \* the archive
    age,     \* days since it was archived; Absent when the date does not parse
    config,  \* the regulated mode of the workspace; Absent when missing or damaged
    holds,   \* the legal hold records, by id
    bundle,  \* the export directory: its files, its manifest and for what it was asked
    copying, \* the request the running export serves
    target,  \* the restore directory: its files
    summary  \* governance-summary.json in the archive

gvars == <<archive, age, config, holds, bundle, copying, target, summary>>

\* An archive is new at first; a configuration that can be read has a state, a
\* framework and a number of days, whatever these are.
ASSUME AgesAssumption == 0 \in Ages /\ Ages \subseteq Nat
ASSUME ConfigsAssumption ==
    \A c \in Configs : c # Absent =>
        c \in [state : STRING, framework : STRING, floor : Int, changed : {FALSE}]

\* DEFAULT_CONFIG: what a missing or damaged file is read as.
DefaultConfig == [state |-> "inactive", framework |-> "", floor |-> 365, changed |-> FALSE]

\* detect_regulated_mode.  A state it does not know is inactive.
DetectedMode ==
    CASE config = Absent -> DefaultConfig
      [] config # Absent /\ config.state \notin RegulatedStates -> [config EXCEPT !.state = "inactive"]
      [] OTHER -> config

-----------------------------------------------------------------------------
(* Retention. *)

Levels == {"public", "internal", "confidential", "restricted"}

\* RETENTION_PERIODS; an unknown level is kept longest.
PeriodDays(level) ==
    CASE level = "public" -> 365
      [] level = "internal" -> 1095
      [] level = "confidential" -> 2555
      [] OTHER -> 3650

EffectiveDays(level, framework) ==
    Larger(PeriodDays(level), IF framework = "" THEN 0 ELSE FrameworkOverride(framework))

\* A hold record as write_legal_hold_record leaves it; applies says whether its
\* scope, a run, a repository or all, takes in this archive.
Hold == [status : {"none", "active", "released"}, applies : BOOLEAN]

OnHold == \E id \in HoldIds : holds[id] # Absent /\ holds[id].status = "active" /\ holds[id].applies

\* evaluate_deletion, in its order.
DeletionDecision(level, days, framework, active, floor) ==
    CASE OnHold -> "legal-hold"
      [] ~OnHold /\ active /\ floor > 0 /\ days < floor -> "regulated-mode"
      [] ~OnHold /\ ~(active /\ floor > 0 /\ days < floor)
            /\ days < EffectiveDays(level, framework) -> "retention"
      [] OTHER -> "allowed"

\* Mutant: a date that does not parse counts as long ago.
PurgeAllowedUndated(level, framework) ==
    DeletionDecision(level, IF age = Absent THEN 36500 ELSE age, framework,
                     ModeActive(DetectedMode.state), DetectedMode.floor) = "allowed"

\* check_archive_retention; the framework is the caller's, not the configured one.
PurgeAllowed(level, framework) ==
    /\ age # Absent
    /\ DeletionDecision(level, age, framework,
                        ModeActive(DetectedMode.state), DetectedMode.floor) = "allowed"

-----------------------------------------------------------------------------
(* Failures and what is proposed against them. *)

\* FAILURE_CLASSIFICATIONS: [fatal, strategy, retryable].
Classification(category) ==
    CASE category = "archive_write_error" ->
            [fatal |-> TRUE, strategy |-> "retry", retryable |-> TRUE]
      [] category = "integrity_check_failed" ->
            [fatal |-> TRUE, strategy |-> "rearchive", retryable |-> TRUE]
      [] category \in {"schema_validation_failed", "timestamp_invariant_violated"} ->
            [fatal |-> FALSE, strategy |-> "manual", retryable |-> FALSE]
      [] category = "repo_fingerprint_mismatch" ->
            [fatal |-> TRUE, strategy |-> "manual", retryable |-> FALSE]
      [] OTHER -> [fatal |-> TRUE, strategy |-> "escalate", retryable |-> FALSE]

\* What classify_failure makes of the messages of the pipeline, which it reads
\* by their words: a missing file, a wrong run id or a denied access is unknown.
Category(error) ==
    CASE error = "not-finalized-failed" -> "archive_write_error"
      [] error = "integrity-status" -> "integrity_check_failed"
      [] error = "schema" -> "schema_validation_failed"
      [] error = "timestamp" -> "timestamp_invariant_violated"
      [] OTHER -> "unknown"

\* The categories in the order of their names, in which the actions are listed.
CategoryOrder ==
    <<"archive_write_error", "integrity_check_failed", "repo_fingerprint_mismatch",
      "schema_validation_failed", "timestamp_invariant_violated", "unknown">>

\* build_failure_report.
FailureReport(errors) ==
    LET categories == {Category(e) : e \in errors}
        first == CHOOSE i \in DOMAIN CategoryOrder :
                    /\ CategoryOrder[i] \in categories
                    /\ \A j \in 1..(i - 1) : CategoryOrder[j] \notin categories
    IN [categories  |-> categories,
        primary     |-> IF errors = {} THEN "none" ELSE Classification(CategoryOrder[first]).strategy,
        fatal       |-> \E c \in categories : Classification(c).fatal,
        recoverable |-> \A c \in categories : Classification(c).retryable]

\* execute_failure_recovery: a report, the token made of the same moment and a
\* hook for the strategy; whether the report is recoverable is not asked.
RecoveryAttempted(report, sameMoment, hooks) ==
    /\ report.primary # "none"
    /\ sameMoment
    /\ report.primary \in hooks \cap {"retry", "rearchive", "escalate"}

-----------------------------------------------------------------------------
(* The pipeline. *)

\* validate_archive_for_export and validate_archive_contract, as errors.
ArchiveErrors ==
    {"missing-file" : f \in RequiredFiles \ archive.files}
        \cup (IF "run-manifest" \in archive.files /\ archive.status # "finalized"
              THEN {IF archive.status = "failed" THEN "not-finalized-failed" ELSE "not-finalized"}
              ELSE {})
ContractErrors ==
    IF {"run-manifest", "metadata", "provenance-record"} \subseteq archive.files
    THEN archive.breaches ELSE {"unreadable"}

\* run_governance_pipeline.  The deletion is evaluated for the record only: for
\* level internal, at age 0, and it does not decide whether the run passes.
Pipeline(mode, role, action, approver) ==
    LET allowed == Allowed(role, action, ModeActive(mode.state), approver)
        errors == ArchiveErrors \cup ContractErrors \cup (IF allowed THEN {} ELSE {"access"})
    IN [passed |-> errors = {}, report |-> FailureReport(errors),
        deletion |-> DeletionDecision("internal", 0, mode.framework, ModeActive(mode.state), mode.floor)]

-----------------------------------------------------------------------------
(* Redaction. *)

LevelRank(level) == CASE level = "public" -> 0 [] level = "internal" -> 1
                      [] level = "confidential" -> 2 [] OTHER -> 3

\* FIELD_CLASSIFICATIONS, by file, level and strategy.  top is false for the
\* fields of the session, which lie below the root SESSION_STATE of its file.
Catalogue ==
    {[file |-> "run-manifest", top |-> TRUE, level |-> "public", strategy |-> "none"],
     [file |-> "run-manifest", top |-> TRUE, level |-> "internal", strategy |-> "hash"],
     [file |-> "run-manifest", top |-> TRUE, level |-> "internal", strategy |-> "none"],
     [file |-> "metadata", top |-> TRUE, level |-> "internal", strategy |-> "none"],
     [file |-> "metadata", top |-> TRUE, level |-> "confidential", strategy |-> "hash"],
     [file |-> "metadata", top |-> TRUE, level |-> "confidential", strategy |-> "mask"],
     [file |-> "provenance-record", top |-> TRUE, level |-> "internal", strategy |-> "none"],
     [file |-> "provenance-record", top |-> TRUE, level |-> "public", strategy |-> "none"],
     [file |-> "SESSION_STATE", top |-> FALSE, level |-> "internal", strategy |-> "none"],
     [file |-> "SESSION_STATE", top |-> FALSE, level |-> "public", strategy |-> "none"],
     [file |-> "SESSION_STATE", top |-> FALSE, level |-> "confidential", strategy |-> "mask"],
     [file |-> "SESSION_STATE", top |-> FALSE, level |-> "restricted", strategy |-> "remove"]}

\* classify_field: a path the catalogue does not have is internal and hashed.
Classified(field) ==
    IF field.top THEN [level |-> field.level, strategy |-> field.strategy]
                 ELSE [level |-> "internal", strategy |-> "hash"]

\* Mutant: a field at the level asked for is taken for one above it, and one
\* above it for one at the level.
LeavesInClearFlipped(field, level) ==
    LET found == Classified(field)
    IN LevelRank(found.level) > LevelRank(level) \/ found.strategy = "none"

\* redact_document: what of a document leaves in clear.
LeavesInClear(field, level) ==
    LET found == Classified(field)
    IN LevelRank(found.level) <= LevelRank(level) \/ found.strategy = "none"

-----------------------------------------------------------------------------
(* Export and restore. *)

\* Mutant: the required files are copied before the optional ones.
ExportOrderRequiredFirst ==
    <<"SESSION_STATE", "checksums", "evidence-index", "metadata", "outcome-record",
      "provenance-record", "review-decision-record", "run-manifest", "ticket-record",
      "finalization-record", "plan-record", "pr-record">>

\* The order in which the files are copied, by name; the last one is required.
ExportOrder ==
    <<"SESSION_STATE", "checksums", "evidence-index", "finalization-record", "metadata",
      "outcome-record", "plan-record", "pr-record", "provenance-record",
      "review-decision-record", "run-manifest", "ticket-record">>

\* The files of a source still to be copied.
Left(source, done) == {n \in source \cap ArchiveFiles : n \notin done}
NextFile(left) ==
    ExportOrder[CHOOSE i \in DOMAIN ExportOrder :
                    /\ ExportOrder[i] \in left
                    /\ \A j \in 1..(i - 1) : ExportOrder[j] \notin left]

\* The mode governed_export_cli knows: only with --workspace-root it looks.
ModeOf(request) == IF request.workspace THEN DetectedMode ELSE DefaultConfig

GInit ==
    /\ archive \in Archives
    /\ age \in {0, Absent}
    /\ config \in Configs
    /\ holds = [id \in HoldIds |-> Absent]
    /\ bundle = Absent /\ copying = Absent /\ target = Absent
    /\ summary = Absent

\* run_post_archive_governance: whatever it finds, /new-work goes on.  An error
\* leaves no summary.
Judge ==
    /\ summary = Absent
    /\ summary' = Pipeline(DetectedMode, "system", "verify_archive", NoRole)
    /\ UNCHANGED <<archive, age, config, holds, bundle, copying, target>>

\* governance_export up to the mkdir of export_finalized_bundle.
BeginExport(request) ==
    /\ copying = Absent
    /\ Pipeline(ModeOf(request), request.role, "export_archive", request.approver).passed
    /\ bundle = Absent
    /\ bundle' = [files |-> {}, manifest |-> FALSE, request |-> request,
                  regulated |-> ModeActive(ModeOf(request).state)]
    /\ copying' = request
    /\ UNCHANGED <<archive, age, config, holds, target, summary>>

CopyFile ==
    /\ copying # Absent
    /\ Left(archive.files, bundle.files) # {}
    /\ bundle' = [bundle EXCEPT !.files = @ \cup {NextFile(Left(archive.files, bundle.files))}]
    /\ UNCHANGED <<archive, age, config, holds, copying, target, summary>>

\* The manifest comes last.
FinishExport ==
    /\ copying # Absent
    /\ Left(archive.files, bundle.files) = {}
    /\ bundle' = [bundle EXCEPT !.manifest = TRUE]
    /\ copying' = Absent
    /\ UNCHANGED <<archive, age, config, holds, target, summary>>

\* A copy that fails: the except removes the directory, whose removal may fail too.
ExportFails ==
    /\ copying # Absent
    /\ copying' = Absent
    /\ bundle' \in {Absent, bundle}
    /\ UNCHANGED <<archive, age, config, holds, target, summary>>

\* validate_restored_bundle.
BundleValid == bundle # Absent /\ bundle.manifest /\ RequiredFiles \subseteq bundle.files

\* restore_from_bundle; the export manifest stays behind.
BeginRestore ==
    /\ BundleValid /\ target = Absent
    /\ target' = [files |-> {}, running |-> TRUE]
    /\ UNCHANGED <<archive, age, config, holds, bundle, copying, summary>>

RestoreFile ==
    /\ target # Absent /\ target.running /\ bundle # Absent
    /\ LET left == Left(bundle.files, target.files)
       IN target' = IF left # {} THEN [target EXCEPT !.files = @ \cup {NextFile(left)}]
                                 ELSE [target EXCEPT !.running = FALSE]
    /\ UNCHANGED <<archive, age, config, holds, bundle, copying, summary>>

\* A copy that fails, and the removal that may fail as well.
RestoreFails ==
    /\ target # Absent /\ target.running
    /\ target' \in {Absent, [target EXCEPT !.running = FALSE]}
    /\ UNCHANGED <<archive, age, config, holds, bundle, copying, summary>>

\* write_legal_hold_record: a record is replaced under its id.  A hold is
\* placed active and, once active, released; its scope does not change.
WriteHold(id) ==
    /\ \/ /\ holds[id] = Absent
          /\ \E applies \in BOOLEAN :
                holds' = [holds EXCEPT ![id] = [status |-> "active", applies |-> applies]]
       \/ /\ holds[id] # Absent /\ holds[id].status = "active"
          /\ holds' = [holds EXCEPT ![id].status = "released"]
    /\ UNCHANGED <<archive, age, config, bundle, copying, target, summary>>

\* validate_retention_change, and the floor it lets through.  changed remembers
\* that the configuration was validated once.
ChangeRetention(days) ==
    /\ config # Absent
    /\ RetentionChangeAllowed(DetectedMode.state, DetectedMode.framework, DetectedMode.floor,
                              DetectedMode.floor, days)
    /\ config' = [config EXCEPT !.floor = days, !.changed = TRUE]
    /\ UNCHANGED <<archive, age, holds, bundle, copying, target, summary>>

\* Time goes by; the archive gets older, from one age of interest to the next.
Days(next) ==
    /\ age # Absent
    /\ next > age /\ \A a \in Ages : a > age => a >= next
    /\ age' = next
    /\ UNCHANGED <<archive, config, holds, bundle, copying, target, summary>>

\* What is done with the archive, and what keeps it.  Neither touches a variable
\* of the other, so an instance may look at one of them at a time.
ExportNext ==
    \/ Judge
    \/ \E request \in Exports : BeginExport(request)
    \/ CopyFile
    \/ FinishExport
    \/ ExportFails
    \/ BeginRestore
    \/ RestoreFile
    \/ RestoreFails

KeepingNext ==
    \/ \E id \in HoldIds : WriteHold(id)
    \/ \E days \in Ages : ChangeRetention(days)
    \/ \E next \in Ages : Days(next)

GNext == ExportNext \/ KeepingNext

GSpec == GInit /\ [][GNext]_gvars

-----------------------------------------------------------------------------
\* A bundle that a reader accepts, and a restored directory with all that is
\* required, hold every file of a finalised archive, wherever the export or the
\* restore stopped or failed before.
BundlesAreWhole ==
    /\ BundleValid => archive.status = "finalized" /\ bundle.files = archive.files \cap ArchiveFiles
    /\ target # Absent => archive.status = "finalized"
    /\ target # Absent /\ RequiredFiles \subseteq target.files
            => target.files = archive.files \cap ArchiveFiles

\* Where the export looked at the workspace and found it regulated, two people
\* stand behind the bundle, the second of them an approver; and nothing left
\* that the catalogue finds and calls confidential or restricted, if it was to
\* be redacted.
BundlesAreGoverned ==
    bundle # Absent =>
        LET request == bundle.request
        IN /\ request.role \in {"operator", "compliance_officer", "admin", "system"}
           /\ bundle.regulated => request.approver = "approver" /\ request.role # "approver"
           /\ request.redact /\ LevelRank(request.level) <= LevelRank("internal") =>
                \A field \in Catalogue :
                    field.file \in bundle.files /\ field.top
                        /\ field.level \in {"confidential", "restricted"} =>
                            ~LeavesInClear(field, request.level)

\* Once the retention of a regulated workspace was changed under validation, no
\* archive is purged before the days of its framework, though the guard is not
\* told the framework and knows the floor only; and a hold, or a date that
\* cannot be read, keeps an archive in any case.
NothingPurgedEarly ==
    \A level \in Levels : PurgeAllowed(level, "") =>
        /\ age \in Ages /\ age >= 365
        /\ \A id \in HoldIds : holds[id] # Absent /\ holds[id].status = "active" => ~holds[id].applies
        /\ config # Absent => (config.changed /\ ModeActive(config.state)
                => age >= FrameworkDays(config.framework))
=============================================================================
