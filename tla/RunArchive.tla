----------------------------- MODULE RunArchive -----------------------------
(***************************************************************************)
(* The directory of one archived run: what its files say of each other and  *)
(* when they are accepted.                                                  *)
(*                                                                         *)
(*   infrastructure/run_audit_artifacts.py   the records and their lifecycle *)
(*   infrastructure/io_verify.py             verify_run_archive              *)
(*   domain/audit_contract.py                the same, as a contract         *)
(*   infrastructure/archive_export.py        what may be exported            *)
(*                                                                         *)
(* A directory is the set of its files with the content of those that       *)
(* differ between two moments of its life.  A checksum is that content      *)
(* itself: what a digest can tell apart, equality can.  Headers, schema      *)
(* names and formats are well formed by construction of the builders.        *)
(***************************************************************************)
EXTENDS FiniteSets, TLC

CONSTANT Absent       \* a document that is not there

RequiredFiles ==
    {"SESSION_STATE", "metadata", "run-manifest", "provenance-record", "ticket-record",
     "review-decision-record", "outcome-record", "evidence-index", "checksums"}

OptionalFiles == {"plan-record", "pr-record", "finalization-record"}

ArchiveFiles == RequiredFiles \cup OptionalFiles

\* classify_run_type: pr when a pull request has a title or a body, plan when
\* the session remembers a plan, whether or not its file exists.
ClassifyRunType(s) == IF s.pr THEN "pr" ELSE IF s.planSeen THEN "plan" ELSE "analysis"

\* build_run_manifest.
RunManifest(run, at, type) ==
    [run |-> run, at |-> at, type |-> type, moded |-> TRUE,
     status |-> "in_progress", record |-> "draft", integrity |-> "pending",
     finalizedAt |-> FALSE, errors |-> FALSE,
     planRequired |-> type = "plan", prRequired |-> type = "pr"]

\* mark_run_manifest_materialized.
Materialized(m) ==
    [m EXCEPT !.status = "materialized", !.record = "draft", !.integrity = "pending",
              !.finalizedAt = FALSE, !.errors = FALSE]

\* finalize_run_manifest.
FinalizedManifest(m, hasPlan, hasPr, intact) ==
    IF intact /\ (m.planRequired => hasPlan) /\ (m.prRequired => hasPr)
    THEN [m EXCEPT !.status = "finalized", !.record = "finalized", !.integrity = "passed",
                   !.finalizedAt = TRUE, !.errors = FALSE]
    ELSE [m EXCEPT !.status = "failed", !.record = "invalidated", !.integrity = "failed",
                   !.finalizedAt = FALSE, !.errors = TRUE]

\* The manifest the except block writes; it names no operating mode.
FailManifest(run, at) ==
    [RunManifest(run, at, "analysis") EXCEPT
        !.moded = FALSE, !.status = "failed", !.record = "invalidated",
        !.integrity = "failed", !.errors = TRUE]

\* The metadata at its three stages.  listed is archived_files, digest the
\* snapshot_digest.
Metadata(run, at, doc, hasPlan, hasPr) ==
    [run |-> run, at |-> at, status |-> "materialized", reason |-> "none", digest |-> doc,
     listed |-> (RequiredFiles \ {"metadata"})
                    \cup (IF hasPlan THEN {"plan-record"} ELSE {})
                    \cup (IF hasPr THEN {"pr-record"} ELSE {})]

FinalizedMetadata(meta) == [meta EXCEPT !.status = "finalized", !.reason = "finalization"]

FailMetadata(run, at) ==
    [run |-> run, at |-> at, status |-> "failed", reason |-> "failure", digest |-> Absent,
     listed |-> {}]

\* A directory just made.
EmptyArchive ==
    [files |-> {}, session |-> Absent, plan |-> Absent, manifest |-> Absent, meta |-> Absent,
     origin |-> Absent, record |-> Absent, sums |-> Absent, approval |-> Absent]

\* The content of a file.  A record written once and left alone has one content.
Content(d, name) ==
    CASE name = "SESSION_STATE" -> d.session
      [] name = "plan-record" -> d.plan
      [] name = "run-manifest" -> d.manifest
      [] name = "metadata" -> d.meta
      [] name = "finalization-record" -> d.record
      [] OTHER -> name

\* build_checksums.
Checksums(d, names) == [n \in names |-> Content(d, n)]

\* What archive_active_run digests the first time.
ChecksumInputs(d) == d.files \ {"checksums", "finalization-record"}

\* build_finalization_record: the bundle hash covers the manifest and the
\* checksums, the finalization record itself left out.
FinalizationRecord(d) ==
    [status |-> d.manifest.status, recordStatus |-> d.manifest.record,
     integrity |-> d.manifest.integrity, moded |-> d.manifest.moded,
     reason |-> "finalization", manifest |-> d.manifest,
     sums |-> Checksums(d, ChecksumInputs(d))]

-----------------------------------------------------------------------------
(* verify_run_archive, check by check. *)

FilesPresent(d) == RequiredFiles \subseteq d.files

ChecksumsMatch(d) ==
    /\ DOMAIN d.sums \subseteq ArchiveFiles \ {"checksums"}
    /\ \A n \in DOMAIN d.sums : n \in d.files /\ d.sums[n] = Content(d, n)

SnapshotMatches(d) == d.meta.digest # Absent /\ d.meta.digest = d.session

\* The operating mode of the manifest; without one the archive is refused.
ModeRecorded(d) == d.manifest.moded

LifecycleHolds(d) ==
    LET m == d.manifest
    IN /\ m.status = "finalized" =>
            m.integrity = "passed" /\ m.finalizedAt /\ ~m.errors /\ "finalization-record" \in d.files
       /\ m.status = "failed" =>
            m.integrity = "failed" /\ ~m.finalizedAt /\ m.record = "invalidated" /\ m.errors
       /\ m.status = "materialized" => m.integrity = "pending" /\ ~m.finalizedAt

IdentitiesAgree(d, run) ==
    /\ d.manifest.run = run /\ d.meta.run = run /\ d.origin.run = run
    /\ d.manifest.at = d.meta.at /\ d.manifest.at = d.origin.at

ListedFilesAgree(d) ==
    /\ RequiredFiles \ {"metadata"} \subseteq d.meta.listed
    /\ \A n \in {"plan-record", "pr-record"} : n \in d.meta.listed <=> n \in d.files

ArchiveStatusAgrees(d) ==
    /\ d.manifest.status = "finalized" => d.meta.status = "finalized" /\ d.meta.reason = "finalization"
    /\ d.manifest.status = "failed" => d.meta.status = "failed" /\ d.meta.reason = "failure"

RunTypeHolds(d) ==
    LET m == d.manifest
    IN /\ m.planRequired <=> m.type = "plan"
       /\ m.prRequired <=> m.type = "pr"
       /\ m.planRequired => "plan-record" \in d.meta.listed
       /\ m.prRequired => "pr-record" \in d.meta.listed

EverythingChecksummed(d) ==
    (d.files \cap ArchiveFiles) \ {"checksums"} \subseteq DOMAIN d.sums

FinalizationAgrees(d) ==
    d.manifest.status = "finalized" =>
        /\ d.record.status = "finalized"
        /\ d.record.recordStatus = d.manifest.record
        /\ d.record.integrity = d.manifest.integrity
        /\ d.record.moded = d.manifest.moded
        /\ d.record.manifest = d.manifest
        /\ d.record.sums = [n \in DOMAIN d.sums \ {"finalization-record"} |-> d.sums[n]]
        /\ d.record.reason = d.meta.reason

\* A finalised pull request whose record asks for an approval has one.
ApprovalHolds(d) ==
    d.manifest.type = "pr" /\ d.manifest.status = "finalized" /\ d.approval.required =>
        d.approval.status = "approved"

VerifyRunArchive(d, run) ==
    /\ FilesPresent(d)
    /\ ChecksumsMatch(d)
    /\ SnapshotMatches(d)
    /\ ModeRecorded(d)
    /\ LifecycleHolds(d)
    /\ IdentitiesAgree(d, run)
    /\ ListedFilesAgree(d)
    /\ ArchiveStatusAgrees(d)
    /\ RunTypeHolds(d)
    /\ EverythingChecksummed(d)
    /\ FinalizationAgrees(d)
    /\ ApprovalHolds(d)

-----------------------------------------------------------------------------
(* The contract of audit_contract.py and the readiness for an export, both   *)
(* asked by the governance pipeline.                                         *)

ContractLifecycle(m) ==
    /\ m.status = "finalized" =>
         m.record = "finalized" /\ m.integrity = "passed" /\ m.finalizedAt /\ ~m.errors
    /\ m.status = "failed" =>
         m.record = "invalidated" /\ m.integrity = "failed" /\ ~m.finalizedAt /\ m.errors
    /\ m.status = "materialized" => m.integrity = "pending" /\ ~m.finalizedAt

\* Mutant: a plan only where the type asks for one.
ContractRunTypeExact(d) ==
    LET m == d.manifest
    IN /\ m.planRequired <=> m.type = "plan"
       /\ m.prRequired <=> m.type = "pr"
       /\ m.planRequired <=> "plan-record" \in d.files
       /\ m.prRequired <=> "pr-record" \in d.files

ContractRunType(d) ==
    LET m == d.manifest
    IN /\ m.planRequired <=> m.type = "plan"
       /\ m.prRequired <=> m.type = "pr"
       /\ m.planRequired => "plan-record" \in d.files
       /\ m.prRequired => "pr-record" \in d.files

\* validate_archive_contract.
ContractHolds(d, run) ==
    /\ {"run-manifest", "metadata", "provenance-record"} \subseteq d.files
    /\ ContractLifecycle(d.manifest)
    /\ IdentitiesAgree(d, run)
    /\ ContractRunType(d)

\* validate_archive_for_export.
Exportable(d) == FilesPresent(d) /\ d.manifest.status = "finalized"

\* A sealed archive: verify_run_archive accepts it and it is finalised.
Sealed(d, run) == d.manifest # Absent /\ d.manifest.status = "finalized" /\ VerifyRunArchive(d, run)
=============================================================================
